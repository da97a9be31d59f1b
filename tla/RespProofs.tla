----------------------------- MODULE RespProofs -----------------------------
(***************************************************************************)
(* Theorems about Resp, for any limits, any requests and any cutting of    *)
(* the client's bytes into reads.                                          *)
(***************************************************************************)
EXTENDS RespLemmas

-----------------------------------------------------------------------------
(* The inductive invariant: the bytes are bytes, and what has been made of *)
(* them does not depend on the reads.                                      *)
Cut == wire \in Text /\ received \in Text /\ SplitIndependent

LEMMA CutInit ==
  ASSUME RespFacts, LimitsAssumption, Init
  PROVE  Cut
<1>1. <<>> \in Text
  BY DEF Text
<1>2. QED
  BY <1>1, NothingRead, Zenon DEF Init, Cut, SplitIndependent

LEMMA CutStep ==
  ASSUME RespFacts, LimitsAssumption, BytesAssumption, Cut, [Next]_vars
  PROVE  Cut'
<1>1. wire \in Text /\ received \in Text /\ SplitIndependent
  BY Zenon DEF Cut
<1>2. CASE UNCHANGED vars
  BY <1>1, <1>2, Zenon DEF vars, Cut, SplitIndependent
<1>3. ASSUME NEW r \in Requests, Send(r)
      PROVE  Cut'
  <2>1. r.bytes \in Text
    BY Zenon DEF BytesAssumption, Text, Byte
  <2>2. wire' = wire \o r.bytes /\ UNCHANGED <<received, buf, taken, failed>>
    BY <1>3, Zenon DEF Send
  <2>3. wire' \in Text
    BY <1>1, <2>1, <2>2, JoinIs, Zenon
  <2>4. QED
    BY <1>1, <2>2, <2>3, Zenon DEF Cut, SplitIndependent
<1>4. ASSUME NEW bytes \in Junk, SendJunk(bytes)
      PROVE  Cut'
  <2>1. bytes \in Text
    BY Zenon DEF BytesAssumption, Text, Byte
  <2>2. wire' = wire \o bytes /\ UNCHANGED <<received, buf, taken, failed>>
    BY <1>4, Zenon DEF SendJunk
  <2>3. wire' \in Text
    BY <1>1, <2>1, <2>2, JoinIs, Zenon
  <2>4. QED
    BY <1>1, <2>2, <2>3, Zenon DEF Cut, SplitIndependent
<1>5. ASSUME NEW n \in 1 .. READ_CHUNK, Read(n)
      PROVE  Cut'
  <2> DEFINE got == SubSeq(wire, 1, n)
             p == conn_process_input(received)
             q == conn_process_input(buf \o got)
             w == conn_process_input(received \o got)
  <2>1. READ_CHUNK \in Nat /\ n <= Len(wire) /\ Len(wire) \in Nat
    <3>1. READ_CHUNK \in Nat /\ n <= Len(wire)
      BY <1>5, Zenon DEF LimitsAssumption, Read
    <3>2. Len(wire) \in Nat
      BY <1>1 DEF Text
    <3>3. QED
      BY <3>1, <3>2
  <2>2. /\ n \in 0 .. Len(wire) /\ 1 \in Nat \ {0}
        /\ n + 1 \in Nat \ {0} /\ Len(wire) \in 0 .. Len(wire)
    BY <2>1
  <2>3. got \in Text /\ SubSeq(wire, n + 1, Len(wire)) \in Text
    BY <1>1, <2>2, SubIs, ZenonT(40)
  <2>4. /\ received' = received \o got /\ wire' = SubSeq(wire, n + 1, Len(wire))
        /\ buf' = q.rest /\ taken' = taken \o q.cmds /\ failed' = q.failed
    BY <1>5, Zenon DEF Read, conn_in_append
  <2>5. taken = p.cmds /\ buf = p.rest
    BY <1>1, Zenon DEF SplitIndependent
  <2>6. q = conn_process_input(p.rest \o got)
    BY <2>5, Zenon
  <2> HIDE DEF got
  <2>7. received \o got \in Text
    BY <1>1, <2>3, JoinIs, Zenon
  <2>8. w.cmds = p.cmds \o q.cmds /\ w.rest = q.rest /\ w.failed = q.failed
    <3>1. ComesToTheSame(received, got)
      BY <1>1, <2>3, CutAnywhere, Zenon
    <3>2. QED
      BY <2>6, <3>1, ZenonT(40) DEF ComesToTheSame
  <2>9. w = conn_process_input(received')
    BY <2>4, Zenon
  <2> HIDE DEF p, q, w
  <2>10. taken' = w.cmds /\ buf' = w.rest /\ failed' = w.failed
    BY <2>4, <2>5, <2>8, Zenon
  <2>11. SplitIndependent'
    BY <2>9, <2>10, Zenon DEF SplitIndependent
  <2>12. QED
    BY <2>3, <2>4, <2>7, <2>11, Zenon DEF Cut
<1>6. QED
  BY <1>2, <1>3, <1>4, <1>5, ZenonT(40) DEF Next

-----------------------------------------------------------------------------
(* Where the requests sent lie in the bytes of the connection, read or not *)
(* yet: request i fills the bytes after pos[i - 1] up to pos[i], and       *)
(* before junk is sent nothing follows the last one.                       *)
Laid(pos, all, reqs, more) ==
  /\ pos \in [0 .. Len(reqs) -> Nat] /\ pos[0] = 0
  /\ \A i \in 1 .. Len(reqs) :
       /\ pos[i] = pos[i - 1] + Len(reqs[i].bytes) /\ pos[i] <= Len(all)
       /\ \A k \in 1 .. Len(reqs[i].bytes) : all[pos[i - 1] + k] = reqs[i].bytes[k]
  /\ ~more => Len(all) = pos[Len(reqs)]

Sent ==
  /\ sent \in Seq(Requests) /\ junk \in BOOLEAN
  /\ \E pos : Laid(pos, received \o wire, sent, junk)

LEMMA SentInit ==
  ASSUME Init
  PROVE  Sent
<1> DEFINE pos == [i \in 0 .. 0 |-> 0]
           all == <<>> \o <<>>
<1>1. sent = <<>> /\ junk = FALSE /\ received = <<>> /\ wire = <<>>
  BY Zenon DEF Init
<1>2. sent \in Seq(Requests) /\ junk \in BOOLEAN /\ Len(sent) = 0
  <2>1. <<>> \in Seq(Requests) /\ Len(<<>>) = 0
    OBVIOUS
  <2>2. QED
    BY <1>1, <2>1, Zenon
<1>3. Len(all) = 0
  OBVIOUS
<1>4. pos \in [0 .. 0 -> Nat] /\ pos[0] = 0
  OBVIOUS
<1>5. 1 .. 0 = {}
  OBVIOUS
<1> HIDE DEF pos, all
<1>6. Laid(pos, all, sent, junk)
  BY <1>2, <1>3, <1>4, <1>5, Zenon DEF Laid
<1>7. QED
  BY <1>1, <1>2, <1>6, Zenon DEF Sent, all

LEMMA LaidPlaces ==
  ASSUME NEW total \in Nat, NEW more \in Nat, NEW len \in Nat, NEW at \in Nat,
         at + len <= total
  PROVE  at + len <= total + more /\ \A k \in 1 .. len : at + k \in 1 .. total
OBVIOUS

(* A request's bytes after all those sent before.                          *)
LEMMA LaidNext ==
  ASSUME BytesAssumption, NEW all \in Text, NEW pos, NEW reqs \in Seq(Requests),
         Laid(pos, all, reqs, FALSE), NEW r \in Requests
  PROVE  \E q : Laid(q, all \o r.bytes, Append(reqs, r), FALSE)
<1>1. r.bytes \in Text
  BY Zenon DEF BytesAssumption, Text, Byte
<1> DEFINE n == Len(reqs)
           more == Append(reqs, r)
           y == r.bytes
           c == all \o y
           q == [i \in 0 .. n + 1 |-> IF i <= n THEN pos[i] ELSE Len(all) + Len(y)]
<1>2. n \in Nat /\ Len(more) = n + 1 /\ more[n + 1] = r /\ \A i \in 1 .. n : more[i] = reqs[i]
  OBVIOUS
<1>3. Len(all) \in Nat /\ Len(y) \in Nat
  BY <1>1 DEF Text
<1>4. /\ pos \in [0 .. n -> Nat] /\ pos[0] = 0 /\ Len(all) = pos[n]
      /\ \A i \in 1 .. n : /\ pos[i] = pos[i - 1] + Len(reqs[i].bytes) /\ pos[i] <= Len(all)
                           /\ \A k \in 1 .. Len(reqs[i].bytes) : all[pos[i - 1] + k] = reqs[i].bytes[k]
  BY Zenon DEF Laid
<1>5. /\ c \in Text /\ Len(c) = Len(all) + Len(y) /\ \A i \in 1 .. Len(all) : c[i] = all[i]
      /\ \A i \in 1 .. Len(y) : c[Len(all) + i] = y[i]
  BY <1>1, JoinIs, ZenonT(40)
<1> HIDE DEF n, y, c, more
<1>6. q \in [0 .. n + 1 -> Nat] /\ q[0] = 0 /\ q[n + 1] = Len(all) + Len(y)
      /\ \A i \in 0 .. n : q[i] = pos[i]
  BY <1>2, <1>3, <1>4
<1> HIDE DEF q
<1>7. ASSUME NEW i \in 1 .. n + 1
      PROVE  /\ q[i] = q[i - 1] + Len(more[i].bytes) /\ q[i] <= Len(c)
             /\ \A k \in 1 .. Len(more[i].bytes) : c[q[i - 1] + k] = more[i].bytes[k]
  <2>1. CASE i \in 1 .. n
    <3> DEFINE z == reqs[i].bytes
    <3>1. more[i].bytes = z /\ q[i] = pos[i] /\ q[i - 1] = pos[i - 1]
      <4>1. i \in 0 .. n /\ i - 1 \in 0 .. n
        BY <1>2, <2>1
      <4>2. QED
        BY <1>2, <1>6, <2>1, <4>1, ZenonT(40)
    <3>2. /\ pos[i] = pos[i - 1] + Len(z) /\ pos[i] <= Len(all)
          /\ \A k \in 1 .. Len(z) : all[pos[i - 1] + k] = z[k]
      BY <1>4, <2>1, Zenon
    <3>3. z \in Text
      <4>1. reqs[i] \in Requests
        BY <2>1 DEF n
      <4>2. QED
        BY <4>1, ZenonT(40) DEF BytesAssumption, Text, Byte
    <3>4. Len(z) \in Nat /\ pos[i - 1] \in Nat /\ pos[i] \in Nat
      <4>1. i \in 0 .. n /\ i - 1 \in 0 .. n
        BY <1>2, <2>1
      <4>2. pos[i - 1] \in Nat /\ pos[i] \in Nat
        BY <1>4, <4>1, Zenon
      <4> HIDE DEF z
      <4>3. QED
        BY <3>3, <4>2 DEF Text
    <3> HIDE DEF z
    <3>5. pos[i] <= Len(c) /\ \A k \in 1 .. Len(z) : pos[i - 1] + k \in 1 .. Len(all)
      <4>1. pos[i - 1] + Len(z) <= Len(all)
        BY <3>2, Zenon
      <4>2. /\ pos[i - 1] + Len(z) <= Len(all) + Len(y)
            /\ \A k \in 1 .. Len(z) : pos[i - 1] + k \in 1 .. Len(all)
        BY <1>3, <3>4, <4>1, LaidPlaces, ZenonT(40)
      <4>3. QED
        BY <1>5, <3>2, <4>2, ZenonT(40)
    <3>6. \A k \in 1 .. Len(z) : c[pos[i - 1] + k] = z[k]
      BY <1>5, <3>2, <3>5, Zenon
    <3>7. QED
      BY <3>1, <3>2, <3>5, <3>6, ZenonT(40)
  <2>2. CASE i = n + 1
    <3>1. i - 1 = n /\ n \in 0 .. n
      BY <1>2, <2>2
    <3>2. more[i].bytes = y /\ q[i - 1] = Len(all) /\ q[i] = Len(all) + Len(y)
      BY <1>2, <1>4, <1>6, <2>2, <3>1, ZenonT(40) DEF y
    <3>3. Len(all) + Len(y) <= Len(c)
      BY <1>3, <1>5
    <3>4. QED
      BY <1>5, <3>2, <3>3, ZenonT(40)
  <2>3. i \in 1 .. n \/ i = n + 1
    BY <1>2
  <2>4. QED
    BY <2>1, <2>2, <2>3, Zenon
<1>8. Laid(q, c, more, FALSE)
  <2>1. n + 1 = Len(more) /\ Len(c) = q[n + 1]
    BY <1>2, <1>5, <1>6, Zenon
  <2>2. QED
    BY <1>6, <1>7, <2>1, ZenonT(40) DEF Laid
<1>9. QED
  BY <1>8, Zenon DEF c, y, more

(* Bytes without a meaning after them.                                     *)
LEMMA LaidJunk ==
  ASSUME BytesAssumption, NEW all \in Text, NEW pos, NEW reqs \in Seq(Requests), NEW more,
         Laid(pos, all, reqs, more), NEW y \in Text
  PROVE  Laid(pos, all \o y, reqs, TRUE)
<1> DEFINE n == Len(reqs)
           c == all \o y
<1>1. Len(all) \in Nat /\ Len(y) \in Nat
  BY DEF Text
<1>2. /\ pos \in [0 .. n -> Nat] /\ pos[0] = 0
      /\ \A i \in 1 .. n : /\ pos[i] = pos[i - 1] + Len(reqs[i].bytes) /\ pos[i] <= Len(all)
                           /\ \A k \in 1 .. Len(reqs[i].bytes) : all[pos[i - 1] + k] = reqs[i].bytes[k]
  BY Zenon DEF Laid
<1>3. c \in Text /\ Len(c) = Len(all) + Len(y) /\ \A i \in 1 .. Len(all) : c[i] = all[i]
  BY JoinIs, ZenonT(40)
<1>4. n \in Nat /\ \A i \in 1 .. n : reqs[i] \in Requests
  OBVIOUS
<1> HIDE DEF n, c
<1>5. ASSUME NEW i \in 1 .. n
      PROVE  /\ pos[i] <= Len(c)
             /\ \A k \in 1 .. Len(reqs[i].bytes) : c[pos[i - 1] + k] = reqs[i].bytes[k]
  <2> DEFINE z == reqs[i].bytes
  <2>1. /\ pos[i] = pos[i - 1] + Len(z) /\ pos[i] <= Len(all)
        /\ \A k \in 1 .. Len(z) : all[pos[i - 1] + k] = z[k]
    BY <1>2, Zenon
  <2>2. z \in Text
    BY <1>4, ZenonT(40) DEF BytesAssumption, Text, Byte
  <2>3. Len(z) \in Nat /\ pos[i - 1] \in Nat
    <3>1. i - 1 \in 0 .. n
      BY <1>4
    <3>2. pos[i - 1] \in Nat
      BY <1>2, <3>1, Zenon
    <3> HIDE DEF z
    <3>3. QED
      BY <2>2, <3>2 DEF Text
  <2> HIDE DEF z
  <2>4. pos[i - 1] + Len(z) <= Len(all)
    BY <2>1, Zenon
  <2>5. /\ pos[i - 1] + Len(z) <= Len(all) + Len(y)
        /\ \A k \in 1 .. Len(z) : pos[i - 1] + k \in 1 .. Len(all)
    BY <1>1, <2>3, <2>4, LaidPlaces, ZenonT(40)
  <2>6. pos[i] <= Len(c) /\ \A k \in 1 .. Len(z) : c[pos[i - 1] + k] = z[k]
    BY <1>3, <2>1, <2>5, ZenonT(40)
  <2>7. QED
    BY <2>6, Zenon DEF z
<1>6. Laid(pos, c, reqs, TRUE)
  BY <1>2, <1>5, ZenonT(40) DEF Laid, n
<1>7. QED
  BY <1>6, Zenon DEF c

LEMMA SentStep ==
  ASSUME LimitsAssumption, BytesAssumption, Cut, Sent, [Next]_vars
  PROVE  Sent'
<1>1. wire \in Text /\ received \in Text /\ sent \in Seq(Requests) /\ junk \in BOOLEAN
  BY Zenon DEF Cut, Sent
<1> DEFINE all == received \o wire
<1>2. PICK pos : Laid(pos, all, sent, junk)
  BY Zenon DEF Sent
<1>3. all \in Text
  BY <1>1, JoinIs, Zenon
<1>4. CASE UNCHANGED vars
  BY <1>1, <1>2, <1>4, Zenon DEF vars, Sent
<1>5. ASSUME NEW r \in Requests, Send(r)
      PROVE  Sent'
  <2>1. ~junk /\ sent' = Append(sent, r) /\ wire' = wire \o r.bytes /\ junk' = junk
        /\ received' = received
    BY <1>5, Zenon DEF Send
  <2>2. r.bytes \in Text
    BY Zenon DEF BytesAssumption, Text, Byte
  <2>3. junk = FALSE
    BY <1>1, <2>1
  <2>4. \E q : Laid(q, all \o r.bytes, Append(sent, r), FALSE)
    <3> HIDE DEF all
    <3>1. Laid(pos, all, sent, FALSE)
      BY <1>2, <2>3, Zenon
    <3>2. QED
      BY <1>1, <1>3, <3>1, LaidNext, Zenon
  <2>5. all \o r.bytes = received' \o wire'
    <3>1. all \o r.bytes = received \o (wire \o r.bytes)
      BY <1>1, <2>2, JoinOfJoins, ZenonT(40)
    <3>2. QED
      BY <2>1, <3>1, Zenon
  <2>6. sent' \in Seq(Requests)
    BY <1>1, <2>1
  <2>7. \E q : Laid(q, received' \o wire', sent', junk')
    BY <2>1, <2>3, <2>4, <2>5, Zenon
  <2>8. QED
    BY <1>1, <2>1, <2>6, <2>7, Zenon DEF Sent, Laid
<1>6. ASSUME NEW bytes \in Junk, SendJunk(bytes)
      PROVE  Sent'
  <2>1. sent' = sent /\ wire' = wire \o bytes /\ junk' = TRUE /\ received' = received
    BY <1>6, Zenon DEF SendJunk
  <2>2. bytes \in Text
    BY Zenon DEF BytesAssumption, Text, Byte
  <2>3. Laid(pos, all \o bytes, sent, TRUE)
    <3> HIDE DEF all
    <3>1. QED
      BY <1>1, <1>2, <1>3, <2>2, LaidJunk, ZenonT(40)
  <2>4. all \o bytes = received' \o wire'
    <3>1. all \o bytes = received \o (wire \o bytes)
      BY <1>1, <2>2, JoinOfJoins, ZenonT(40)
    <3>2. QED
      BY <2>1, <3>1, Zenon
  <2>5. Laid(pos, received' \o wire', sent', junk')
    BY <2>1, <2>3, <2>4, Zenon
  <2>6. TRUE \in BOOLEAN
    OBVIOUS
  <2>7. QED
    BY <1>1, <2>1, <2>5, <2>6, Zenon DEF Sent, Laid
<1>7. ASSUME NEW n \in 1 .. READ_CHUNK, Read(n)
      PROVE  Sent'
  <2> DEFINE got == SubSeq(wire, 1, n)
             left == SubSeq(wire, n + 1, Len(wire))
  <2>1. /\ received' = received \o got /\ wire' = left /\ sent' = sent /\ junk' = junk
        /\ n <= Len(wire)
    BY <1>7, Zenon DEF Read
  <2>2. n \in 0 .. Len(wire)
    <3>1. READ_CHUNK \in Nat
      BY Zenon DEF LimitsAssumption
    <3>2. Len(wire) \in Nat
      BY <1>1 DEF Text
    <3>3. QED
      BY <2>1, <3>1, <3>2
  <2>3. got \in Text /\ left \in Text /\ wire = got \o left
    BY <1>1, <2>2, TwoParts, ZenonT(40)
  <2> HIDE DEF got, left
  <2>4. (received \o got) \o left = received \o (got \o left)
    BY <1>1, <2>3, JoinOfJoins, ZenonT(40)
  <2>5. received' \o wire' = all
    BY <2>1, <2>3, <2>4, Zenon
  <2> HIDE DEF all
  <2>6. Laid(pos, received' \o wire', sent', junk')
    BY <1>2, <2>1, <2>5, Zenon
  <2>7. QED
    BY <1>1, <2>1, <2>6, Zenon DEF Sent, Laid
<1>8. QED
  BY <1>4, <1>5, <1>6, <1>7, ZenonT(40) DEF Next

(* Request r's bytes are those of s after the first m.                     *)
Here(s, m, r) ==
  m + Len(r.bytes) <= Len(s) /\ \A k \in 1 .. Len(r.bytes) : s[m + k] = r.bytes[k]

(* The loop has come to them.                                              *)
At(p, s, m) == p \in Loops /\ p.rest = SubSeq(s, m + 1, Len(s))

LEMMA RequestIs ==
  ASSUME LimitsAssumption, BytesAssumption, RequestsFit, NEW r \in Requests
  PROVE  /\ r.bytes \in Text /\ Len(r.bytes) \in Nat
         /\ resp_parse(r.bytes).status = "ok" /\ resp_parse(r.bytes).argv = r.argv
         /\ resp_parse(r.bytes).consumed = Len(r.bytes)
<1>1. r.bytes \in Text
  BY Zenon DEF BytesAssumption, Text, Byte
<1>2. Len(r.bytes) \in Nat
  BY <1>1 DEF Text
<1> DEFINE n == Len(r.bytes)
           q == resp_parse(r.bytes)
<1>3. q = Ok(r.argv, n)
  BY Zenon DEF RequestsFit
<1> HIDE DEF n, q
<1>4. q.status = "ok" /\ q.argv = r.argv /\ q.consumed = n
  BY <1>3 DEF Ok
<1>5. QED
  BY <1>1, <1>2, <1>4, Zenon DEF n, q

(* One round takes one request, whatever follows it.                       *)
TakesIt(p, s, m, r) ==
  /\ At(Round(p), s, m + Len(r.bytes)) /\ Round(p).more = p.more
  /\ Round(p).cmds = Append(p.cmds, r.argv)

LEMMA RequestTaken ==
  ASSUME RespFacts, LimitsAssumption, BytesAssumption, RequestsFit,
         NEW s \in Text, NEW m \in Nat, NEW r \in Requests, Here(s, m, r),
         NEW p, At(p, s, m)
  PROVE  TakesIt(p, s, m, r)
<1> DEFINE y == r.bytes
           t == SubSeq(s, m + 1, Len(s))
           q == resp_parse(y)
<1>1. /\ y \in Text /\ Len(y) \in Nat /\ q.status = "ok" /\ q.argv = r.argv
      /\ q.consumed = Len(y)
  BY RequestIs, ZenonT(40)
<1>2. m + Len(y) <= Len(s) /\ \A k \in 1 .. Len(y) : s[m + k] = y[k]
  BY Zenon DEF Here
<1>3. Len(s) \in Nat
  BY DEF Text
<1>4. p \in Loops /\ p.rest = t
  BY Zenon DEF At
<1> HIDE DEF y, q
<1>5. m \in 0 .. Len(s) /\ m + Len(y) \in m .. Len(s)
  BY <1>1, <1>2, <1>3
<1>6. t \in Text /\ Len(t) = Len(s) - m /\ \A i \in 1 .. Len(t) : t[i] = s[m + i]
  BY <1>5, TailIs, ZenonT(40)
<1> DEFINE x == SubSeq(t, Len(y) + 1, Len(t))
<1>7. x = SubSeq(s, m + Len(y) + 1, Len(s))
  BY <1>1, <1>2, <1>5, TailOfTail, ZenonT(40)
<1> HIDE DEF t
<1>8. t = y \o x /\ x \in Text
  <2>1. Len(y) <= Len(t)
    BY <1>1, <1>2, <1>3, <1>6, SMTT(30)
  <2>2. \A k \in 1 .. Len(y) : k \in 1 .. Len(t)
    BY <1>1, <1>6, <2>1, <1>3
  <2>3. \A k \in 1 .. Len(y) : t[k] = y[k]
    BY <1>2, <1>6, <2>2, Zenon
  <2>4. QED
    BY <1>1, <1>6, <2>1, <2>3, FrontOf, ZenonT(40)
<1>9. resp_parse(t) = q
  <2>1. resp_parse(y).status = "ok"
    BY <1>1, Zenon DEF q
  <2>2. \A z \in Text : resp_parse(y \o z) = resp_parse(y)
    BY <1>1, <2>1, ParseIs, ZenonT(40)
  <2>3. resp_parse(y \o x) = resp_parse(y)
    BY <1>8, <2>2, Zenon
  <2>4. QED
    BY <1>8, <2>3, Zenon DEF q
<1> HIDE DEF x
<1>10. q = resp_parse(p.rest)
  BY <1>4, <1>9, Zenon
<1>11. /\ Round(p).cmds = Append(p.cmds, q.argv)
       /\ Round(p).rest = SubSeq(p.rest, q.consumed + 1, Len(p.rest))
       /\ Round(p).failed = p.failed /\ Round(p).more = p.more
  BY <1>1, <1>4, <1>10, RoundOk, ZenonT(40)
<1>12. Round(p) \in Loops
  BY <1>4, RoundIs, Zenon
<1>13. Round(p).rest = x
  BY <1>1, <1>4, <1>11, Zenon DEF x
<1>14. QED
  BY <1>1, <1>7, <1>11, <1>12, <1>13, ZenonT(40) DEF At, TakesIt, y

(* A request of which bytes are missing stays in the buffer.               *)
LEMMA RequestWaits ==
  ASSUME RespFacts, LimitsAssumption, BytesAssumption, RequestsFit,
         NEW r \in Requests, ShortLines(r.bytes), NEW t \in Text, Len(t) < Len(r.bytes),
         \A k \in 1 .. Len(t) : t[k] = r.bytes[k]
  PROVE  resp_parse(t) = Incomplete
<1> DEFINE y == r.bytes
           n == Len(t)
<1>1. /\ y \in Text /\ Len(y) \in Nat /\ resp_parse(y).status = "ok"
      /\ resp_parse(y).consumed = Len(y)
  BY RequestIs, ZenonT(40)
<1>2. n \in Nat
  BY DEF Text
<1>3. n < Len(y) /\ ShortLines(y) /\ \A k \in 1 .. Len(t) : t[k] = y[k]
  BY Zenon
<1> HIDE DEF y
<1>4. n <= Len(y) /\ n \in 0 .. Len(y) - 1
  BY <1>1, <1>2, <1>3
<1>5. t = SubSeq(y, 1, n)
  BY <1>1, <1>3, <1>4, PartOf, ZenonT(40)
<1> HIDE DEF n
<1>6. n \in 0 .. resp_parse(y).consumed - 1
  BY <1>1, <1>4, Zenon
<1>7. ShortLines(y) => resp_parse(SubSeq(y, 1, n)) = Incomplete
  BY <1>1, <1>6, PrefixesAre, Zenon
<1>8. QED
  BY <1>3, <1>5, <1>7, Zenon

LEMMA AppendIs ==
  ASSUME NEW s \in Seq(Argvs), NEW a \in Argvs
  PROVE  /\ Len(Append(s, a)) = Len(s) + 1 /\ Append(s, a)[Len(s) + 1] = a
         /\ \A k \in 1 .. Len(s) : Append(s, a)[k] = s[k]
OBVIOUS

LEMMA CmdsJoin ==
  ASSUME NEW s \in Seq(Argvs), NEW t \in Seq(Argvs)
  PROVE  /\ Len(s \o t) = Len(s) + Len(t) /\ Len(s) \in Nat /\ Len(t) \in Nat
         /\ \A k \in 1 .. Len(s) : (s \o t)[k] = s[k]
OBVIOUS

LEMMA TakenPlaces ==
  ASSUME NEW at \in Nat, NEW len \in Nat, NEW total \in Nat, at + len <= total
  PROVE  at <= total /\ \A k \in 1 .. len : at + k \in 1 .. total
OBVIOUS

(* After i rounds the first i requests are taken, those read in whole.     *)
TakenFirst(s, reqs, pos, i) ==
  /\ At(Rounds(s)[i], s, pos[i]) /\ Rounds(s)[i].more
  /\ Len(Rounds(s)[i].cmds) = i
  /\ \A k \in 1 .. i : Rounds(s)[i].cmds[k] = reqs[k].argv

LEMMA TakenUpTo ==
  ASSUME RespFacts, LimitsAssumption, BytesAssumption, RequestsFit,
         NEW s \in Text, NEW w \in Text, NEW reqs \in Seq(Requests), NEW pos, NEW more,
         Laid(pos, s \o w, reqs, more)
  PROVE  \A i \in 0 .. Len(reqs) : pos[i] <= Len(s) => TakenFirst(s, reqs, pos, i)
<1> DEFINE n == Len(reqs)
           all == s \o w
           u == Rounds(s)
           S == {i \in Nat : i <= n /\ pos[i] <= Len(s) => TakenFirst(s, reqs, pos, i)}
<1>1. /\ pos \in [0 .. n -> Nat] /\ pos[0] = 0
      /\ \A i \in 1 .. n : /\ pos[i] = pos[i - 1] + Len(reqs[i].bytes)
                           /\ \A k \in 1 .. Len(reqs[i].bytes) : all[pos[i - 1] + k] = reqs[i].bytes[k]
  BY ZenonT(40) DEF Laid
<1>2. \A i \in 1 .. Len(s) : all[i] = s[i]
  BY JoinIs, ZenonT(40)
<1>3. n \in Nat /\ \A i \in 1 .. n : reqs[i] \in Requests
  OBVIOUS
<1>4. Len(s) \in Nat
  BY DEF Text
<1>5. u[0] = Start(s) /\ \A i \in Nat : u[i + 1] = Step(u[i]) /\ u[i] \in Loops
  BY RoundsAre, ZenonT(40)
<1> HIDE DEF all, n, u
<1>6. 0 \in S
  <2>1. SubSeq(s, 0 + 1, Len(s)) = s
    BY DEF Text
  <2>2. Start(s).rest = s /\ Start(s).more /\ Start(s).cmds = <<>> /\ Len(<<>>) = 0
    BY DEF Start
  <2>3. 0 \in Nat /\ 1 .. 0 = {}
    OBVIOUS
  <2>4. At(u[0], s, pos[0])
    BY <1>1, <1>5, <2>1, <2>2, <2>3, ZenonT(40) DEF At
  <2>5. TakenFirst(s, reqs, pos, 0)
    BY <1>5, <2>2, <2>3, <2>4, ZenonT(40) DEF TakenFirst, u
  <2>6. QED
    BY <2>3, <2>5, Zenon
<1>7. ASSUME NEW i \in S
      PROVE  i + 1 \in S
  <2>1. i \in Nat /\ i + 1 \in Nat /\ (i + 1) - 1 = i
    OBVIOUS
  <2>2. ASSUME i + 1 <= n, pos[i + 1] <= Len(s)
        PROVE  TakenFirst(s, reqs, pos, i + 1)
    <3> DEFINE r == reqs[i + 1]
               p == u[i]
               m == pos[i]
    <3>1. i + 1 \in 1 .. n /\ i \in 0 .. n /\ i <= n
      BY <1>3, <2>1, <2>2
    <3>2. /\ r \in Requests /\ pos[i + 1] = m + Len(r.bytes) /\ m \in Nat
          /\ \A k \in 1 .. Len(r.bytes) : all[m + k] = r.bytes[k]
      <4>1. r \in Requests
        BY <1>3, <3>1, Zenon
      <4>2. m \in Nat
        BY <1>1, <3>1, Zenon
      <4> DEFINE j == i + 1
      <4>3. j \in 1 .. n /\ j - 1 = i
        BY <2>1, <3>1, Zenon
      <4> HIDE DEF j
      <4>4. /\ pos[j] = pos[j - 1] + Len(reqs[j].bytes)
            /\ \A k \in 1 .. Len(reqs[j].bytes) : all[pos[j - 1] + k] = reqs[j].bytes[k]
        BY <1>1, <4>3, Zenon
      <4>5. /\ pos[j] = pos[i] + Len(reqs[j].bytes)
            /\ \A k \in 1 .. Len(reqs[j].bytes) : all[pos[i] + k] = reqs[j].bytes[k]
        BY <4>3, <4>4, Zenon
      <4>6. QED
        BY <4>1, <4>2, <4>5, Zenon DEF j
    <3> HIDE DEF r, m
    <3>3. r.bytes \in Text /\ Len(r.bytes) \in Nat
      BY <3>2, RequestIs, ZenonT(40)
    <3>4. m + Len(r.bytes) <= Len(s)
      BY <2>2, <3>2, Zenon
    <3>5. m <= Len(s) /\ \A k \in 1 .. Len(r.bytes) : m + k \in 1 .. Len(s)
      BY <1>4, <3>2, <3>3, <3>4, TakenPlaces, ZenonT(40)
    <3>6. Here(s, m, r)
      BY <1>2, <3>2, <3>4, <3>5, ZenonT(40) DEF Here
    <3>7. TakenFirst(s, reqs, pos, i)
      BY <3>1, <3>5, Zenon DEF m
    <3>8. /\ At(p, s, m) /\ p.more /\ Len(p.cmds) = i
          /\ \A k \in 1 .. i : p.cmds[k] = reqs[k].argv
      BY <3>7, Zenon DEF TakenFirst, u, m
    <3>9. u[i + 1] = Round(p)
      BY <1>5, <2>1, <3>8, Zenon DEF Step
    <3>10. p \in Loops
      BY <3>8, Zenon DEF At
    <3> HIDE DEF p
    <3>11. /\ At(Round(p), s, m + Len(r.bytes)) /\ Round(p).more = p.more
           /\ Round(p).cmds = Append(p.cmds, r.argv)
      <4>1. At(p, s, m)
        BY <3>8, Zenon
      <4>2. r \in Requests /\ m \in Nat
        BY <3>2, Zenon
      <4>3. TakesIt(p, s, m, r)
        BY <3>6, <4>1, <4>2, RequestTaken, ZenonT(40)
      <4>4. QED
        BY <4>3, Zenon DEF TakesIt
    <3>12. p.cmds \in Seq(Argvs) /\ r.argv \in Argvs
      <4>1. p.cmds \in Seq(Seq(Text))
        BY <3>10, Zenon DEF Loops
      <4>2. r.argv = resp_parse(r.bytes).argv /\ resp_parse(r.bytes) \in Parses(r.bytes)
        <5>1. r.argv = resp_parse(r.bytes).argv
          BY <3>2, RequestIs, Zenon
        <5>2. resp_parse(r.bytes) \in Parses(r.bytes)
          BY <3>3, ParseIs, Zenon
        <5>3. QED
          BY <5>1, <5>2, Zenon
      <4> DEFINE q == resp_parse(r.bytes)
      <4>3. q.argv \in Seq(Text)
        <5>1. q \in Parses(r.bytes)
          BY <4>2, Zenon
        <5> HIDE DEF q
        <5>2. QED
          BY <5>1, Zenon DEF Parses
      <4>4. QED
        BY <4>1, <4>2, <4>3, Zenon DEF Argvs
    <3> DEFINE d == Append(p.cmds, r.argv)
    <3>13. /\ Len(d) = Len(p.cmds) + 1 /\ d[Len(p.cmds) + 1] = r.argv
           /\ \A k \in 1 .. Len(p.cmds) : d[k] = p.cmds[k]
      BY <3>12, AppendIs, ZenonT(40)
    <3> HIDE DEF d
    <3>14. /\ Len(d) = i + 1 /\ d[i + 1] = r.argv
           /\ \A k \in 1 .. i : d[k] = reqs[k].argv
      BY <3>8, <3>13, ZenonT(40)
    <3>15. \A k \in 1 .. i + 1 : k \in 1 .. i \/ k = i + 1
      BY <2>1
    <3>16. \A k \in 1 .. i + 1 : d[k] = reqs[k].argv
      BY <3>14, <3>15, Zenon DEF r
    <3>17. Round(p).cmds = d
      BY <3>11, Zenon DEF d
    <3>18. QED
      <4>1. /\ At(u[i + 1], s, pos[i + 1]) /\ u[i + 1].more /\ Len(u[i + 1].cmds) = i + 1
            /\ \A k \in 1 .. i + 1 : u[i + 1].cmds[k] = reqs[k].argv
        BY <3>2, <3>8, <3>9, <3>11, <3>14, <3>16, <3>17, ZenonT(40)
      <4>2. QED
        BY <4>1, Zenon DEF TakenFirst, u
  <2>3. QED
    BY <2>1, <2>2, Zenon
<1>8. S = Nat
  <2>1. S \in SUBSET Nat
    OBVIOUS
  <2>2. Least
    BY Zenon DEF RespFacts
  <2> HIDE DEF S
  <2>3. QED
    BY <1>6, <1>7, <2>1, <2>2, Induct, ZenonT(40)
<1>9. \A i \in 0 .. n : i \in Nat /\ i <= n
  BY <1>3
<1>10. QED
  BY <1>8, <1>9, Zenon DEF n

(* Where the loop ends for want of bytes, and that it never takes back.    *)
LEMMA EndsAt ==
  ASSUME RespFacts, LimitsAssumption, NEW b \in Text, NEW m \in Nat, Rounds(b)[m].more,
         resp_parse(Rounds(b)[m].rest) = Incomplete
  PROVE  /\ conn_process_input(b).cmds = Rounds(b)[m].cmds
         /\ conn_process_input(b).rest = Rounds(b)[m].rest
         /\ conn_process_input(b).failed = FALSE
<1> DEFINE u == Rounds(b)
           p == u[m]
           r == resp_parse(p.rest)
<1>1. (\A i \in Nat : u[i + 1] = Step(u[i]) /\ u[i] \in Loops) /\ m + 1 \in Nat
  <2>1. m + 1 \in Nat
    OBVIOUS
  <2>2. QED
    BY <2>1, RoundsAre, Zenon
<1>2. p.more /\ p \in Loops /\ r = Incomplete
  BY <1>1, Zenon
<1>3. u[m + 1] = Round(p)
  BY <1>1, <1>2, Zenon DEF Step
<1> HIDE DEF p
<1>4. r.status # "ok" /\ r.status # "error"
  <2> HIDE DEF r
  <2>1. QED
    BY <1>2 DEF Incomplete
<1>5. /\ Round(p).cmds = p.cmds /\ Round(p).rest = p.rest
      /\ Round(p).failed = (r.status = "error") /\ Round(p).more = FALSE
  BY <1>2, <1>4, RoundEnds, ZenonT(40)
<1>6. conn_process_input(b) = u[m + 1]
  <2>1. ~u[m + 1].more
    BY <1>3, <1>5, Zenon
  <2>2. QED
    BY <1>1, <2>1, Result, Zenon
<1> HIDE DEF r
<1>7. /\ conn_process_input(b).cmds = p.cmds /\ conn_process_input(b).rest = p.rest
      /\ conn_process_input(b).failed = FALSE
  BY <1>3, <1>4, <1>5, <1>6, Zenon
<1>8. QED
  BY <1>7, Zenon DEF p

LEMMA ResultExtends ==
  ASSUME RespFacts, LimitsAssumption, NEW b \in Text, NEW m \in Nat, Rounds(b)[m].more
  PROVE  \E d \in Seq(Argvs) :
           /\ conn_process_input(b).cmds = Rounds(b)[m].cmds \o d
           /\ Rounds(b)[m].cmds \in Seq(Argvs)
<1> DEFINE t == Rounds(b)[m].rest
           n == Len(t) + 1
           h == Rounds(t)
<1>1. Rounds(b)[m] \in Loops
  BY RoundsAre, Zenon
<1>2. t \in Text /\ Rounds(b)[m].cmds \in Seq(Argvs)
  BY <1>1, Zenon DEF Loops, Argvs
<1>3. t = Rounds(b)[m].rest
  BY Zenon
<1> HIDE DEF t
<1>4. n \in Nat
  BY <1>2 DEF Text
<1>5. ~h[n].more
  BY <1>2, RoundsEnd, Zenon
<1>6. h[n] \in Loops
  BY <1>2, <1>4, RoundsAre, ZenonT(40)
<1> HIDE DEF n
<1>7. h[n].cmds \in Seq(Argvs)
  <2> HIDE DEF h
  <2>1. QED
    BY <1>6, Zenon DEF Loops, Argvs
<1>8. ContinuesAs(b, m, t)
  BY <1>2, <1>3, RoundsAfter, ZenonT(40)
<1>9. Rounds(b)[m + n].cmds = Rounds(b)[m].cmds \o h[n].cmds /\ ~Rounds(b)[m + n].more
  BY <1>4, <1>5, <1>8, ZenonT(40) DEF ContinuesAs
<1>10. m + n \in Nat
  BY <1>4
<1>11. conn_process_input(b) = Rounds(b)[m + n]
  BY <1>9, <1>10, Result, Zenon
<1> HIDE DEF h
<1>12. QED
  BY <1>2, <1>7, <1>9, <1>11, ZenonT(40)

(* The first request of which bytes are missing.                           *)
LEMMA FirstBeyond ==
  ASSUME Least, NEW n \in Nat, NEW pos \in [0 .. n -> Nat], pos[0] = 0, NEW total \in Nat,
         ~(pos[n] <= total)
  PROVE  \E j \in 0 .. n - 1 : pos[j] <= total /\ ~(pos[j + 1] <= total)
<1> DEFINE S == {i \in 0 .. n : ~(pos[i] <= total)}
<1>1. n \in S /\ S \in SUBSET Nat
  OBVIOUS
<1>2. PICK m \in S : \A y \in S : m <= y
  <2> HIDE DEF S
  <2>1. QED
    BY <1>1, Zenon DEF Least
<1>3. m \in 0 .. n /\ ~(pos[m] <= total)
  BY <1>2, Zenon
<1>4. m # 0
  BY <1>3
<1>5. m - 1 \in 0 .. n - 1 /\ m - 1 \in 0 .. n /\ (m - 1) + 1 = m /\ ~(m <= m - 1)
  BY <1>3, <1>4
<1>6. m - 1 \notin S
  BY <1>2, <1>5, Zenon
<1>7. pos[m - 1] <= total
  BY <1>5, <1>6, Zenon
<1>8. QED
  BY <1>3, <1>5, <1>7, Zenon

LEMMA NoMore ==
  ASSUME NEW a \in Nat, NEW d \in Nat, a + d <= a
  PROVE  a + d = a
OBVIOUS

(* What the loop makes of bytes that requests were laid in.                *)
LEMMA WholeTaken ==
  ASSUME RespFacts, LimitsAssumption, BytesAssumption, RequestsFit,
         NEW s \in Text, NEW w \in Text, NEW reqs \in Seq(Requests), NEW pos, NEW more,
         Laid(pos, s \o w, reqs, more), pos[Len(reqs)] <= Len(s)
  PROVE  LET c == conn_process_input(s)
         IN  /\ c.cmds \in Seq(Argvs) /\ Len(c.cmds) >= Len(reqs)
             /\ \A k \in 1 .. Len(reqs) : c.cmds[k] = reqs[k].argv
             /\ ~more => Len(c.cmds) = Len(reqs) /\ c.failed = FALSE
<1> DEFINE n == Len(reqs)
           c == conn_process_input(s)
           p == Rounds(s)[n]
<1>1. n \in Nat /\ n \in 0 .. Len(reqs)
  OBVIOUS
<1>2. TakenFirst(s, reqs, pos, n)
  BY <1>1, TakenUpTo, Zenon
<1>3. /\ At(p, s, pos[n]) /\ p.more /\ Len(p.cmds) = n
      /\ \A k \in 1 .. n : p.cmds[k] = reqs[k].argv
  BY <1>2, Zenon DEF TakenFirst
<1>4. PICK d \in Seq(Argvs) : c.cmds = p.cmds \o d /\ p.cmds \in Seq(Argvs)
  BY <1>1, <1>3, ResultExtends, ZenonT(40)
<1> HIDE DEF c, p, n
<1>5. /\ Len(p.cmds \o d) = n + Len(d) /\ Len(d) \in Nat
      /\ \A k \in 1 .. n : (p.cmds \o d)[k] = p.cmds[k]
  BY <1>3, <1>4, CmdsJoin, ZenonT(40)
<1>6. c.cmds \in Seq(Argvs)
  <2> DEFINE e == p.cmds
  <2>1. e \in Seq(Argvs)
    BY <1>4, Zenon
  <2> HIDE DEF e
  <2>2. e \o d \in Seq(Argvs)
    BY <2>1
  <2>3. QED
    BY <1>4, <2>2, Zenon DEF e
<1>7. Len(c.cmds) >= n
  <2>1. Len(c.cmds) = n + Len(d)
    BY <1>4, <1>5, Zenon
  <2>2. QED
    BY <1>1, <1>5, <2>1
<1>8. \A k \in 1 .. n : c.cmds[k] = reqs[k].argv
  BY <1>3, <1>4, <1>5, ZenonT(40)
<1>9. ASSUME ~more
      PROVE  Len(c.cmds) = n /\ c.failed = FALSE
  <2>1. Len(s \o w) = pos[n] /\ pos[n] <= Len(s)
    BY <1>9, Zenon DEF Laid, n
  <2>2. Len(s \o w) = Len(s) + Len(w)
    BY JoinIs, Zenon
  <2>3. Len(s) \in Nat /\ Len(w) \in Nat
    BY DEF Text
  <2>4. pos[n] = Len(s)
    BY <2>1, <2>2, <2>3, NoMore, ZenonT(40)
  <2>5. SubSeq(s, Len(s) + 1, Len(s)) = <<>>
    BY DEF Text
  <2>6. p.rest = <<>>
    BY <1>3, <2>4, <2>5, Zenon DEF At
  <2>7. resp_parse(p.rest) = Incomplete
    BY <2>6, ZenonT(40) DEF resp_parse
  <2>8. c.cmds = p.cmds /\ c.failed = FALSE
    BY <1>1, <1>3, <2>7, EndsAt, ZenonT(40) DEF c, p
  <2>9. QED
    BY <1>3, <2>8, Zenon
<1>10. QED
  BY <1>6, <1>7, <1>8, <1>9, ZenonT(40) DEF c, n

LEMMA PartTaken ==
  ASSUME RespFacts, LimitsAssumption, BytesAssumption, RequestsFit,
         NEW s \in Text, NEW w \in Text, NEW reqs \in Seq(Requests), NEW pos, NEW more,
         Laid(pos, s \o w, reqs, more), NEW j \in 0 .. Len(reqs) - 1,
         pos[j] <= Len(s), ~(pos[j + 1] <= Len(s))
  PROVE  LET c == conn_process_input(s)
         IN  /\ c.cmds \in Seq(Argvs) /\ Len(c.cmds) = j /\ c.failed = FALSE
             /\ \A k \in 1 .. j : c.cmds[k] = reqs[k].argv
             /\ Len(c.rest) < Len(reqs[j + 1].bytes)
<1> DEFINE n == Len(reqs)
           c == conn_process_input(s)
           p == Rounds(s)[j]
           m == pos[j]
           r == reqs[j + 1]
           t == SubSeq(s, m + 1, Len(s))
           all == s \o w
<1>1. n \in Nat /\ j \in 0 .. n /\ j + 1 \in 1 .. n /\ j \in Nat /\ (j + 1) - 1 = j
  OBVIOUS
<1>2. TakenFirst(s, reqs, pos, j)
  BY <1>1, TakenUpTo, Zenon
<1>3. /\ At(p, s, m) /\ p.more /\ Len(p.cmds) = j
      /\ \A k \in 1 .. j : p.cmds[k] = reqs[k].argv
  BY <1>2, Zenon DEF TakenFirst
<1>4. r \in Requests
  BY <1>1
<1>5. /\ m \in Nat /\ pos[j + 1] = m + Len(r.bytes)
      /\ \A k \in 1 .. Len(r.bytes) : all[m + k] = r.bytes[k]
  <2> DEFINE i == j + 1
  <2>1. i \in 1 .. n /\ i - 1 = j
    BY <1>1, Zenon
  <2> HIDE DEF i
  <2>2. /\ pos[i] = pos[i - 1] + Len(reqs[i].bytes)
        /\ \A k \in 1 .. Len(reqs[i].bytes) : all[pos[i - 1] + k] = reqs[i].bytes[k]
    BY <2>1, Zenon DEF Laid
  <2>3. /\ pos[i] = pos[j] + Len(reqs[i].bytes)
        /\ \A k \in 1 .. Len(reqs[i].bytes) : all[pos[j] + k] = reqs[i].bytes[k]
    BY <2>1, <2>2, ZenonT(40)
  <2>4. m \in Nat
    BY <1>1, Zenon DEF Laid
  <2>5. QED
    BY <2>3, <2>4, Zenon DEF i
<1>6. p \in Loops /\ p.rest = t
  BY <1>3, Zenon DEF At
<1>7. \A i \in 1 .. Len(s) : all[i] = s[i]
  BY JoinIs, Zenon
<1>8. Len(s) \in Nat /\ m <= Len(s) /\ ~(m + Len(r.bytes) <= Len(s))
  <2>1. Len(s) \in Nat
    BY DEF Text
  <2>2. QED
    BY <1>5, <2>1, Zenon
<1> HIDE DEF c, p, n, m, r, all
<1>9. r.bytes \in Text /\ Len(r.bytes) \in Nat /\ ShortLines(r.bytes)
  BY <1>4, RequestIs, ZenonT(40) DEF RequestsFit
<1>10. m \in 0 .. Len(s)
  BY <1>5, <1>8
<1>11. t \in Text /\ Len(t) = Len(s) - m /\ \A i \in 1 .. Len(t) : t[i] = s[m + i]
  BY <1>10, TailIs, ZenonT(40)
<1> HIDE DEF t
<1>12. /\ Len(t) < Len(r.bytes)
       /\ \A k \in 1 .. Len(t) : m + k \in 1 .. Len(s) /\ k \in 1 .. Len(r.bytes)
  BY <1>5, <1>8, <1>9, <1>11, SMTT(30)
<1>13. \A k \in 1 .. Len(t) : t[k] = r.bytes[k]
  BY <1>5, <1>7, <1>11, <1>12, ZenonT(40)
<1>14. resp_parse(t) = Incomplete
  BY <1>4, <1>9, <1>11, <1>12, <1>13, RequestWaits, ZenonT(40)
<1>15. c.cmds = p.cmds /\ c.rest = p.rest /\ c.failed = FALSE
  <2>1. resp_parse(p.rest) = Incomplete
    BY <1>6, <1>14, Zenon
  <2>2. QED
    BY <1>1, <1>3, <2>1, EndsAt, ZenonT(40) DEF c, p
<1>16. p.cmds \in Seq(Argvs)
  BY <1>6, Zenon DEF Loops, Argvs
<1>17. QED
  BY <1>3, <1>6, <1>12, <1>15, <1>16, ZenonT(40) DEF c, r

LEMMA DeliveredNow ==
  ASSUME RespFacts, LimitsAssumption, BytesAssumption, RequestsFit,
         Cut, Sent
  PROVE  Delivered
<1> DEFINE n == Len(sent)
           c == conn_process_input(received)
<1>1. /\ wire \in Text /\ received \in Text /\ sent \in Seq(Requests) /\ junk \in BOOLEAN
      /\ taken = c.cmds /\ buf = c.rest /\ failed = c.failed
  BY Zenon DEF Cut, Sent, SplitIndependent
<1>2. PICK pos : Laid(pos, received \o wire, sent, junk)
  BY Zenon DEF Sent
<1>3. n \in Nat /\ DOMAIN sent = 1 .. n
  BY <1>1
<1>4. CASE pos[n] <= Len(received)
  <2>1. /\ c.cmds \in Seq(Argvs) /\ Len(c.cmds) >= n
        /\ \A k \in 1 .. n : c.cmds[k] = sent[k].argv
        /\ ~junk => Len(c.cmds) = n /\ c.failed = FALSE
    BY <1>1, <1>2, <1>4, WholeTaken, ZenonT(40)
  <2> HIDE DEF c, n
  <2>2. \A i \in DOMAIN taken \cap DOMAIN sent : taken[i] = sent[i].argv
    BY <1>1, <1>3, <2>1, Zenon
  <2>3. Len(taken) \in Nat /\ Len(taken) >= n
    <3>1. taken \in Seq(Argvs) /\ Len(taken) >= n
      BY <1>1, <2>1, Zenon
    <3>2. QED
      BY <3>1
  <2>4. ~(Len(taken) < n) /\ n <= n
    BY <1>3, <2>3
  <2>5. ~junk => Len(taken) <= n /\ ~failed
    BY <1>1, <2>1, <2>4, ZenonT(40)
  <2>6. QED
    BY <2>2, <2>4, <2>5, Zenon DEF Delivered, n
<1>5. CASE ~(pos[n] <= Len(received))
  <2>1. pos \in [0 .. n -> Nat] /\ pos[0] = 0
    BY <1>2, Zenon DEF Laid
  <2>2. Len(received) \in Nat
    BY <1>1 DEF Text
  <2>3. Least
    BY Zenon DEF RespFacts
  <2> DEFINE total == Len(received)
  <2>4. PICK j \in 0 .. n - 1 : pos[j] <= total /\ ~(pos[j + 1] <= total)
    <3>1. total \in Nat /\ ~(pos[n] <= total)
      BY <1>5, <2>2, Zenon
    <3> HIDE DEF n, total
    <3>2. QED
      BY <1>3, <2>1, <2>3, <3>1, FirstBeyond, ZenonT(40)
  <2>5. /\ c.cmds \in Seq(Argvs) /\ Len(c.cmds) = j /\ c.failed = FALSE
        /\ \A k \in 1 .. j : c.cmds[k] = sent[k].argv
        /\ Len(c.rest) < Len(sent[j + 1].bytes)
    BY <1>1, <1>2, <2>4, PartTaken, ZenonT(40)
  <2> HIDE DEF c, n, total
  <2>6. DOMAIN taken = 1 .. j
    <3>1. taken \in Seq(Argvs) /\ Len(taken) = j
      BY <1>1, <2>5, Zenon
    <3>2. QED
      BY <3>1
  <2>7. \A i \in DOMAIN taken \cap DOMAIN sent : taken[i] = sent[i].argv
    BY <1>1, <2>5, <2>6, ZenonT(40)
  <2>8. j <= n
    BY <1>3, <2>4
  <2>9. Len(taken) = j /\ ~failed /\ Len(buf) < Len(sent[j + 1].bytes)
    BY <1>1, <2>5, Zenon
  <2>10. QED
    BY <2>7, <2>8, <2>9, ZenonT(40) DEF Delivered, n
<1>6. QED
  BY <1>4, <1>5, Zenon

-----------------------------------------------------------------------------
(* All that conn_process_input makes of bytes is commands and bytes.       *)
LEMMA LoopIs ==
  ASSUME RespFacts, LimitsAssumption, NEW b \in Text
  PROVE  conn_process_input(b) \in Loops
<1>1. Len(b) + 1 \in Nat
  BY DEF Text
<1>2. QED
  BY <1>1, RoundsAre, Zenon DEF conn_process_input

LEMMA BufferIs ==
  ASSUME RespFacts, LimitsAssumption, Cut
  PROVE  buf \in Text
<1>1. received \in Text /\ buf = conn_process_input(received).rest
  BY Zenon DEF Cut, SplitIndependent
<1>2. conn_process_input(received) \in Loops
  BY <1>1, LoopIs, Zenon
<1>3. QED
  BY <1>1, <1>2, Zenon DEF Loops

LEMMA LinesNow ==
  ASSUME RespFacts, LimitsAssumption, Cut
  PROVE  OneLinePerCommand
<1> DEFINE c == conn_process_input(received)
           N == Len(taken)
           seqs == [i \in DOMAIN taken |-> UnknownCommand(taken[i])]
           text == Concat(seqs)
<1>1. received \in Text /\ taken = c.cmds
  BY Zenon DEF Cut, SplitIndependent
<1>2. c \in Loops
  BY <1>1, LoopIs, Zenon
<1> HIDE DEF c
<1>3. taken \in Seq(Argvs)
  BY <1>1, <1>2, Zenon DEF Loops, Argvs
<1>4. N \in Nat /\ DOMAIN taken = 1 .. N /\ \A i \in 1 .. N : taken[i] \in Argvs
  BY <1>3
<1>5. \A i \in 1 .. N : UnknownCommand(taken[i]) \in Text
  BY <1>4, ReplyEnds, Zenon
<1>6. seqs = [i \in 1 .. N |-> UnknownCommand(taken[i])]
  BY <1>4, Zenon
<1> HIDE DEF seqs
<1>7. /\ seqs \in Seq(Text) /\ Len(seqs) = N
      /\ \A i \in 1 .. N : seqs[i] = UnknownCommand(taken[i])
  <2> DEFINE u(i) == UnknownCommand(taken[i])
  <2>1. \A i \in 1 .. N : u(i) \in Text
    BY <1>5, Zenon
  <2> HIDE DEF u, N
  <2>2. [i \in 1 .. N |-> u(i)] \in Seq(Text) /\ Len([i \in 1 .. N |-> u(i)]) = N
    BY <1>4, <2>1
  <2>3. seqs = [i \in 1 .. N |-> u(i)]
    BY <1>6, Zenon DEF u
  <2>4. \A i \in 1 .. N : seqs[i] = u(i)
    BY <2>3, Zenon
  <2>5. QED
    BY <2>2, <2>3, <2>4, ZenonT(40) DEF u
<1>8. Cardinality(Ends(text)) = 2 * Cardinality(Asked(taken, N))
  <2>1. CASE N = 0
    <3>1. seqs = <<>>
      BY <1>7, <2>1
    <3>2. text = <<>>
      BY <1>7, <2>1, <3>1, ZenonT(40) DEF Concat
    <3>3. Ends(<<>>) = {}
      BY DEF Ends
    <3>4. Asked(taken, 0) = {}
      BY DEF Asked
    <3>5. Cardinality({}) = 0 /\ 2 * 0 = 0
      <4>1. Cardinality({}) = 0
        BY Zenon DEF RespFacts, CountType
      <4>2. 2 * 0 = 0
        OBVIOUS
      <4>3. QED
        BY <4>1, <4>2, ZenonT(40)
    <3>6. QED
      BY <2>1, <3>2, <3>3, <3>4, <3>5, ZenonT(40)
  <2>2. CASE N # 0
    <3>1. Least /\ Len(seqs) # 0 /\ seqs # <<>>
      <4>1. seqs # <<>>
        BY <1>7, <2>2
      <4>2. QED
        BY <1>7, <2>2, <4>1, ZenonT(40) DEF RespFacts
    <3>2. PICK h : h = FlatBody(h, seqs)
      BY <1>7, <3>1, FlatExists, ZenonT(40)
    <3>3. PICK f : f = FlatBody(f, seqs) /\ text = f[Len(seqs)]
      BY <3>1, <3>2, FlattenIs, ZenonT(40)
    <3>4. N \in 1 .. N
      BY <1>4, <2>2
    <3>5. Cardinality(Ends(f[N])) = 2 * Cardinality(Asked(taken, N))
      BY <1>3, <1>7, <3>3, <3>4, LinesUpTo, ZenonT(40)
    <3>6. QED
      BY <1>7, <3>3, <3>5, ZenonT(40)
  <2>3. QED
    BY <2>1, <2>2, Zenon
<1>9. Asked(taken, N) = {i \in DOMAIN taken : taken[i] # <<>>}
  BY <1>4, ZenonT(40) DEF Asked
<1>10. QED
  BY <1>8, <1>9, ZenonT(40) DEF OneLinePerCommand, Ends, seqs

-----------------------------------------------------------------------------
(* The facts about finite sets, from the library. *)
INSTANCE FiniteSetTheorems

LEMMA RespFactsHold == RespFacts
<1>1. Least
  <2>1. IsWellFoundedOn(OpToRel(<, Nat), Nat)
    BY NatLessThanWellFounded, ZenonT(40)
  <2>2. \A S \in SUBSET Nat : S # {} =>
          \E x \in S : \A y \in S : ~ (<<y, x>> \in OpToRel(<, Nat))
    BY <2>1, WFMin, ZenonT(40)
  <2>3. \A x, y \in Nat : y < x => <<y, x>> \in OpToRel(<, Nat)
    BY Zenon DEF OpToRel
  <2>4. \A S \in SUBSET Nat : S # {} => \E x \in S : \A y \in S : ~ (y < x)
    BY <2>2, <2>3, ZenonT(40)
  <2>5. \A x, y \in Nat : ~ (y < x) => x <= y
    OBVIOUS
  <2>6. QED
    BY <2>4, <2>5, ZenonT(40) DEF Least
<1>2. CountType
  BY FS_EmptySet, FS_CardinalityType, SMTT(30) DEF CountType
<1>3. IntervalCount
  BY FS_Interval, SMTT(30) DEF IntervalCount
<1>4. SubsetCount
  BY FS_Subset, SMTT(30) DEF SubsetCount
<1>5. AddCount
  BY FS_AddElement, SMTT(30) DEF AddCount
<1>6. UnionCount
  BY FS_Union DEF UnionCount
<1>7. ImageCount
  <2> SUFFICES ASSUME NEW S, NEW T, NEW f, IsFiniteSet(S),
                      T = {f[x] : x \in S},
                      f = [x \in S |-> f[x]],
                      \A x, y \in S : f[x] = f[y] => x = y
               PROVE  IsFiniteSet(T) /\ Cardinality(T) = Cardinality(S)
    BY DEF ImageCount
  <2>1. f \in [S -> T]
    OBVIOUS
  <2>2. \A y \in T : \E x \in S : f[x] = y
    BY Zenon
  <2>3. f \in Bijection(S, T)
    BY <2>1, <2>2, ZenonT(40) DEF Bijection, Injection, Surjection, IsInjective
  <2>4. QED
    BY <2>3, FS_Bijection, ZenonT(40) DEF ExistsBijection
<1>8. QED
  BY ONLY <1>1, <1>2, <1>3, <1>4, <1>5, <1>6, <1>7, ZenonT(40) DEF RespFacts

-----------------------------------------------------------------------------
(* The bytes of a connection are cut into reads by the network and by the  *)
(* buffer of handle_conn, and the servers parse again from the start of    *)
(* what they hold after each.  Whatever the cuts, the commands taken, the  *)
(* bytes kept and the verdict are those of one parse of all bytes read.    *)
(* The inductive invariant adds only that what is read and what is still   *)
(* on the wire are bytes.                                                  *)
THEOREM CutsDoNotMatter == Spec => []SplitIndependent
<1>1. Init => Cut
  BY RespFactsHold, LimitsAssumption, CutInit, ZenonT(40)
<1>2. Cut /\ [Next]_vars => Cut'
  BY RespFactsHold, LimitsAssumption, BytesAssumption, CutStep, ZenonT(40)
<1>3. Cut => SplitIndependent
  BY Zenon DEF Cut
<1>4. QED
  BY <1>1, <1>2, <1>3, PTL DEF Spec

(* The inductive invariant of a connection: the bytes are treated as one   *)
(* string, and each request sent has its place in that string.             *)
THEOREM RespInvariance == Spec => [](Cut /\ Sent)
<1>1. Init => Cut /\ Sent
  BY RespFactsHold, LimitsAssumption, CutInit, SentInit, ZenonT(40)
<1>2. Cut /\ Sent /\ [Next]_vars => Cut' /\ Sent'
  BY RespFactsHold, LimitsAssumption, BytesAssumption, CutStep, SentStep, ZenonT(40)
<1>3. QED
  BY <1>1, <1>2, PTL DEF Spec

(* resp_parse's contract in resp.h, and the loop of conn_process_input:    *)
(* requests whose lines are within the parser's limit are handed to        *)
(* cmd_dispatch as they were sent, in the order sent, none of them before  *)
(* its last byte is read and none left in the buffer after it.             *)
THEOREM RequestsDelivered ==
  ASSUME RequestsFit
  PROVE  Spec => []Delivered
<1>1. Cut /\ Sent => Delivered
  BY RespFactsHold, LimitsAssumption, BytesAssumption, DeliveredNow, ZenonT(40)
<1>2. QED
  BY <1>1, RespInvariance, PTL

(* The limits of resp.h leave room for the headers: every count and every  *)
(* length they allow is within parse_ll's guard, and its digits fit in a   *)
(* line (10 digits at most, in a line of 65536).                           *)
HeadersFit ==
  /\ RESP_MAX_ARGC <= 2 * RESP_MAX_BULK_LEN
  /\ \A k \in (0 .. RESP_MAX_BULK_LEN) \cup (0 .. RESP_MAX_ARGC) :
       Len(Decimal[k]) + 2 <= RESP_MAX_INLINE_LEN

(* The commands within the limits, whatever bytes their arguments hold.    *)
Commands ==
  {argv \in Seq(Seq(0 .. 255)) :
     /\ Len(argv) \in 1 .. RESP_MAX_ARGC
     /\ \A i \in 1 .. Len(argv) : Len(argv[i]) <= RESP_MAX_BULK_LEN}

LEMMA CommandFits ==
  ASSUME HeadersFit, NEW argv \in Commands
  PROVE  LET b == Multibulk(argv).bytes
         IN  resp_parse(b) = Ok(argv, Len(b)) /\ ShortLines(b)
<1>1. /\ argv \in Seq(Text) /\ Len(argv) \in 1 .. RESP_MAX_ARGC
      /\ \A i \in 1 .. Len(argv) : Len(argv[i]) <= RESP_MAX_BULK_LEN /\ argv[i] \in Text
  BY DEF Commands, Text, Byte
<1>2. RESP_MAX_ARGC \in Nat /\ RESP_MAX_BULK_LEN \in Nat
  BY LimitsAssumption, SMTT(30) DEF LimitsAssumption
<1>3. Len(argv) <= 2 * RESP_MAX_BULK_LEN /\ Len(argv) \in 0 .. RESP_MAX_ARGC
  BY <1>1, <1>2, SMTT(30) DEF HeadersFit
<1>4. Admitted(argv)
  BY <1>1, <1>3, ZenonT(40) DEF Admitted
<1>5. \A i \in 1 .. Len(argv) : Len(argv[i]) \in 0 .. RESP_MAX_BULK_LEN
  <2>1. \A t \in Text : Len(t) \in Nat
    BY DEF Text
  <2>2. \A i \in 1 .. Len(argv) : Len(argv[i]) \in Nat /\ Len(argv[i]) <= RESP_MAX_BULK_LEN
    BY <1>1, <2>1, ZenonT(40)
  <2>3. \A n \in Nat : n <= RESP_MAX_BULK_LEN => n \in 0 .. RESP_MAX_BULK_LEN
    BY <1>2, SMTT(30)
  <2>4. QED
    BY <2>2, <2>3, ZenonT(40)
<1>6. \A k \in {Len(argv)} \cup {Len(argv[i]) : i \in 1 .. Len(argv)} :
        Len(Decimal[k]) + 2 <= RESP_MAX_INLINE_LEN
  BY <1>3, <1>5, ZenonT(40) DEF HeadersFit
<1>7. Least
  BY RespFactsHold, ZenonT(40) DEF RespFacts
<1>8. QED
  BY <1>4, <1>6, <1>7, LimitsAssumption, ArrayRead, ZenonT(40)

(* parse_multibulk against the writers of resp.c: a command within the     *)
(* limits, written as an array of bulk strings, is parsed to the same      *)
(* arguments and to its last byte, whatever bytes the arguments hold (CR   *)
(* LF, NUL and the marks of the protocol among them).                      *)
THEOREM CommandsReadBack ==
  ASSUME HeadersFit
  PROVE  \A argv \in Commands :
           LET b == Multibulk(argv).bytes
           IN  resp_parse(b) = Ok(argv, Len(b))
BY CommandFits, ZenonT(40)

(* So a client that sends its commands as arrays of bulk strings, as the   *)
(* client libraries do, has them delivered: here nothing is assumed of how *)
(* the parser treats the requests.                                         *)
THEOREM ArraysDelivered ==
  ASSUME HeadersFit, Requests \subseteq {Multibulk(argv) : argv \in Commands}
  PROVE  Spec => []Delivered
<1>1. RequestsFit
  <2>1. \A a : Multibulk(a).argv = a
    BY Zenon DEF Multibulk
  <2>2. ASSUME NEW r \in Requests
        PROVE  resp_parse(r.bytes) = Ok(r.argv, Len(r.bytes)) /\ ShortLines(r.bytes)
    <3>1. PICK argv \in Commands : r = Multibulk(argv)
      BY Zenon
    <3>2. r.argv = argv
      BY <2>1, <3>1, ZenonT(40)
    <3>3. QED
      BY <3>1, <3>2, CommandFits, ZenonT(40)
  <2>3. QED
    BY <2>2, ZenonT(40) DEF RequestsFit
<1>2. QED
  BY <1>1, RequestsDelivered, SMTT(30)

(* resp_parse on a prefix of a command, as README.md words it: incomplete, *)
(* whenever the command's lines are within the limit that NoLineEnd checks *)
(* (beyond it, the prefix that holds all of the line but its end is an     *)
(* error: that is what the run resp_limit shows).                          *)
THEOREM PrefixesWait == Spec => [](ShortLines(buf \o wire) => PrefixesIncomplete)
<1>1. Cut => (ShortLines(buf \o wire) => PrefixesIncomplete)
  <2> SUFFICES ASSUME Cut, ShortLines(buf \o wire)
               PROVE  PrefixesIncomplete
    OBVIOUS
  <2> DEFINE all == buf \o wire
  <2>1. all \in Text
    BY RespFactsHold, LimitsAssumption, BufferIs, JoinIs, ZenonT(40) DEF Cut
  <2> HIDE DEF all
  <2>2. ShortLines(all)
    BY Zenon DEF all
  <2>3. resp_parse(all).status = "ok" =>
          \A n \in 0 .. resp_parse(all).consumed - 1 :
            resp_parse(SubSeq(all, 1, n)) = Incomplete
    BY RespFactsHold, LimitsAssumption, <2>1, <2>2, PrefixesAre, ZenonT(40)
  <2>4. QED
    BY <2>3, ZenonT(40) DEF PrefixesIncomplete, all
<1>2. QED
  BY <1>1, RespInvariance, PTL

(* And whatever the length of its lines, no proper prefix of the bytes of  *)
(* a command is taken for a shorter command.                               *)
NoPrefixTaken ==
  LET all == buf \o wire
      r == resp_parse(all)
  IN  r.status = "ok" =>
        \A n \in 0 .. r.consumed - 1 : resp_parse(SubSeq(all, 1, n)).status # "ok"

(* resp_parse never answers ok for bytes that stop short of a command it   *)
(* would answer ok for: a slow client's command is not cut into two.       *)
THEOREM NeverAShorterCommand == Spec => []NoPrefixTaken
<1>1. Cut => NoPrefixTaken
  <2> SUFFICES ASSUME Cut
               PROVE  NoPrefixTaken
    OBVIOUS
  <2> DEFINE all == buf \o wire
  <2>1. all \in Text
    BY RespFactsHold, LimitsAssumption, BufferIs, JoinIs, ZenonT(40) DEF Cut
  <2> HIDE DEF all
  <2>2. resp_parse(all).status = "ok" =>
          \A n \in 0 .. resp_parse(all).consumed - 1 :
            resp_parse(SubSeq(all, 1, n)).status # "ok"
    BY RespFactsHold, LimitsAssumption, <2>1, PrefixesAre, ZenonT(40)
  <2>3. QED
    BY <2>2, ZenonT(40) DEF NoPrefixTaken, all
<1>2. QED
  BY <1>1, RespInvariance, PTL

(* cmd_dispatch and safe_token: the replies to unknown commands have one   *)
(* line end for each command that is not blank, whatever bytes the names   *)
(* hold, so a client that counts lines keeps in step.                      *)
THEOREM OneLineEach == Spec => []OneLinePerCommand
<1>1. Cut => OneLinePerCommand
  BY RespFactsHold, LimitsAssumption, LinesNow, ZenonT(40)
<1>2. QED
  BY <1>1, RespInvariance, PTL
=============================================================================
