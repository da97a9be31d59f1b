----------------------------- MODULE RespLemmas -----------------------------
(***************************************************************************)
(* Lemmas about the operators of Resp: what the parser returns for bytes   *)
(* that go on and for bytes that stop early, that the loop around it gives *)
(* the same for any cutting of the bytes, how many lines the replies to    *)
(* unknown commands are, and that the parser takes back what a client      *)
(* wrote as an array of bulk strings.                                      *)
(***************************************************************************)
EXTENDS Resp, SetFacts, TLAPS

(* Induction, over a set of naturals.  The library's theorem takes an      *)
(* operator in the place of the set.                                       *)
LEMMA Induct ==
  ASSUME Least, NEW S \in SUBSET Nat, 0 \in S, \A n \in S : n + 1 \in S
  PROVE  S = Nat
<1>1. ASSUME S # Nat
      PROVE  FALSE
  <2>1. PICK m \in Nat \ S : \A y \in Nat \ S : m <= y
    <3>1. Nat \ S \in SUBSET Nat /\ Nat \ S # {}
      BY <1>1, Zenon
    <3>2. QED
      BY <3>1, Zenon DEF Least
  <2>2. m # 0 /\ m - 1 \in Nat /\ (m - 1) + 1 = m /\ ~(m <= m - 1)
    BY <2>1
  <2>3. m - 1 \in S
    BY <2>1, <2>2, Zenon
  <2>4. QED
    BY <2>1, <2>2, <2>3, Zenon
<1>2. QED
  BY <1>1, Zenon

(* h is what n rounds of g make of c, one after the other.                 *)
Iterates(h, c, g, n) ==
  h[0] = c /\ \A i \in 0 .. n - 1 : h[i + 1] = g[h[i]]

(* What n rounds make of c is determined, and can always be made.          *)
LEMMA IteratesOne ==
  ASSUME Least, NEW c, NEW g, NEW h1, NEW h2, NEW n \in Nat,
         Iterates(h1, c, g, n), Iterates(h2, c, g, n)
  PROVE  \A i \in 0 .. n : h1[i] = h2[i]
<1> DEFINE S == {i \in Nat : i <= n => h1[i] = h2[i]}
<1>1. 0 \in S
  BY DEF Iterates
<1>2. ASSUME NEW i \in S
      PROVE  i + 1 \in S
  <2>1. CASE i + 1 <= n
    <3>1. i \in 0 .. n - 1 /\ i <= n /\ i + 1 \in Nat
      BY <2>1
    <3>2. h1[i + 1] = g[h1[i]] /\ h2[i + 1] = g[h2[i]] /\ h1[i] = h2[i]
      BY <3>1, Zenon DEF Iterates
    <3>3. QED
      BY <3>1, <3>2, Zenon
  <2>2. CASE ~(i + 1 <= n)
    BY <2>2
  <2>3. QED
    BY <2>1, <2>2, Zenon
<1>3. S = Nat
  <2>1. S \in SUBSET Nat
    OBVIOUS
  <2> HIDE DEF S
  <2>2. QED
    BY <1>1, <1>2, <2>1, Induct, Zenon
<1>4. QED
  BY <1>3

LEMMA IteratesExist ==
  ASSUME Least, NEW P, NEW c \in P, NEW g \in [P -> P], NEW n \in Nat
  PROVE  \E h \in [0 .. n -> P] : Iterates(h, c, g, n)
<1> DEFINE S == {i \in Nat : \E h \in [0 .. i -> P] : Iterates(h, c, g, i)}
<1>1. 0 \in S
  <2> DEFINE h == [i \in 0 .. 0 |-> c]
  <2>1. h \in [0 .. 0 -> P] /\ Iterates(h, c, g, 0)
    BY DEF Iterates
  <2>2. QED
    BY <2>1
<1>2. ASSUME NEW i \in S
      PROVE  i + 1 \in S
  <2>1. PICK h \in [0 .. i -> P] : Iterates(h, c, g, i)
    OBVIOUS
  <2> DEFINE k == [j \in 0 .. i + 1 |-> IF j <= i THEN h[j] ELSE g[h[i]]]
  <2>2. k \in [0 .. i + 1 -> P]
    OBVIOUS
  <2>3. k[0] = c
    BY <2>1 DEF Iterates
  <2>4. ASSUME NEW j \in 0 .. (i + 1) - 1
        PROVE  k[j + 1] = g[k[j]]
    <3>1. CASE j < i
      <4>1. j \in 0 .. i - 1 /\ j + 1 <= i /\ j <= i /\ j \in 0 .. i + 1 /\ j + 1 \in 0 .. i + 1
        BY <3>1
      <4>2. k[j + 1] = h[j + 1] /\ k[j] = h[j]
        BY <4>1
      <4>3. h[j + 1] = g[h[j]]
        BY <2>1, <4>1, Zenon DEF Iterates
      <4>4. QED
        BY <4>2, <4>3, Zenon
    <3>2. CASE j = i
      BY <3>2
    <3>3. QED
      BY <3>1, <3>2
  <2> HIDE DEF k
  <2>5. Iterates(k, c, g, i + 1)
    BY <2>3, <2>4, Zenon DEF Iterates
  <2>6. QED
    BY <2>2, <2>5
<1>3. S = Nat
  <2>1. S \in SUBSET Nat
    OBVIOUS
  <2> HIDE DEF S
  <2>2. QED
    BY <1>1, <1>2, <2>1, Induct, Zenon
<1>4. QED
  BY <1>3, Zenon

(* The rounds of a loop that begins with c, of which each makes an element *)
(* of P of another.                                                        *)
LoopOver(P, c, g) == c \in P /\ g \in [P -> P]

RoundsOf(f, P, c, g) ==
  f \in [Nat -> P] /\ f[0] = c /\ \A i \in Nat : f[i + 1] = g[f[i]]

LEMMA RoundsExist ==
  ASSUME Least, NEW P, NEW c, NEW g, LoopOver(P, c, g)
  PROVE  \E f : RoundsOf(f, P, c, g)
<1> DEFINE H(n) == CHOOSE h \in [0 .. n -> P] : Iterates(h, c, g, n)
           f == [n \in Nat |-> H(n)[n]]
<1>1. \A n \in Nat : H(n) \in [0 .. n -> P] /\ Iterates(H(n), c, g, n)
  BY IteratesExist, Zenon DEF LoopOver
<1> HIDE DEF H
<1>2. f \in [Nat -> P]
  <2>1. \A n \in Nat : n \in 0 .. n
    OBVIOUS
  <2>2. \A n \in Nat : H(n)[n] \in P
    BY <1>1, <2>1, Zenon
  <2>3. QED
    BY <2>2, Zenon
<1>3. f[0] = c
  BY <1>1 DEF Iterates
<1>4. ASSUME NEW i \in Nat
      PROVE  f[i + 1] = g[f[i]]
  <2>1. i + 1 \in Nat /\ i \in 0 .. (i + 1) - 1 /\ i \in 0 .. i
        /\ \A j \in 0 .. i - 1 : j \in 0 .. (i + 1) - 1
    OBVIOUS
  <2> DEFINE h == H(i + 1)
  <2>2. Iterates(h, c, g, i + 1)
    BY <1>1, <2>1, Zenon
  <2> HIDE DEF h
  <2>3. h[i + 1] = g[h[i]]
    BY <2>1, <2>2, Zenon DEF Iterates
  <2>4. Iterates(h, c, g, i)
    BY <2>1, <2>2, Zenon DEF Iterates
  <2>5. h[i] = H(i)[i]
    <3>1. Iterates(H(i), c, g, i)
      BY <1>1, Zenon
    <3>2. \A j \in 0 .. i : h[j] = H(i)[j]
      BY <2>4, <3>1, IteratesOne
    <3>3. QED
      BY <2>1, <3>2, Zenon
  <2>6. f[i + 1] = h[i + 1] /\ f[i] = H(i)[i]
    BY <2>1, Zenon DEF h
  <2>7. QED
    BY <2>3, <2>5, <2>6, Zenon
<1>5. RoundsOf(f, P, c, g)
  BY <1>2, <1>3, <1>4, Zenon DEF RoundsOf
<1>6. QED
  BY <1>5, Zenon

BulksBody(f, b, n) ==
  [i \in Nat |-> IF i = 0 THEN Ok(<<>>, n)
                 ELSE IF f[i - 1].status = "ok" THEN parse_bulk(b, f[i - 1])
                 ELSE f[i - 1]]

LEMMA BulksIs ==
  ASSUME NEW b, NEW n, NEW f, f = BulksBody(f, b, n)
  PROVE  Bulks(b, n) = BulksBody(Bulks(b, n), b, n)
BY Zenon DEF Bulks, BulksBody

-----------------------------------------------------------------------------
(* Byte strings. *)
Byte == 0 .. 255
Text == Seq(Byte)

LEMMA SubIs ==
  ASSUME NEW s \in Text, NEW m \in Nat \ {0}, NEW n \in 0 .. Len(s)
  PROVE  /\ SubSeq(s, m, n) \in Text
         /\ Len(SubSeq(s, m, n)) = IF m <= n THEN n - m + 1 ELSE 0
         /\ \A i \in 1 .. n - m + 1 : SubSeq(s, m, n)[i] = s[m + i - 1]
BY DEF Text

LEMMA JoinIs ==
  ASSUME NEW s \in Text, NEW t \in Text
  PROVE  /\ s \o t \in Text
         /\ Len(s \o t) = Len(s) + Len(t)
         /\ \A i \in 1 .. Len(s) : (s \o t)[i] = s[i]
         /\ \A i \in 1 .. Len(t) : (s \o t)[Len(s) + i] = t[i]
BY DEF Text

LEMMA SameText ==
  ASSUME NEW s \in Text, NEW t \in Text, Len(s) = Len(t),
         \A i \in 1 .. Len(s) : s[i] = t[i]
  PROVE  s = t
BY DEF Text

LEMMA SubStays ==
  ASSUME NEW s \in Text, NEW t \in Text, NEW m \in Nat \ {0}, NEW n \in 0 .. Len(s)
  PROVE  SubSeq(s \o t, m, n) = SubSeq(s, m, n)
BY DEF Text

(* The first CR LF is where find_crlf says, and more bytes do not move it. *)
LEMMA CrlfIs ==
  ASSUME Least, NEW b \in Text, NEW from \in Nat \ {0}, find_crlf(b, from) # 0
  PROVE  /\ find_crlf(b, from) \in from .. Len(b) - 1
         /\ b[find_crlf(b, from)] = CR /\ b[find_crlf(b, from) + 1] = LF
         /\ \A j \in from .. find_crlf(b, from) - 1 : ~(b[j] = CR /\ b[j + 1] = LF)
<1> DEFINE ends == {i \in from .. Len(b) - 1 : b[i] = CR /\ b[i + 1] = LF}
<1>1. ends # {} /\ find_crlf(b, from) = Min(ends)
  BY Zenon DEF find_crlf
<1>2. Len(b) \in Nat /\ from \in Nat
  BY DEF Text
<1>3. ends \in SUBSET Nat
  BY <1>2
<1>4. PICK m \in ends : \A y \in ends : m <= y
  <2> HIDE DEF ends
  <2>1. QED
    BY <1>1, <1>3, Zenon DEF Least
<1>5. Min(ends) \in ends /\ \A y \in ends : Min(ends) <= y
  <2> HIDE DEF ends
  <2>1. QED
    BY <1>4, Zenon DEF Min
<1> DEFINE f == find_crlf(b, from)
<1>6. f \in ends /\ \A y \in ends : f <= y
  BY <1>1, <1>5, Zenon
<1>7. ASSUME NEW j \in from .. f - 1, b[j] = CR, b[j + 1] = LF
      PROVE  FALSE
  <2> HIDE DEF f
  <2>1. f \in from .. Len(b) - 1
    BY <1>6, Zenon
  <2>2. j \in from .. Len(b) - 1 /\ ~(f <= j)
    BY <1>2, <2>1, <1>7
  <2>3. j \in ends
    BY <1>7, <2>2, Zenon
  <2>4. QED
    BY <1>6, <2>2, <2>3, Zenon
<1>8. QED
  BY <1>6, <1>7, Zenon

LEMMA CrlfSame ==
  ASSUME Least, NEW b \in Text, NEW from \in Nat \ {0}, NEW f \in from .. Len(b) - 1,
         b[f] = CR, b[f + 1] = LF,
         \A j \in from .. f - 1 : ~(b[j] = CR /\ b[j + 1] = LF)
  PROVE  find_crlf(b, from) = f
<1> DEFINE ends == {i \in from .. Len(b) - 1 : b[i] = CR /\ b[i + 1] = LF}
           g == find_crlf(b, from)
<1>1. f \in ends
  OBVIOUS
<1>2. Len(b) \in Nat /\ from \in Nat /\ f \in Nat
  BY DEF Text
<1>3. ends \in SUBSET Nat
  BY <1>2
<1>4. PICK m \in ends : \A y \in ends : m <= y
  <2> HIDE DEF ends
  <2>1. QED
    BY <1>1, <1>3, Zenon DEF Least
<1>5. g = Min(ends)
  BY <1>1, Zenon DEF find_crlf
<1>6. g \in ends /\ \A y \in ends : g <= y
  <2> HIDE DEF ends
  <2>1. QED
    BY <1>4, <1>5, Zenon DEF Min
<1>7. g \in from .. Len(b) - 1 /\ b[g] = CR /\ b[g + 1] = LF /\ g <= f
  BY <1>1, <1>6, Zenon
<1> HIDE DEF g
<1>8. ~(g \in from .. f - 1)
  BY <1>7, Zenon
<1>9. g = f
  BY <1>2, <1>7, <1>8
<1>10. QED
  BY <1>9, Zenon DEF g

LEMMA CrlfStays ==
  ASSUME Least, NEW b \in Text, NEW x \in Text, NEW from \in Nat \ {0},
         find_crlf(b, from) # 0
  PROVE  find_crlf(b \o x, from) = find_crlf(b, from)
<1> DEFINE f == find_crlf(b, from)
           c == b \o x
<1>1. /\ f \in from .. Len(b) - 1 /\ b[f] = CR /\ b[f + 1] = LF
      /\ \A j \in from .. f - 1 : ~(b[j] = CR /\ b[j + 1] = LF)
  BY CrlfIs, Zenon
<1>2. c \in Text /\ Len(c) = Len(b) + Len(x) /\ \A i \in 1 .. Len(b) : c[i] = b[i]
  BY JoinIs, Zenon
<1>3. Len(b) \in Nat /\ Len(x) \in Nat
  BY DEF Text
<1> HIDE DEF f, c
<1>4. f \in from .. Len(c) - 1 /\ c[f] = b[f] /\ c[f + 1] = b[f + 1]
  BY <1>1, <1>2, <1>3
<1>5. \A j \in from .. f - 1 : c[j] = b[j] /\ c[j + 1] = b[j + 1]
  BY <1>1, <1>2, <1>3, SMTT(30)
<1>6. /\ c[f] = CR /\ c[f + 1] = LF
      /\ \A j \in from .. f - 1 : ~(c[j] = CR /\ c[j + 1] = LF)
  BY <1>1, <1>4, <1>5, ZenonT(40)
<1>7. find_crlf(c, from) = f
  BY <1>2, <1>4, <1>6, CrlfSame, Zenon
<1>8. QED
  BY <1>7, Zenon DEF f, c

(* A length that is accepted is the only one that the bytes write.         *)
LEMMA LengthIs ==
  ASSUME NEW t, NEW lo \in Nat, NEW hi \in Nat, parse_ll(t) \cap lo .. hi # {}
  PROVE  Max(parse_ll(t)) \in lo .. hi
<1>1. \E v : parse_ll(t) = {v}
  BY Zenon DEF parse_ll
<1>2. PICK v : parse_ll(t) = {v}
  BY <1>1, Zenon
<1>3. v \in lo .. hi
  BY <1>2, Zenon
<1>4. v >= v
  BY <1>3
<1>5. Max({v}) = v
  BY <1>4, Zenon DEF Max
<1>6. QED
  BY <1>2, <1>3, <1>5, Zenon

-----------------------------------------------------------------------------
(* What the parser returns for b, in whole or for the arguments so far.    *)
Parses(b) ==
  [status : {"ok", "incomplete", "error"}, argv : Seq(Text), consumed : 0 .. Len(b)]

LEMMA ParsesAre ==
  ASSUME NEW b \in Text
  PROVE  /\ \A n : NoLineEnd(n) \in {Incomplete, Error}
         /\ Incomplete \in Parses(b) /\ Error \in Parses(b)
         /\ \A argv \in Seq(Text), n \in 0 .. Len(b) : Ok(argv, n) \in Parses(b)
         /\ Incomplete.status # "ok" /\ Error.status # "ok"
         /\ \A argv, n : Ok(argv, n).status = "ok" /\ Ok(argv, n).consumed = n
                         /\ Ok(argv, n).argv = argv
<1>1. Len(b) \in Nat
  BY DEF Text
<1>2. <<>> \in Seq(Text) /\ 0 \in 0 .. Len(b)
  BY <1>1
<1>3. /\ \A n : NoLineEnd(n) \in {Incomplete, Error}
  BY Zenon DEF NoLineEnd
<1>4. Incomplete \in Parses(b) /\ Error \in Parses(b)
  BY <1>2 DEF Incomplete, Error, Parses
<1>5. \A argv \in Seq(Text), n \in 0 .. Len(b) : Ok(argv, n) \in Parses(b)
  BY DEF Ok, Parses
<1>6. Incomplete.status # "ok" /\ Error.status # "ok"
  BY DEF Incomplete, Error
<1>7. \A argv, n : Ok(argv, n).status = "ok" /\ Ok(argv, n).consumed = n
                     /\ Ok(argv, n).argv = argv
  BY DEF Ok
<1>8. QED
  BY <1>3, <1>4, <1>5, <1>6, <1>7, Zenon

LEMMA ParsesNat ==
  ASSUME NEW b \in Text, NEW p \in Parses(b)
  PROVE  p.consumed \in Nat /\ p.consumed \in 0 .. Len(b)
BY DEF Parses

LEMMA BulkPlaces ==
  ASSUME NEW total \in Nat, NEW n \in 0 .. total, NEW hdr \in n + 1 .. total - 1,
         NEW len \in Nat, NEW last, last = hdr + 1 + len, ~(total < last + 2)
  PROVE  /\ last \in Nat /\ last + 2 \in 0 .. total /\ last + 2 > n /\ last \in 0 .. total
         /\ hdr + 2 \in Nat \ {0} /\ last + 1 \in Nat \ {0} /\ hdr - 1 \in 0 .. total
         /\ n + 1 \in 1 .. total
OBVIOUS

(* One argument: what it takes, and that more bytes do not change it.      *)
LEMMA BulkIs ==
  ASSUME Least, LimitsAssumption, NEW b \in Text, NEW p \in Parses(b)
  PROVE  /\ parse_bulk(b, p) \in Parses(b)
         /\ parse_bulk(b, p).status = "ok" =>
              /\ parse_bulk(b, p).consumed > p.consumed
              /\ \A x \in Text : parse_bulk(b \o x, p) = parse_bulk(b, p)
<1> DEFINE n == p.consumed
           hdr == find_crlf(b, n + 1)
           blen == parse_ll(SubSeq(b, n + 2, hdr - 1))
           last == hdr + 1 + Max(blen)
           good == Ok(Append(p.argv, SubSeq(b, hdr + 2, last)), last + 2)
<1>1. /\ n \in 0 .. Len(b) /\ p.argv \in Seq(Text) /\ Len(b) \in Nat
      /\ n + 1 \in Nat \ {0} /\ n + 2 \in Nat \ {0} /\ RESP_MAX_BULK_LEN \in Nat
  BY DEF Parses, Text, LimitsAssumption
<1>2. /\ Incomplete \in Parses(b) /\ Error \in Parses(b) /\ \A k : NoLineEnd(k) \in {Incomplete, Error}
      /\ Incomplete.status # "ok" /\ Error.status # "ok"
  BY ParsesAre, Zenon
<1>3. CASE hdr = 0 \/ b[n + 1] # DOLLAR \/ blen \cap 0 .. RESP_MAX_BULK_LEN = {}
           \/ Len(b) < last + 2 \/ SubSeq(b, last + 1, last + 2) # CRLF
  <2>1. parse_bulk(b, p) \in {Incomplete, Error}
    BY <1>2, <1>3, Zenon DEF parse_bulk
  <2>2. QED
    BY <1>2, <2>1, Zenon
<1>4. CASE /\ hdr # 0 /\ b[n + 1] = DOLLAR /\ blen \cap 0 .. RESP_MAX_BULK_LEN # {}
           /\ ~(Len(b) < last + 2) /\ SubSeq(b, last + 1, last + 2) = CRLF
  <2>1. parse_bulk(b, p) = good
    BY <1>4, Zenon DEF parse_bulk
  <2>2. hdr \in n + 1 .. Len(b) - 1
    BY <1>1, <1>4, CrlfIs, Zenon
  <2>3. Max(blen) \in 0 .. RESP_MAX_BULK_LEN
    <3>1. 0 \in Nat
      OBVIOUS
    <3>2. QED
      BY <1>1, <1>4, <3>1, LengthIs, Zenon
  <2> HIDE DEF blen, hdr
  <2>4. /\ last \in Nat /\ last + 2 \in 0 .. Len(b) /\ last + 2 > n /\ last \in 0 .. Len(b)
        /\ hdr + 2 \in Nat \ {0} /\ last + 1 \in Nat \ {0} /\ hdr - 1 \in 0 .. Len(b)
        /\ n + 1 \in 1 .. Len(b)
    <3>1. Max(blen) \in Nat
      BY <1>1, <2>3
    <3>2. QED
      BY <1>1, <1>4, <2>2, <3>1, BulkPlaces, Zenon
  <2> HIDE DEF last
  <2>5. SubSeq(b, hdr + 2, last) \in Text
    BY <2>4, SubIs, Zenon
  <2> DEFINE argv == Append(p.argv, SubSeq(b, hdr + 2, last))
  <2>6. argv \in Seq(Text)
    BY <1>1, <2>5
  <2>7. good \in Parses(b) /\ good.consumed = last + 2
    <3> HIDE DEF argv
    <3>1. Ok(argv, last + 2) \in Parses(b)
      BY <2>4, <2>6, ParsesAre, Zenon
    <3>2. QED
      BY <3>1, Zenon DEF argv, Ok
  <2>8. ASSUME NEW x \in Text
        PROVE  parse_bulk(b \o x, p) = good
    <3> DEFINE c == b \o x
    <3>1. c \in Text /\ Len(c) = Len(b) + Len(x) /\ \A i \in 1 .. Len(b) : c[i] = b[i]
      BY JoinIs, Zenon
    <3>2. find_crlf(c, n + 1) = hdr
      BY <1>1, <1>4, CrlfStays, Zenon DEF hdr
    <3>3. /\ SubSeq(c, n + 2, hdr - 1) = SubSeq(b, n + 2, hdr - 1)
          /\ SubSeq(c, last + 1, last + 2) = SubSeq(b, last + 1, last + 2)
          /\ SubSeq(c, hdr + 2, last) = SubSeq(b, hdr + 2, last)
      <4>1. SubSeq(c, n + 2, hdr - 1) = SubSeq(b, n + 2, hdr - 1)
        BY <1>1, <2>4, SubStays, ZenonT(40)
      <4>2. SubSeq(c, last + 1, last + 2) = SubSeq(b, last + 1, last + 2)
        BY <2>4, SubStays, ZenonT(40)
      <4>3. SubSeq(c, hdr + 2, last) = SubSeq(b, hdr + 2, last)
        BY <2>4, SubStays, ZenonT(40)
      <4>4. QED
        BY <4>1, <4>2, <4>3, Zenon
    <3>4. c[n + 1] = b[n + 1]
      BY <2>4, <3>1, Zenon
    <3> HIDE DEF c
    <3>5. ~(Len(c) < last + 2)
      <4>1. Len(x) \in Nat
        BY DEF Text
      <4>2. QED
        BY <1>1, <1>4, <2>4, <3>1, <4>1
    <3>6. parse_ll(SubSeq(c, n + 2, hdr - 1)) = blen
      BY <3>3, Zenon DEF blen
    <3>7. parse_bulk(c, p) = good
      BY <1>4, <3>2, <3>3, <3>4, <3>5, <3>6, Zenon DEF parse_bulk, last
    <3>8. QED
      BY <3>7, Zenon DEF c
  <2>9. good.consumed > p.consumed
    BY <1>1, <2>4, <2>7
  <2>10. QED
    BY <2>1, <2>7, <2>8, <2>9, Zenon
<1>5. QED
  BY <1>3, <1>4, Zenon

(* The rounds of the loop over the arguments. *)
LEMMA BulksAre ==
  ASSUME Least, LimitsAssumption, NEW b \in Text, NEW n \in 0 .. Len(b)
  PROVE  /\ Bulks(b, n)[0] = Ok(<<>>, n)
         /\ \A i \in Nat : Bulks(b, n)[i + 1] =
              IF Bulks(b, n)[i].status = "ok" THEN parse_bulk(b, Bulks(b, n)[i])
              ELSE Bulks(b, n)[i]
         /\ \A i \in Nat : Bulks(b, n)[i] \in Parses(b)
<1> DEFINE P == Parses(b)
           c == Ok(<<>>, n)
           g == [p \in P |-> IF p.status = "ok" THEN parse_bulk(b, p) ELSE p]
           u == Bulks(b, n)
<1>1. c \in P
  <2>1. <<>> \in Seq(Text)
    OBVIOUS
  <2>2. QED
    BY <2>1, ParsesAre, Zenon
<1>2. g \in [P -> P]
  BY BulkIs, Zenon
<1>3. PICK f : RoundsOf(f, P, c, g)
  <2>1. LoopOver(P, c, g)
    BY <1>1, <1>2, Zenon DEF LoopOver
  <2> HIDE DEF P, c, g
  <2>2. QED
    BY <2>1, RoundsExist, Zenon
<1>4. \A i \in Nat : f[i + 1] = IF f[i].status = "ok" THEN parse_bulk(b, f[i]) ELSE f[i]
  BY <1>3, Zenon DEF RoundsOf
<1>5. f = BulksBody(f, b, n)
  <2>1. \A i \in Nat : i = 0 \/ (i - 1 \in Nat /\ (i - 1) + 1 = i)
    OBVIOUS
  <2>2. ASSUME NEW i \in Nat
        PROVE  f[i] = IF i = 0 THEN Ok(<<>>, n)
                      ELSE IF f[i - 1].status = "ok" THEN parse_bulk(b, f[i - 1])
                      ELSE f[i - 1]
    <3>1. CASE i = 0
      BY <1>3, <3>1, Zenon DEF RoundsOf
    <3>2. CASE i # 0
      <4>1. i - 1 \in Nat /\ (i - 1) + 1 = i
        BY <2>1, <3>2, Zenon
      <4>2. f[(i - 1) + 1] = IF f[i - 1].status = "ok" THEN parse_bulk(b, f[i - 1]) ELSE f[i - 1]
        BY <1>4, <4>1, Zenon
      <4>3. QED
        BY <3>2, <4>1, <4>2, Zenon
    <3>3. QED
      BY <3>1, <3>2, Zenon
  <2>3. f = [i \in Nat |-> f[i]]
    BY <1>3, Zenon DEF RoundsOf
  <2>4. QED
    BY <2>2, <2>3, Zenon DEF BulksBody
<1>6. u = BulksBody(u, b, n)
  BY <1>5, BulksIs, Zenon
<1> HIDE DEF u
<1>7. u[0] = c
  <2>1. 0 \in Nat
    OBVIOUS
  <2>2. BulksBody(u, b, n)[0] = c
    BY <2>1, Zenon DEF BulksBody
  <2>3. QED
    BY <1>6, <2>2, Zenon
<1>8. ASSUME NEW i \in Nat
      PROVE  u[i + 1] = IF u[i].status = "ok" THEN parse_bulk(b, u[i]) ELSE u[i]
  <2>1. i + 1 \in Nat /\ i + 1 # 0 /\ (i + 1) - 1 = i
    OBVIOUS
  <2>2. BulksBody(u, b, n)[i + 1] = IF u[i].status = "ok" THEN parse_bulk(b, u[i]) ELSE u[i]
    BY <2>1, Zenon DEF BulksBody
  <2>3. QED
    BY <1>6, <2>2, Zenon
<1>9. \A i \in Nat : u[i] \in P
  <2> DEFINE S == {i \in Nat : u[i] \in P}
  <2>1. 0 \in S
    BY <1>1, <1>7
  <2>2. ASSUME NEW i \in S
        PROVE  i + 1 \in S
    <3>1. i \in Nat /\ i + 1 \in Nat /\ u[i] \in P
      OBVIOUS
    <3>2. u[i + 1] \in P
      BY <1>8, <3>1, BulkIs, Zenon
    <3>3. QED
      BY <3>1, <3>2, Zenon
  <2>3. S \in SUBSET Nat
    OBVIOUS
  <2>4. S = Nat
    <3> HIDE DEF S
    <3>1. QED
      BY <2>1, <2>2, <2>3, Induct, Zenon
  <2>5. QED
    BY <2>4, Zenon
<1>10. QED
  BY <1>7, <1>8, <1>9, Zenon DEF u

(* Arguments that are whole stay what they are when more bytes come. *)
LEMMA BulksStay ==
  ASSUME Least, LimitsAssumption, NEW b \in Text, NEW x \in Text, NEW n \in 0 .. Len(b),
         NEW i \in Nat, Bulks(b, n)[i].status = "ok"
  PROVE  Bulks(b \o x, n)[i] = Bulks(b, n)[i] /\ Bulks(b, n)[i].consumed >= n
<1> DEFINE u == Bulks(b, n)
           w == Bulks(b \o x, n)
           S == {j \in Nat : u[j].status = "ok" => w[j] = u[j] /\ u[j].consumed >= n}
<1>1. n \in Nat /\ n \in 0 .. Len(b \o x) /\ b \o x \in Text
  <2>1. b \o x \in Text /\ Len(b \o x) = Len(b) + Len(x)
    BY JoinIs, Zenon
  <2>2. Len(b) \in Nat /\ Len(x) \in Nat
    BY DEF Text
  <2>3. QED
    BY <2>1, <2>2
<1>2. /\ u[0] = Ok(<<>>, n) /\ \A j \in Nat : u[j] \in Parses(b)
      /\ \A j \in Nat : u[j + 1] = IF u[j].status = "ok" THEN parse_bulk(b, u[j]) ELSE u[j]
  BY BulksAre, Zenon
<1>3. /\ w[0] = Ok(<<>>, n)
      /\ \A j \in Nat : w[j + 1] = IF w[j].status = "ok" THEN parse_bulk(b \o x, w[j]) ELSE w[j]
  BY <1>1, BulksAre, Zenon
<1> HIDE DEF u, w
<1>4. 0 \in S
  <2>1. u[0].consumed = n /\ n >= n
    BY <1>1, <1>2 DEF Ok
  <2>2. 0 \in Nat
    OBVIOUS
  <2>3. QED
    BY <1>2, <1>3, <2>1, <2>2, Zenon
<1>5. ASSUME NEW j \in S
      PROVE  j + 1 \in S
  <2>1. j \in Nat /\ j + 1 \in Nat
    OBVIOUS
  <2>2. ASSUME u[j + 1].status = "ok"
        PROVE  w[j + 1] = u[j + 1] /\ u[j + 1].consumed >= n
    <3>1. u[j].status = "ok"
      BY <1>2, <2>1, <2>2, Zenon
    <3>2. w[j] = u[j] /\ u[j].consumed >= n
      BY <3>1
    <3>3. u[j + 1] = parse_bulk(b, u[j]) /\ w[j + 1] = parse_bulk(b \o x, u[j])
      BY <1>2, <1>3, <2>1, <3>1, <3>2, Zenon
    <3>4. u[j] \in Parses(b) /\ u[j + 1] \in Parses(b)
      BY <1>2, <2>1, Zenon
    <3>5. u[j + 1].consumed > u[j].consumed /\ parse_bulk(b \o x, u[j]) = parse_bulk(b, u[j])
      BY <2>2, <3>3, <3>4, BulkIs, Zenon
    <3>6. u[j + 1].consumed \in Nat /\ u[j].consumed \in Nat
      BY <3>4, ParsesNat, Zenon
    <3>7. u[j + 1].consumed >= n
      BY <1>1, <3>2, <3>5, <3>6, SMTT(30)
    <3>8. QED
      BY <3>3, <3>5, <3>7, ZenonT(40)
  <2>3. QED
    BY <2>1, <2>2, Zenon
<1>6. S = Nat
  <2>1. S \in SUBSET Nat
    OBVIOUS
  <2> HIDE DEF S
  <2>2. QED
    BY <1>4, <1>5, <2>1, Induct, Zenon
<1>7. QED
  BY <1>6, Zenon DEF u, w

-----------------------------------------------------------------------------
(* What the lemmas below use of finite sets. *)
RespFacts ==
  /\ Least /\ CountType /\ IntervalCount /\ SubsetCount /\ AddCount
  /\ UnionCount /\ ImageCount

(* A set of numbers up to k can be told off one by one. *)
LEMMA NthExists ==
  ASSUME RespFacts, NEW k \in Nat, NEW S \in SUBSET (1 .. k), NEW n \in 1 .. Cardinality(S)
  PROVE  \E i \in S : Cardinality({j \in S : j <= i}) = n
<1> DEFINE upto(i) == {j \in S : j <= i}
           big == {i \in Nat : Cardinality(upto(i)) >= n}
<1>1. IsFiniteSet(S) /\ \A i : IsFiniteSet(upto(i))
  <2>1. IsFiniteSet(1 .. k)
    <3>1. 1 \in Int /\ k \in Int
      OBVIOUS
    <3>2. QED
      BY <3>1, Zenon DEF RespFacts, IntervalCount
  <2>2. IsFiniteSet(S)
    BY <2>1, Zenon DEF RespFacts, SubsetCount
  <2>3. \A i : upto(i) \subseteq S
    BY Zenon
  <2>4. QED
    BY <2>2, <2>3, Zenon DEF RespFacts, SubsetCount
<1>2. /\ \A i : Cardinality(upto(i)) \in Nat
      /\ Cardinality(S) \in Nat /\ n \in Nat /\ n >= 1 /\ n <= Cardinality(S)
  <2>1. (\A i : Cardinality(upto(i)) \in Nat) /\ Cardinality(S) \in Nat
    BY <1>1, Zenon DEF RespFacts, CountType
  <2>2. QED
    BY <2>1
<1>3. \A j \in S : j \in Nat /\ j <= k /\ ~(j <= -1)
  OBVIOUS
<1>4. k \in big
  <2>1. upto(k) = S
    BY <1>3, Zenon
  <2>2. Cardinality(S) >= n
    BY <1>2
  <2>3. QED
    BY <2>1, <2>2, Zenon
<1>5. PICK m \in big : \A y \in big : m <= y
  <2>1. big \in SUBSET Nat
    OBVIOUS
  <2> HIDE DEF big
  <2>2. QED
    BY <1>4, <2>1, Zenon DEF RespFacts, Least
<1>6. m \in Nat /\ Cardinality(upto(m)) >= n
  BY Zenon
<1>7. m - 1 \in Int /\ Cardinality(upto(m - 1)) < n
  <2>1. CASE m = 0
    <3>1. upto(m - 1) = {}
      <4>1. m - 1 = -1
        BY <2>1
      <4>2. QED
        BY <1>3, <4>1, Zenon
    <3>2. Cardinality(upto(m - 1)) = 0
      BY <3>1, Zenon DEF RespFacts, CountType
    <3>3. QED
      BY <1>2, <1>6, <3>2
  <2>2. CASE m # 0
    <3>1. m - 1 \in Nat /\ ~(m <= m - 1)
      BY <1>6, <2>2
    <3>2. ~(Cardinality(upto(m - 1)) >= n)
      BY <1>5, <3>1, Zenon
    <3> HIDE DEF upto
    <3>3. QED
      BY <1>2, <3>1, <3>2
  <2>3. QED
    BY <2>1, <2>2, Zenon
<1>8. ASSUME m \notin S
      PROVE  FALSE
  <2>1. \A j \in Nat : j # m => (j <= m <=> j <= m - 1)
    BY <1>6
  <2>2. upto(m) = upto(m - 1)
    BY <1>8, <1>3, <2>1, Zenon
  <2> HIDE DEF upto
  <2>3. QED
    BY <1>2, <1>6, <1>7, <2>2
<1>9. Cardinality(upto(m)) = Cardinality(upto(m - 1)) + 1
  <2>1. m \in S
    BY <1>8, Zenon
  <2>2. (\A j \in Nat : j <= m <=> j = m \/ j <= m - 1) /\ ~(m <= m - 1)
    BY <1>6
  <2>3. upto(m) = upto(m - 1) \cup {m} /\ m \notin upto(m - 1)
    BY <1>3, <2>1, <2>2, Zenon
  <2> HIDE DEF upto
  <2>4. QED
    BY <1>1, <2>3, Zenon DEF RespFacts, AddCount
<1>10. Cardinality(upto(m)) = n
  <2> HIDE DEF upto
  <2>1. QED
    BY <1>2, <1>6, <1>7, <1>9
<1>11. QED
  BY <1>8, <1>10, Zenon

(* The words of a line are byte strings. *)
LEMMA WordsAre ==
  ASSUME RespFacts, NEW line \in Text
  PROVE  Words(line) \in Seq(Text)
<1> DEFINE inside(i) == i \in DOMAIN line /\ ~isspace(line[i])
           starts == {i \in DOMAIN line : inside(i) /\ ~inside(i - 1)}
           start(n) == CHOOSE i \in starts : Cardinality({j \in starts : j <= i}) = n
           ends(i) == {j \in i .. Len(line) : ~inside(j + 1)}
           end(i) == Min(ends(i))
           word(n) == SubSeq(line, start(n), end(start(n)))
<1>1. DOMAIN line = 1 .. Len(line) /\ Len(line) \in Nat
  BY DEF Text
<1>2. starts \in SUBSET (1 .. Len(line))
  BY <1>1, Zenon
<1>3. \A n \in 1 .. Cardinality(starts) : start(n) \in starts
  <2> HIDE DEF starts
  <2>1. QED
    BY <1>1, <1>2, NthExists, Zenon
<1>4. ASSUME NEW i \in 1 .. Len(line)
      PROVE  end(i) \in 0 .. Len(line)
  <2>1. Len(line) \in ends(i)
    <3>1. Len(line) + 1 \notin 1 .. Len(line) /\ Len(line) \in i .. Len(line)
      BY <1>1
    <3>2. QED
      BY <1>1, <3>1, Zenon
  <2>2. ends(i) \in SUBSET Nat /\ ends(i) \subseteq 0 .. Len(line)
    BY <1>1
  <2> HIDE DEF ends
  <2>3. \E m \in ends(i) : \A y \in ends(i) : m <= y
    BY <2>1, <2>2, Zenon DEF RespFacts, Least
  <2>4. Min(ends(i)) \in ends(i)
    BY <2>3, Zenon DEF Min
  <2>5. QED
    BY <2>2, <2>4, Zenon
<1>5. ASSUME NEW n \in 1 .. Cardinality(starts)
      PROVE  word(n) \in Text
  <2>1. start(n) \in 1 .. Len(line) /\ end(start(n)) \in 0 .. Len(line)
    BY <1>2, <1>3, <1>4, Zenon
  <2>2. start(n) \in Nat \ {0}
    <3> HIDE DEF start
    <3>1. QED
      BY <1>1, <2>1
  <2> HIDE DEF start, end
  <2>3. QED
    BY <2>1, <2>2, SubIs, Zenon
<1>6. Cardinality(starts) \in Nat
  <2>1. IsFiniteSet(1 .. Len(line))
    <3>1. 1 \in Int /\ Len(line) \in Int
      BY <1>1
    <3>2. QED
      BY <3>1, Zenon DEF RespFacts, IntervalCount
  <2> HIDE DEF starts
  <2>2. QED
    BY <1>2, <2>1, Zenon DEF RespFacts, SubsetCount, CountType
<1>7. Words(line) = [n \in 1 .. Cardinality(starts) |-> word(n)]
  BY Zenon DEF Words
<1>8. QED
  <2> HIDE DEF starts, word
  <2>1. QED
    BY <1>5, <1>6, <1>7

-----------------------------------------------------------------------------
(* The first LF, as the first CR LF above. *)
LEMMA LfIs ==
  ASSUME Least, NEW b \in Text, find_lf(b) # 0
  PROVE  /\ find_lf(b) \in 1 .. Len(b) /\ b[find_lf(b)] = LF
         /\ \A j \in 1 .. find_lf(b) - 1 : b[j] # LF
<1> DEFINE ends == {i \in DOMAIN b : b[i] = LF}
           f == find_lf(b)
<1>1. DOMAIN b = 1 .. Len(b) /\ Len(b) \in Nat
  BY DEF Text
<1>2. ends # {} /\ f = Min(ends)
  BY Zenon DEF find_lf
<1>3. ends \in SUBSET Nat
  BY <1>1
<1>4. f \in ends /\ \A y \in ends : f <= y
  <2> HIDE DEF ends, f
  <2>1. \E m \in ends : \A y \in ends : m <= y
    BY <1>2, <1>3, Zenon DEF Least
  <2>2. QED
    BY <1>2, <2>1, Zenon DEF Min
<1> HIDE DEF f
<1>5. f \in 1 .. Len(b) /\ b[f] = LF
  BY <1>1, <1>4, Zenon
<1>6. ASSUME NEW j \in 1 .. f - 1, b[j] = LF
      PROVE  FALSE
  <2>1. j \in 1 .. Len(b) /\ ~(f <= j)
    BY <1>1, <1>5
  <2>2. j \in ends
    BY <1>1, <1>6, <2>1, Zenon
  <2>3. QED
    BY <1>4, <2>1, <2>2, Zenon
<1>7. QED
  BY <1>5, <1>6, Zenon DEF f

LEMMA LfSame ==
  ASSUME Least, NEW b \in Text, NEW f \in 1 .. Len(b), b[f] = LF,
         \A j \in 1 .. f - 1 : b[j] # LF
  PROVE  find_lf(b) = f
<1> DEFINE ends == {i \in DOMAIN b : b[i] = LF}
           g == find_lf(b)
<1>1. DOMAIN b = 1 .. Len(b) /\ Len(b) \in Nat
  BY DEF Text
<1>2. f \in ends
  BY <1>1, Zenon
<1>3. g # 0
  <2>1. g = Min(ends)
    BY <1>2, Zenon DEF find_lf
  <2>2. ends \in SUBSET Nat /\ 0 \notin ends
    BY <1>1
  <2> HIDE DEF ends, g
  <2>3. \E m \in ends : \A y \in ends : m <= y
    BY <1>2, <2>2, Zenon DEF Least
  <2>4. Min(ends) \in ends
    BY <2>3, Zenon DEF Min
  <2>5. QED
    BY <2>1, <2>2, <2>4, Zenon
<1>4. g \in 1 .. Len(b) /\ b[g] = LF /\ \A j \in 1 .. g - 1 : b[j] # LF
  BY <1>3, LfIs, Zenon
<1> HIDE DEF g
<1>5. ~(g \in 1 .. f - 1) /\ ~(f \in 1 .. g - 1)
  BY <1>4, Zenon
<1>6. g = f
  BY <1>1, <1>4, <1>5
<1>7. QED
  BY <1>6, Zenon DEF g

LEMMA LfStays ==
  ASSUME Least, NEW b \in Text, NEW x \in Text, find_lf(b) # 0
  PROVE  find_lf(b \o x) = find_lf(b)
<1> DEFINE f == find_lf(b)
           c == b \o x
<1>1. f \in 1 .. Len(b) /\ b[f] = LF /\ \A j \in 1 .. f - 1 : b[j] # LF
  BY LfIs, Zenon
<1>2. c \in Text /\ Len(c) = Len(b) + Len(x) /\ \A i \in 1 .. Len(b) : c[i] = b[i]
  BY JoinIs, Zenon
<1>3. Len(b) \in Nat /\ Len(x) \in Nat
  BY DEF Text
<1> HIDE DEF f, c
<1>4. f \in 1 .. Len(c) /\ \A j \in 1 .. f - 1 : j \in 1 .. Len(b)
  BY <1>1, <1>2, <1>3
<1>5. c[f] = LF /\ \A j \in 1 .. f - 1 : c[j] # LF
  BY <1>1, <1>2, <1>4, Zenon
<1>6. find_lf(c) = f
  BY <1>2, <1>4, <1>5, LfSame, Zenon
<1>7. QED
  BY <1>6, Zenon DEF f, c

(* A request on a line: the parser's result is one for b, and if it is a   *)
(* command it takes bytes of b and is the same with more bytes after them. *)
LEMMA InlineIs ==
  ASSUME RespFacts, NEW b \in Text
  PROVE  /\ parse_inline(b) \in Parses(b)
         /\ parse_inline(b).status = "ok" =>
              /\ parse_inline(b).consumed >= 1
              /\ \A x \in Text : parse_inline(b \o x) = parse_inline(b)
<1> DEFINE eol == find_lf(b)
           text == IF eol > 1 /\ b[eol - 1] = CR THEN eol - 2 ELSE eol - 1
           line == SubSeq(b, 1, text)
<1>1. Least
  BY Zenon DEF RespFacts
<1>2. CASE eol = 0
  <2>1. parse_inline(b) \in {Incomplete, Error}
    BY <1>2, ParsesAre, Zenon DEF parse_inline
  <2>2. QED
    BY <2>1, ParsesAre, ZenonT(40)
<1>3. CASE eol # 0
  <2>1. parse_inline(b) = Ok(Words(line), eol)
    BY <1>3, Zenon DEF parse_inline
  <2>2. eol \in 1 .. Len(b) /\ Len(b) \in Nat
    <3>1. Len(b) \in Nat
      BY DEF Text
    <3>2. QED
      BY <1>1, <1>3, <3>1, LfIs, Zenon
  <2> HIDE DEF eol
  <2>3. text \in 0 .. Len(b) /\ eol \in 0 .. Len(b) /\ eol >= 1 /\ 1 \in Nat \ {0}
    BY <2>2
  <2>4. line \in Text
    <3> HIDE DEF text
    <3>1. QED
      BY <2>3, SubIs, Zenon
  <2>5. Words(line) \in Seq(Text)
    BY <2>4, WordsAre, Zenon
  <2>6. Ok(Words(line), eol) \in Parses(b) /\ Ok(Words(line), eol).consumed = eol
    <3> DEFINE w == Words(line)
    <3>1. w \in Seq(Text)
      BY <2>5
    <3> HIDE DEF w
    <3>2. Ok(w, eol) \in Parses(b) /\ Ok(w, eol).consumed = eol
      BY <2>3, <3>1, ParsesAre, ZenonT(40)
    <3>3. QED
      BY <3>2, Zenon DEF w
  <2>7. ASSUME NEW x \in Text
        PROVE  parse_inline(b \o x) = Ok(Words(line), eol)
    <3> DEFINE c == b \o x
    <3>1. find_lf(c) = eol
      BY <1>1, <1>3, LfStays, Zenon DEF eol
    <3>2. SubSeq(c, 1, text) = line
      <4> HIDE DEF text
      <4>1. QED
        BY <2>3, SubStays, Zenon
    <3>3. eol > 1 => c[eol - 1] = b[eol - 1]
      <4>1. \A i \in 1 .. Len(b) : c[i] = b[i]
        BY JoinIs, Zenon
      <4>2. eol > 1 => eol - 1 \in 1 .. Len(b)
        BY <2>2
      <4>3. QED
        BY <4>1, <4>2, Zenon
    <3> HIDE DEF c
    <3>4. parse_inline(c) = Ok(Words(line), eol)
      BY <1>3, <3>1, <3>2, <3>3, Zenon DEF parse_inline
    <3>5. QED
      BY <3>4, Zenon DEF c
  <2>8. QED
    BY <2>1, <2>3, <2>6, <2>7, Zenon
<1>4. QED
  BY <1>2, <1>3, Zenon

(* The same of an array of bulk strings. *)
LEMMA MultibulkIs ==
  ASSUME Least, LimitsAssumption, NEW b \in Text
  PROVE  /\ parse_multibulk(b) \in Parses(b)
         /\ parse_multibulk(b).status = "ok" =>
              /\ parse_multibulk(b).consumed >= 1
              /\ \A x \in Text : parse_multibulk(b \o x) = parse_multibulk(b)
<1> DEFINE hdr == find_crlf(b, 1)
           argc == parse_ll(SubSeq(b, 2, hdr - 1))
           r == Bulks(b, hdr + 1)[Max(argc)]
<1>1. Len(b) \in Nat /\ RESP_MAX_ARGC \in Nat /\ 1 \in Nat \ {0} /\ 2 \in Nat \ {0} /\ 1 \in Nat
  BY DEF Text, LimitsAssumption
<1>2. CASE hdr = 0 \/ argc \cap 1 .. RESP_MAX_ARGC = {}
  <2>1. parse_multibulk(b) \in {Incomplete, Error}
    BY <1>2, ParsesAre, Zenon DEF parse_multibulk
  <2>2. QED
    BY <2>1, ParsesAre, ZenonT(40)
<1>3. CASE hdr # 0 /\ argc \cap 1 .. RESP_MAX_ARGC # {}
  <2>1. parse_multibulk(b) = r
    BY <1>3, Zenon DEF parse_multibulk
  <2>2. hdr \in 1 .. Len(b) - 1
    BY <1>1, <1>3, CrlfIs, Zenon
  <2>3. Max(argc) \in 1 .. RESP_MAX_ARGC
    BY <1>1, <1>3, LengthIs, Zenon
  <2> HIDE DEF hdr, argc
  <2>4. hdr + 1 \in 0 .. Len(b) /\ hdr - 1 \in 0 .. Len(b) /\ Max(argc) \in Nat /\ hdr + 1 >= 1
    BY <1>1, <2>2, <2>3
  <2>5. r \in Parses(b)
    BY <2>4, BulksAre, Zenon
  <2>6. ASSUME r.status = "ok"
        PROVE  r.consumed >= 1
    <3>1. <<>> \in Text
      BY DEF Text
    <3>2. r.consumed >= hdr + 1
      BY <2>4, <2>6, <3>1, BulksStay, Zenon
    <3>3. r.consumed \in Nat
      BY <2>5, ParsesNat, Zenon
    <3> HIDE DEF r
    <3>4. QED
      BY <1>1, <2>2, <3>2, <3>3
  <2>7. ASSUME r.status = "ok", NEW x \in Text
        PROVE  parse_multibulk(b \o x) = r
    <3> DEFINE c == b \o x
    <3>1. find_crlf(c, 1) = hdr
      BY <1>1, <1>3, CrlfStays, Zenon DEF hdr
    <3>2. SubSeq(c, 2, hdr - 1) = SubSeq(b, 2, hdr - 1)
      BY <1>1, <2>4, SubStays, Zenon
    <3>3. parse_ll(SubSeq(c, 2, hdr - 1)) = argc
      BY <3>2, Zenon DEF argc
    <3>4. Bulks(c, hdr + 1)[Max(argc)] = r
      BY <2>4, <2>7, BulksStay, ZenonT(40)
    <3> HIDE DEF c, r
    <3>5. parse_multibulk(c) = r
      BY <1>3, <3>1, <3>3, <3>4, Zenon DEF parse_multibulk
    <3>6. QED
      BY <3>5, Zenon DEF c
  <2>8. QED
    BY <2>1, <2>5, <2>6, <2>7, Zenon
<1>4. QED
  BY <1>2, <1>3, Zenon

(* resp_parse as a whole: a command is found once and for all.             *)
LEMMA ParseIs ==
  ASSUME RespFacts, LimitsAssumption, NEW b \in Text
  PROVE  /\ resp_parse(b) \in Parses(b)
         /\ resp_parse(b).status = "ok" =>
              /\ resp_parse(b).consumed >= 1
              /\ \A x \in Text : resp_parse(b \o x) = resp_parse(b)
<1>1. Least
  BY Zenon DEF RespFacts
<1>2. CASE b = <<>>
  BY <1>2, ParsesAre, Zenon DEF resp_parse
<1>3. CASE b # <<>>
  <2>1. ASSUME NEW x \in Text
        PROVE  b \o x # <<>> /\ (b \o x)[1] = b[1]
    BY <1>3 DEF Text
  <2>2. CASE b[1] = STAR
    BY <1>1, <1>3, <2>1, <2>2, MultibulkIs, Zenon DEF resp_parse
  <2>3. CASE b[1] # STAR
    BY <1>3, <2>1, <2>3, InlineIs, Zenon DEF resp_parse
  <2>4. QED
    BY <2>2, <2>3, Zenon
<1>4. QED
  BY <1>2, <1>3, Zenon

LEMMA TailIs ==
  ASSUME NEW s \in Text, NEW c \in 0 .. Len(s)
  PROVE  /\ SubSeq(s, c + 1, Len(s)) \in Text
         /\ Len(SubSeq(s, c + 1, Len(s))) = Len(s) - c
         /\ \A i \in 1 .. Len(SubSeq(s, c + 1, Len(s))) : SubSeq(s, c + 1, Len(s))[i] = s[c + i]
BY SMTT(30) DEF Text

LEMMA TailStays ==
  ASSUME NEW s \in Text, NEW t \in Text, NEW c \in 0 .. Len(s)
  PROVE  SubSeq(s \o t, c + 1, Len(s \o t)) = SubSeq(s, c + 1, Len(s)) \o t
<1> DEFINE a == SubSeq(s \o t, c + 1, Len(s \o t))
           d == SubSeq(s, c + 1, Len(s))
<1>1. Len(s) \in Nat /\ Len(t) \in Nat
  BY DEF Text
<1>2. /\ s \o t \in Text /\ Len(s \o t) = Len(s) + Len(t)
      /\ \A i \in 1 .. Len(s) : (s \o t)[i] = s[i]
      /\ \A i \in 1 .. Len(t) : (s \o t)[Len(s) + i] = t[i]
  BY JoinIs, Zenon
<1>3. /\ a \in Text /\ Len(a) = (Len(s) + Len(t)) - c
      /\ \A i \in 1 .. Len(a) : a[i] = (s \o t)[c + i]
  <2> DEFINE e == s \o t
  <2>1. e \in Text /\ c \in 0 .. Len(e) /\ Len(e) = Len(s) + Len(t)
    <3>1. e \in Text /\ Len(e) = Len(s) + Len(t)
      BY <1>2, Zenon
    <3> HIDE DEF e
    <3>2. QED
      BY <1>1, <3>1
  <2> HIDE DEF e
  <2>2. /\ SubSeq(e, c + 1, Len(e)) \in Text
        /\ Len(SubSeq(e, c + 1, Len(e))) = (Len(s) + Len(t)) - c
        /\ \A i \in 1 .. Len(SubSeq(e, c + 1, Len(e))) : SubSeq(e, c + 1, Len(e))[i] = e[c + i]
    BY <2>1, TailIs, Zenon
  <2>3. QED
    BY <2>2, Zenon DEF e
<1>4. /\ d \in Text /\ Len(d) = Len(s) - c
      /\ \A i \in 1 .. Len(d) : d[i] = s[c + i]
  BY TailIs, Zenon
<1> HIDE DEF a, d
<1>5. /\ d \o t \in Text /\ Len(d \o t) = Len(d) + Len(t)
      /\ \A i \in 1 .. Len(d) : (d \o t)[i] = d[i]
      /\ \A i \in 1 .. Len(t) : (d \o t)[Len(d) + i] = t[i]
  BY <1>4, JoinIs, Zenon
<1>6. ASSUME NEW i \in 1 .. Len(a)
      PROVE  a[i] = (d \o t)[i]
  <2>1. a[i] = (s \o t)[c + i]
    BY <1>3, Zenon
  <2>2. CASE i <= Len(d)
    <3>1. i \in 1 .. Len(d) /\ c + i \in 1 .. Len(s)
      BY <1>1, <1>4, <2>2
    <3>2. QED
      BY <1>2, <1>4, <1>5, <2>1, <3>1, Zenon
  <2>3. CASE i > Len(d)
    <3>1. /\ i - Len(d) \in 1 .. Len(t) /\ Len(d) + (i - Len(d)) = i
          /\ Len(s) + (i - Len(d)) = c + i
      BY <1>1, <1>3, <1>4, <2>3
    <3>2. QED
      BY <1>2, <1>5, <2>1, <3>1, ZenonT(40)
  <2>4. i <= Len(d) \/ i > Len(d)
    BY <1>1, <1>4
  <2>5. QED
    BY <2>2, <2>3, <2>4, Zenon
<1>7. a = d \o t
  <2>1. Len(a) = Len(d \o t)
    BY <1>1, <1>3, <1>4, <1>5
  <2> DEFINE e == d \o t
  <2>2. a \in Text /\ e \in Text /\ Len(a) = Len(e) /\ \A i \in 1 .. Len(a) : a[i] = e[i]
    BY <1>3, <1>5, <1>6, <2>1, Zenon
  <2> HIDE DEF e
  <2>3. a = e
    BY <2>2, SameText, Zenon
  <2>4. QED
    BY <2>3, Zenon DEF e
<1>8. QED
  BY <1>7, Zenon DEF a, d

Argvs == Seq(Text)

-----------------------------------------------------------------------------
(* A line end that only comes with more bytes lies behind those there are. *)
LEMMA CrlfBehind ==
  ASSUME Least, NEW b \in Text, NEW x \in Text, NEW from \in Nat \ {0},
         find_crlf(b, from) = 0, find_crlf(b \o x, from) # 0
  PROVE  Len(b) <= find_crlf(b \o x, from)
<1> DEFINE c == b \o x
           f == find_crlf(c, from)
<1>1. c \in Text /\ Len(c) = Len(b) + Len(x) /\ \A i \in 1 .. Len(b) : c[i] = b[i]
  BY JoinIs, Zenon
<1>2. Len(b) \in Nat /\ Len(x) \in Nat
  BY DEF Text
<1>3. /\ f \in from .. Len(c) - 1 /\ c[f] = CR /\ c[f + 1] = LF
      /\ \A j \in from .. f - 1 : ~(c[j] = CR /\ c[j + 1] = LF)
  BY <1>1, CrlfIs, Zenon
<1> HIDE DEF f, c
<1>4. ASSUME ~(Len(b) <= f)
      PROVE  FALSE
  <2>1. f \in from .. Len(b) - 1 /\ f \in 1 .. Len(b) /\ f + 1 \in 1 .. Len(b)
        /\ \A j \in from .. f - 1 : j \in 1 .. Len(b) /\ j + 1 \in 1 .. Len(b)
    BY <1>1, <1>2, <1>3, <1>4
  <2>2. /\ b[f] = CR /\ b[f + 1] = LF
        /\ \A j \in from .. f - 1 : ~(b[j] = CR /\ b[j + 1] = LF)
    BY <1>1, <1>3, <2>1, Zenon
  <2>3. find_crlf(b, from) = f
    BY <2>1, <2>2, CrlfSame, Zenon
  <2>4. f # 0
    BY <2>1
  <2>5. QED
    BY <2>3, <2>4, Zenon
<1>5. QED
  BY <1>4, Zenon DEF f, c

LEMMA LfBehind ==
  ASSUME Least, NEW b \in Text, NEW x \in Text, find_lf(b) = 0, find_lf(b \o x) # 0
  PROVE  Len(b) <= find_lf(b \o x) - 1
<1> DEFINE c == b \o x
           f == find_lf(c)
<1>1. c \in Text /\ Len(c) = Len(b) + Len(x) /\ \A i \in 1 .. Len(b) : c[i] = b[i]
  BY JoinIs, Zenon
<1>2. Len(b) \in Nat /\ Len(x) \in Nat
  BY DEF Text
<1>3. f \in 1 .. Len(c) /\ c[f] = LF /\ \A j \in 1 .. f - 1 : c[j] # LF
  BY <1>1, LfIs, Zenon
<1> HIDE DEF f, c
<1>4. ASSUME ~(Len(b) <= f - 1)
      PROVE  FALSE
  <2>1. f \in 1 .. Len(b) /\ \A j \in 1 .. f - 1 : j \in 1 .. Len(b)
    BY <1>1, <1>2, <1>3, <1>4
  <2>2. b[f] = LF /\ \A j \in 1 .. f - 1 : b[j] # LF
    BY <1>1, <1>3, <2>1, Zenon
  <2>3. find_lf(b) = f
    BY <2>1, <2>2, LfSame, Zenon
  <2>4. f # 0
    BY <2>1
  <2>5. QED
    BY <2>3, <2>4, Zenon
<1>5. QED
  BY <1>4, Zenon DEF f, c

LEMMA ShortWaits ==
  ASSUME NEW n \in Int, NEW m \in Int, LimitsAssumption, n <= m, m <= RESP_MAX_INLINE_LEN
  PROVE  NoLineEnd(n) = Incomplete
BY DEF NoLineEnd, LimitsAssumption

LEMMA HeaderPlaces ==
  ASSUME NEW total \in Nat, NEW n \in 0 .. total, NEW hdr \in n + 1 .. total - 1
  PROVE  hdr - 1 \in 0 .. total /\ n + 1 \in 1 .. total
OBVIOUS

(* An argument that is right once more bytes are there, and whose header   *)
(* is short, is not taken for an error before.                             *)
LEMMA BulkWaits ==
  ASSUME Least, LimitsAssumption, NEW b \in Text, NEW x \in Text, NEW p \in Parses(b),
         parse_bulk(b \o x, p).status = "ok",
         find_crlf(b \o x, p.consumed + 1) - p.consumed <= RESP_MAX_INLINE_LEN
  PROVE  parse_bulk(b, p).status # "error"
<1> DEFINE n == p.consumed
           c == b \o x
           hdr == find_crlf(c, n + 1)
           blen == parse_ll(SubSeq(c, n + 2, hdr - 1))
           last == hdr + 1 + Max(blen)
<1>1. /\ n \in 0 .. Len(b) /\ n \in Nat /\ Len(b) \in Nat /\ Len(x) \in Nat
      /\ n + 1 \in Nat \ {0} /\ n + 2 \in Nat \ {0} /\ RESP_MAX_BULK_LEN \in Nat
  BY SMTT(30) DEF Parses, Text, LimitsAssumption
<1>2. /\ \A k : NoLineEnd(k) \in {Incomplete, Error}
      /\ Incomplete.status # "ok" /\ Error.status # "ok"
  BY ParsesAre, ZenonT(40)
<1>3. /\ hdr # 0 /\ c[n + 1] = DOLLAR /\ blen \cap 0 .. RESP_MAX_BULK_LEN # {}
      /\ SubSeq(c, last + 1, last + 2) = CRLF
  <2>1. ASSUME \/ hdr = 0 \/ c[n + 1] # DOLLAR \/ blen \cap 0 .. RESP_MAX_BULK_LEN = {}
               \/ SubSeq(c, last + 1, last + 2) # CRLF
        PROVE  FALSE
    <3>1. parse_bulk(c, p) \in {Incomplete, Error}
      BY <1>2, <2>1, Zenon DEF parse_bulk
    <3>2. QED
      BY <1>2, <3>1, Zenon
  <2>2. QED
    BY <2>1, Zenon
<1>4. c \in Text /\ Len(c) = Len(b) + Len(x) /\ \A i \in 1 .. Len(b) : c[i] = b[i]
  BY JoinIs, Zenon
<1>5. Incomplete.status # "error" /\ \A argv, k : Ok(argv, k).status # "error"
  BY DEF Incomplete, Ok
<1>6. CASE find_crlf(b, n + 1) = 0
  <2>1. Len(b) <= hdr
    BY <1>1, <1>3, <1>6, CrlfBehind, Zenon
  <2>2. hdr \in n + 1 .. Len(c) - 1
    <3> HIDE DEF c
    <3>1. QED
      BY <1>1, <1>3, <1>4, CrlfIs, Zenon
  <2>3. hdr - n <= RESP_MAX_INLINE_LEN
    BY Zenon
  <2> HIDE DEF n, hdr, c
  <2>4. Len(b) - n \in Int /\ hdr - n \in Int /\ Len(b) - n <= hdr - n
    BY <1>1, <1>4, <2>1, <2>2
  <2>5. NoLineEnd(Len(b) - n) = Incomplete
    BY <2>3, <2>4, ShortWaits, Zenon
  <2>6. parse_bulk(b, p) = Incomplete
    BY <1>6, <2>5, Zenon DEF parse_bulk, n
  <2>7. QED
    BY <1>5, <2>6, Zenon
<1>7. CASE find_crlf(b, n + 1) # 0
  <2>1. find_crlf(b, n + 1) = hdr
    BY <1>1, <1>7, CrlfStays, Zenon
  <2>2. hdr \in n + 1 .. Len(b) - 1
    BY <1>1, <1>7, <2>1, CrlfIs, Zenon
  <2>3. Max(blen) \in 0 .. RESP_MAX_BULK_LEN
    <3>1. 0 \in Nat
      OBVIOUS
    <3>2. QED
      BY <1>1, <1>3, <3>1, LengthIs, Zenon
  <2> HIDE DEF blen, hdr, c
  <2>4. hdr - 1 \in 0 .. Len(b) /\ n + 1 \in 1 .. Len(b) /\ Max(blen) \in Nat
    <3>1. hdr - 1 \in 0 .. Len(b) /\ n + 1 \in 1 .. Len(b)
      BY <1>1, <2>2, HeaderPlaces, Zenon
    <3>2. Max(blen) \in Nat
      BY <1>1, <2>3
    <3>3. QED
      BY <3>1, <3>2, Zenon
  <2>5. b[n + 1] = DOLLAR
    BY <1>3, <1>4, <2>4, Zenon
  <2>6. SubSeq(c, n + 2, hdr - 1) = SubSeq(b, n + 2, hdr - 1)
    BY <1>1, <2>4, SubStays, ZenonT(40) DEF c
  <2>7. parse_ll(SubSeq(b, n + 2, hdr - 1)) = blen
    BY <2>6, Zenon DEF blen
  <2>8. CASE Len(b) < last + 2
    <3>1. parse_bulk(b, p) = Incomplete
      BY <1>3, <1>7, <2>1, <2>5, <2>7, <2>8, Zenon DEF parse_bulk
    <3>2. QED
      BY <1>5, <3>1, Zenon
  <2>9. CASE ~(Len(b) < last + 2)
    <3>1. last + 2 \in 0 .. Len(b) /\ last + 1 \in Nat \ {0}
      BY <1>1, <2>2, <2>4, <2>9, BulkPlaces, Zenon
    <3>2. SubSeq(b, last + 1, last + 2) = CRLF
      <4> HIDE DEF last
      <4>1. SubSeq(c, last + 1, last + 2) = SubSeq(b, last + 1, last + 2)
        BY <3>1, SubStays, Zenon DEF c
      <4>2. QED
        BY <1>3, <4>1, Zenon
    <3>3. parse_bulk(b, p) = Ok(Append(p.argv, SubSeq(b, hdr + 2, last)), last + 2)
      BY <1>3, <1>7, <2>1, <2>5, <2>7, <2>9, <3>2, Zenon DEF parse_bulk
    <3>4. QED
      BY <1>5, <3>3, Zenon
  <2>10. QED
    BY <2>8, <2>9, Zenon
<1>8. QED
  BY <1>6, <1>7, Zenon

(* Arguments that are whole were whole before the last of them.            *)
LEMMA BulksOk ==
  ASSUME Least, LimitsAssumption, NEW b \in Text, NEW n \in 0 .. Len(b),
         NEW k \in Nat, Bulks(b, n)[k].status = "ok"
  PROVE  \A j \in 0 .. k : Bulks(b, n)[j].status = "ok"
<1> DEFINE u == Bulks(b, n)
<1>1. \A i \in Nat : u[i + 1] = IF u[i].status = "ok" THEN parse_bulk(b, u[i]) ELSE u[i]
  BY BulksAre, Zenon
<1>2. u[k].status = "ok"
  OBVIOUS
<1> HIDE DEF u
<1>3. ASSUME NEW j \in 0 .. k, u[j].status # "ok"
      PROVE  FALSE
  <2> DEFINE S == {i \in Nat : u[j + i] = u[j]}
  <2>1. j \in Nat /\ k - j \in Nat /\ j + (k - j) = k
    OBVIOUS
  <2>2. 0 \in S
    BY <2>1
  <2>3. ASSUME NEW i \in S
        PROVE  i + 1 \in S
    <3>1. i \in Nat /\ i + 1 \in Nat /\ j + i \in Nat /\ (j + i) + 1 = j + (i + 1) /\ u[j + i] = u[j]
      BY <2>1
    <3>2. u[(j + i) + 1] = u[j]
      BY <1>1, <1>3, <3>1, Zenon
    <3>3. QED
      BY <3>1, <3>2, Zenon
  <2>4. S = Nat
    <3>1. S \in SUBSET Nat
      OBVIOUS
    <3> HIDE DEF S
    <3>2. QED
      BY <2>2, <2>3, <3>1, Induct, Zenon
  <2>5. u[j + (k - j)] = u[j]
    BY <2>1, <2>4, Zenon
  <2>6. QED
    BY <1>2, <1>3, <2>1, <2>5, Zenon
<1>4. QED
  BY <1>3, Zenon DEF u

LEMMA BulksWait ==
  ASSUME Least, LimitsAssumption, NEW b \in Text, NEW x \in Text, NEW n \in 0 .. Len(b),
         NEW k \in Nat, Bulks(b \o x, n)[k].status = "ok",
         \A i \in 0 .. k - 1 :
           find_crlf(b \o x, Bulks(b \o x, n)[i].consumed + 1) - Bulks(b \o x, n)[i].consumed
             <= RESP_MAX_INLINE_LEN
  PROVE  Bulks(b, n)[k].status # "error"
<1> DEFINE u == Bulks(b, n)
           c == b \o x
           w == Bulks(c, n)
           S == {j \in Nat : j <= k => u[j].status # "error"}
<1>1. n \in 0 .. Len(c) /\ c \in Text
  <2>1. b \o x \in Text /\ Len(b \o x) = Len(b) + Len(x)
    BY JoinIs, Zenon
  <2>2. Len(b) \in Nat /\ Len(x) \in Nat
    BY DEF Text
  <2>3. QED
    BY <2>1, <2>2
<1>2. /\ u[0] = Ok(<<>>, n) /\ \A j \in Nat : u[j] \in Parses(b)
      /\ \A j \in Nat : u[j + 1] = IF u[j].status = "ok" THEN parse_bulk(b, u[j]) ELSE u[j]
  BY BulksAre, Zenon
<1>3. \A j \in Nat : w[j + 1] = IF w[j].status = "ok" THEN parse_bulk(c, w[j]) ELSE w[j]
  <2> HIDE DEF c
  <2>1. QED
    BY <1>1, BulksAre, Zenon
<1>4. \A j \in 0 .. k : w[j].status = "ok"
  <2>1. w[k].status = "ok"
    BY Zenon
  <2> HIDE DEF c
  <2>2. QED
    BY <1>1, <2>1, BulksOk, Zenon
<1>5. \A j \in Nat : u[j].status = "ok" => w[j] = u[j]
  BY BulksStay, ZenonT(40)
<1>6. \A i \in 0 .. k - 1 : find_crlf(c, w[i].consumed + 1) - w[i].consumed <= RESP_MAX_INLINE_LEN
  BY Zenon
<1> HIDE DEF u, w
<1>7. 0 \in S
  <2>1. u[0].status # "error"
    BY <1>2 DEF Ok
  <2>2. 0 \in Nat
    OBVIOUS
  <2>3. QED
    BY <2>1, <2>2, Zenon
<1>8. ASSUME NEW j \in S
      PROVE  j + 1 \in S
  <2>1. j \in Nat /\ j + 1 \in Nat
    OBVIOUS
  <2>2. ASSUME j + 1 <= k
        PROVE  u[j + 1].status # "error"
    <3>1. j \in 0 .. k - 1 /\ j + 1 \in 0 .. k /\ j \in 0 .. k /\ j <= k
      BY <2>1, <2>2
    <3>2. CASE u[j].status # "ok"
      BY <1>2, <2>1, <3>1, <3>2, Zenon
    <3>3. CASE u[j].status = "ok"
      <4> DEFINE p == u[j]
      <4>1. w[j] = p /\ p \in Parses(b) /\ u[j + 1] = parse_bulk(b, p)
        BY <1>2, <1>5, <2>1, <3>3, Zenon
      <4>2. w[j + 1] = parse_bulk(c, p) /\ w[j + 1].status = "ok"
        BY <1>3, <1>4, <2>1, <3>1, <4>1, Zenon
      <4>3. find_crlf(c, p.consumed + 1) - p.consumed <= RESP_MAX_INLINE_LEN
        BY <1>6, <3>1, <4>1, Zenon
      <4> HIDE DEF p
      <4>4. parse_bulk(b, p).status # "error"
        BY <4>1, <4>2, <4>3, BulkWaits, Zenon
      <4>5. QED
        BY <4>1, <4>4, Zenon
    <3>4. QED
      BY <3>2, <3>3, Zenon
  <2>3. QED
    BY <2>1, <2>2, Zenon
<1>9. S = Nat
  <2>1. S \in SUBSET Nat
    OBVIOUS
  <2> HIDE DEF S
  <2>2. QED
    BY <1>7, <1>8, <2>1, Induct, Zenon
<1>10. k <= k
  OBVIOUS
<1>11. QED
  BY <1>9, <1>10, Zenon DEF u

(* Without a command the parser's result says no more than why.            *)
LEMMA ParseFails ==
  ASSUME Least, LimitsAssumption, NEW b \in Text, resp_parse(b).status # "ok"
  PROVE  resp_parse(b) \in {Incomplete, Error}
<1> DEFINE Bad == {Incomplete, Error}
<1>1. /\ \A n : NoLineEnd(n) \in Bad
      /\ \A argv, n : Ok(argv, n).status = "ok"
  <2>1. \A n : NoLineEnd(n) \in Bad
    BY Zenon DEF NoLineEnd
  <2>2. \A argv, n : Ok(argv, n).status = "ok"
    BY DEF Ok
  <2>3. QED
    BY <2>1, <2>2, Zenon
<1> HIDE DEF Bad
<1>2. Incomplete \in Bad /\ Error \in Bad
  BY DEF Bad
<1>3. \A p : parse_bulk(b, p).status = "ok" \/ parse_bulk(b, p) \in Bad
  BY <1>1, <1>2, Zenon DEF parse_bulk
<1>4. ASSUME NEW n \in 0 .. Len(b), NEW k \in Nat
      PROVE  Bulks(b, n)[k].status = "ok" \/ Bulks(b, n)[k] \in Bad
  <2> DEFINE u == Bulks(b, n)
             S == {i \in Nat : u[i].status = "ok" \/ u[i] \in Bad}
  <2>1. /\ u[0] = Ok(<<>>, n)
        /\ \A i \in Nat : u[i + 1] = IF u[i].status = "ok" THEN parse_bulk(b, u[i]) ELSE u[i]
    BY BulksAre, Zenon
  <2> HIDE DEF u
  <2>2. S \in SUBSET Nat /\ 0 \in Nat /\ \A i \in Nat : i + 1 \in Nat
    OBVIOUS
  <2>3. 0 \in S
    <3>1. u[0].status = "ok"
      BY <2>1 DEF Ok
    <3>2. QED
      BY <2>2, <3>1, Zenon
  <2>4. ASSUME NEW i \in S
        PROVE  i + 1 \in S
    <3>1. i \in Nat /\ i + 1 \in Nat /\ (u[i].status = "ok" \/ u[i] \in Bad)
      BY <2>2, Zenon
    <3> DEFINE p == u[i]
               q == u[i + 1]
    <3>2. q = IF p.status = "ok" THEN parse_bulk(b, p) ELSE p
      BY <2>1, <3>1, Zenon
    <3>3. q.status = "ok" \/ q \in Bad
      <4>1. p.status = "ok" \/ p \in Bad
        BY <3>1, Zenon
      <4> HIDE DEF p, q
      <4>2. QED
        BY <1>3, <3>2, <4>1, Zenon
    <3>4. QED
      BY <3>1, <3>3, Zenon
  <2>5. S = Nat
    <3> HIDE DEF S
    <3>1. QED
      BY <2>2, <2>3, <2>4, Induct, Zenon
  <2>6. QED
    BY <2>5, Zenon DEF u
<1>5. parse_inline(b).status = "ok" \/ parse_inline(b) \in Bad
  BY <1>1, Zenon DEF parse_inline
<1>6. parse_multibulk(b).status = "ok" \/ parse_multibulk(b) \in Bad
  <2> DEFINE hdr == find_crlf(b, 1)
             argc == parse_ll(SubSeq(b, 2, hdr - 1))
  <2>1. CASE hdr = 0 \/ argc \cap 1 .. RESP_MAX_ARGC = {}
    BY <1>1, <1>2, <2>1, Zenon DEF parse_multibulk
  <2>2. CASE hdr # 0 /\ argc \cap 1 .. RESP_MAX_ARGC # {}
    <3>1. Len(b) \in Nat /\ RESP_MAX_ARGC \in Nat /\ 1 \in Nat \ {0} /\ 1 \in Nat
      BY DEF Text, LimitsAssumption
    <3>2. hdr \in 1 .. Len(b) - 1
      BY <2>2, <3>1, CrlfIs, Zenon
    <3>3. Max(argc) \in 1 .. RESP_MAX_ARGC
      BY <2>2, <3>1, LengthIs, Zenon
    <3>4. parse_multibulk(b) = Bulks(b, hdr + 1)[Max(argc)]
      BY <2>2, Zenon DEF parse_multibulk
    <3> HIDE DEF hdr, argc
    <3>5. hdr + 1 \in 0 .. Len(b) /\ Max(argc) \in Nat
      BY <3>1, <3>2, <3>3
    <3>6. QED
      BY <1>4, <3>4, <3>5, Zenon
  <2>3. QED
    BY <2>1, <2>2, Zenon
<1>7. resp_parse(b) \in Bad
  BY <1>2, <1>5, <1>6, Zenon DEF resp_parse
<1>8. QED
  BY <1>7, Zenon DEF Bad

(* Bytes that more bytes make a command, with short lines, are no error.   *)
LEMMA InlineWaits ==
  ASSUME Least, LimitsAssumption, NEW b \in Text, NEW x \in Text, b # <<>>, b[1] # STAR,
         parse_inline(b \o x).status = "ok", find_lf(b \o x) - 1 <= RESP_MAX_INLINE_LEN
  PROVE  parse_inline(b).status # "error"
<1>1. /\ \A n : NoLineEnd(n).status # "ok"
      /\ Incomplete.status # "error" /\ \A argv, n : Ok(argv, n).status # "error"
  BY DEF NoLineEnd, Incomplete, Error, Ok
<1>2. CASE find_lf(b) # 0
  BY <1>1, <1>2, Zenon DEF parse_inline
<1>3. CASE find_lf(b) = 0
  <2> DEFINE c == b \o x
             f == find_lf(c)
  <2>1. f # 0
    BY <1>1, Zenon DEF parse_inline
  <2>2. Len(b) <= f - 1
    BY <1>3, <2>1, LfBehind, Zenon
  <2>3. c \in Text
    BY JoinIs, Zenon
  <2>4. f \in 1 .. Len(c)
    <3> HIDE DEF c
    <3>1. QED
      BY <2>1, <2>3, LfIs, Zenon
  <2>5. f - 1 <= RESP_MAX_INLINE_LEN
    BY Zenon
  <2> HIDE DEF c, f
  <2>6. Len(b) \in Int /\ f - 1 \in Int
    BY <2>4 DEF Text
  <2>7. NoLineEnd(Len(b)) = Incomplete
    BY <2>2, <2>5, <2>6, ShortWaits, Zenon
  <2>8. QED
    BY <1>1, <1>3, <2>7, Zenon DEF parse_inline
<1>4. QED
  BY <1>2, <1>3, Zenon

LEMMA MultibulkWaits ==
  ASSUME Least, LimitsAssumption, NEW b \in Text, NEW x \in Text,
         b # <<>>, b[1] = STAR, (b \o x)[1] = STAR,
         parse_multibulk(b \o x).status = "ok", ShortLines(b \o x)
  PROVE  parse_multibulk(b).status # "error"
<1> DEFINE c == b \o x
           hdr == find_crlf(c, 1)
           argc == parse_ll(SubSeq(c, 2, hdr - 1))
           u == Bulks(c, hdr + 1)
<1>1. /\ \A n : NoLineEnd(n).status # "ok"
      /\ Incomplete.status # "error" /\ Error.status # "ok"
  BY DEF NoLineEnd, Incomplete, Error
<1>2. hdr # 0 /\ argc \cap 1 .. RESP_MAX_ARGC # {}
  <2>1. ASSUME hdr = 0 \/ argc \cap 1 .. RESP_MAX_ARGC = {}
        PROVE  FALSE
    BY <1>1, <2>1, Zenon DEF parse_multibulk
  <2>2. QED
    BY <2>1, Zenon
<1>3. parse_multibulk(c) = u[Max(argc)]
  BY <1>2, Zenon DEF parse_multibulk
<1>4. /\ hdr <= RESP_MAX_INLINE_LEN
      /\ \A i \in 0 .. Max(argc) - 1 :
           find_crlf(c, u[i].consumed + 1) - u[i].consumed <= RESP_MAX_INLINE_LEN
  BY Zenon DEF ShortLines
<1>5. /\ Len(b) \in Nat /\ RESP_MAX_ARGC \in Nat /\ 1 \in Nat \ {0} /\ 1 \in Nat
      /\ 2 \in Nat \ {0}
  BY DEF Text, LimitsAssumption
<1>6. c \in Text
  BY JoinIs, Zenon
<1>7. CASE find_crlf(b, 1) = 0
  <2>1. Len(b) <= hdr
    BY <1>2, <1>5, <1>7, CrlfBehind, Zenon
  <2>2. hdr \in 1 .. Len(c) - 1
    <3> HIDE DEF c
    <3>1. QED
      BY <1>2, <1>5, <1>6, CrlfIs, Zenon
  <2> HIDE DEF hdr, c
  <2>3. hdr \in Int /\ Len(b) \in Int
    BY <1>5, <2>2
  <2>4. NoLineEnd(Len(b)) = Incomplete
    BY <1>4, <2>1, <2>3, ShortWaits, Zenon
  <2>5. QED
    BY <1>1, <1>7, <2>4, Zenon DEF parse_multibulk
<1>8. CASE find_crlf(b, 1) # 0
  <2>1. find_crlf(b, 1) = hdr
    BY <1>5, <1>8, CrlfStays, Zenon
  <2>2. hdr \in 1 .. Len(b) - 1
    BY <1>5, <1>8, <2>1, CrlfIs, Zenon
  <2>3. Max(argc) \in 1 .. RESP_MAX_ARGC
    BY <1>2, <1>5, LengthIs, Zenon
  <2> HIDE DEF hdr, argc
  <2>4. hdr + 1 \in 0 .. Len(b) /\ hdr - 1 \in 0 .. Len(b) /\ Max(argc) \in Nat
    BY <1>5, <2>2, <2>3
  <2>5. SubSeq(c, 2, hdr - 1) = SubSeq(b, 2, hdr - 1)
    BY <1>5, <2>4, SubStays, ZenonT(40)
  <2>6. parse_ll(SubSeq(b, 2, hdr - 1)) = argc
    BY <2>5, Zenon DEF argc
  <2>7. parse_multibulk(b) = Bulks(b, hdr + 1)[Max(argc)]
    BY <1>2, <1>8, <2>1, <2>6, Zenon DEF parse_multibulk
  <2>8. u[Max(argc)].status = "ok"
    BY <1>3, Zenon
  <2>9. Bulks(b, hdr + 1)[Max(argc)].status # "error"
    BY <1>4, <2>4, <2>8, BulksWait, Zenon
  <2>10. QED
    BY <2>7, <2>9, Zenon
<1>9. QED
  BY <1>7, <1>8, Zenon

(* The parser's contract on prefixes: with short lines a command's bytes   *)
(* are incomplete up to the last one, and whatever its lines none of its   *)
(* prefixes is a command.                                                  *)
LEMMA NoneShorter ==
  ASSUME RespFacts, LimitsAssumption, NEW b \in Text, NEW x \in Text,
         resp_parse(b \o x).consumed > Len(b)
  PROVE  resp_parse(b).status # "ok"
<1>1. ASSUME resp_parse(b).status = "ok"
      PROVE  FALSE
  <2>1. resp_parse(b) \in Parses(b) /\ resp_parse(b \o x) = resp_parse(b)
    BY <1>1, ParseIs, ZenonT(40)
  <2> DEFINE r == resp_parse(b)
  <2>2. r \in Parses(b) /\ r.consumed > Len(b)
    BY <2>1, Zenon
  <2> HIDE DEF r
  <2>3. r.consumed \in 0 .. Len(b) /\ Len(b) \in Nat
    BY <2>2 DEF Parses, Text
  <2>4. QED
    BY <2>2, <2>3
<1>2. QED
  BY <1>1, Zenon

LEMMA ParseWaits ==
  ASSUME RespFacts, LimitsAssumption, NEW b \in Text, NEW x \in Text,
         resp_parse(b \o x).status = "ok", ShortLines(b \o x),
         resp_parse(b \o x).consumed > Len(b)
  PROVE  resp_parse(b) = Incomplete
<1>1. Least
  BY Zenon DEF RespFacts
<1>2. resp_parse(b).status # "ok"
  BY NoneShorter, Zenon
<1>3. resp_parse(b) \in {Incomplete, Error}
  BY <1>1, <1>2, ParseFails, Zenon
<1>4. resp_parse(b).status # "error"
  <2>1. Incomplete.status # "error"
    BY DEF Incomplete
  <2>2. CASE b = <<>>
    BY <2>1, <2>2, Zenon DEF resp_parse
  <2>3. CASE b # <<>>
    <3>1. b \o x # <<>> /\ (b \o x)[1] = b[1]
      BY <2>3 DEF Text
    <3>2. CASE b[1] = STAR
      <4>1. parse_multibulk(b \o x).status = "ok" /\ resp_parse(b) = parse_multibulk(b)
        BY <2>3, <3>1, <3>2, Zenon DEF resp_parse
      <4>2. (b \o x)[1] = STAR
        BY <3>1, <3>2, Zenon
      <4>3. parse_multibulk(b).status # "error"
        BY <1>1, <2>3, <3>2, <4>1, <4>2, MultibulkWaits, Zenon
      <4>4. QED
        BY <4>1, <4>3, Zenon
    <3>3. CASE b[1] # STAR
      <4>1. parse_inline(b \o x).status = "ok" /\ resp_parse(b) = parse_inline(b)
        BY <2>3, <3>1, <3>3, Zenon DEF resp_parse
      <4>2. find_lf(b \o x) - 1 <= RESP_MAX_INLINE_LEN
        BY <3>1, <3>3, Zenon DEF ShortLines
      <4>3. parse_inline(b).status # "error"
        BY <1>1, <2>3, <3>3, <4>1, <4>2, InlineWaits, Zenon
      <4>4. QED
        BY <4>1, <4>3, Zenon
    <3>4. QED
      BY <3>2, <3>3, Zenon
  <2>4. QED
    BY <2>2, <2>3, Zenon
<1>5. Error.status = "error"
  BY DEF Error
<1>6. QED
  BY <1>3, <1>4, <1>5, Zenon

(* A byte string in two parts. *)
LEMMA TwoParts ==
  ASSUME NEW s \in Text, NEW n \in 0 .. Len(s)
  PROVE  /\ SubSeq(s, 1, n) \in Text /\ SubSeq(s, n + 1, Len(s)) \in Text
         /\ Len(SubSeq(s, 1, n)) = n
         /\ s = SubSeq(s, 1, n) \o SubSeq(s, n + 1, Len(s))
<1> DEFINE a == SubSeq(s, 1, n)
           d == SubSeq(s, n + 1, Len(s))
           e == a \o d
<1>1. a \in Text /\ Len(a) = n /\ \A i \in 1 .. n : a[i] = s[i]
  BY DEF Text
<1>2. d \in Text /\ Len(d) = Len(s) - n /\ \A i \in 1 .. Len(d) : d[i] = s[n + i]
  BY TailIs, Zenon
<1>3. Len(s) \in Nat
  BY DEF Text
<1> HIDE DEF a, d
<1>4. /\ e \in Text /\ Len(e) = Len(a) + Len(d)
      /\ \A i \in 1 .. Len(a) : e[i] = a[i]
      /\ \A i \in 1 .. Len(d) : e[Len(a) + i] = d[i]
  BY <1>1, <1>2, JoinIs, Zenon
<1> HIDE DEF e
<1>5. Len(s) = Len(e)
  BY <1>1, <1>2, <1>3, <1>4
<1>6. ASSUME NEW i \in 1 .. Len(s)
      PROVE  s[i] = e[i]
  <2>1. CASE i <= n
    <3>1. i \in 1 .. n
      BY <1>3, <2>1
    <3>2. QED
      BY <1>1, <1>4, <3>1, Zenon
  <2>2. CASE i > n
    <3>1. i - n \in 1 .. Len(d) /\ n + (i - n) = i
      BY <1>2, <1>3, <2>2
    <3> DEFINE k == i - n
    <3>2. e[n + k] = d[k] /\ d[k] = s[n + k]
      BY <1>1, <1>2, <1>4, <3>1, Zenon
    <3>3. QED
      BY <3>1, <3>2, Zenon
  <2>3. i <= n \/ i > n
    BY <1>3
  <2>4. QED
    BY <2>1, <2>2, <2>3, Zenon
<1>7. s = e
  BY <1>4, <1>5, <1>6, SameText, Zenon
<1>8. QED
  BY <1>1, <1>2, <1>7, Zenon DEF a, d, e

(* So PrefixesIncomplete holds of any bytes, if the command has short      *)
(* lines.                                                                  *)
LEMMA PrefixesAre ==
  ASSUME RespFacts, LimitsAssumption, NEW all \in Text, resp_parse(all).status = "ok",
         NEW n \in 0 .. resp_parse(all).consumed - 1
  PROVE  /\ resp_parse(SubSeq(all, 1, n)).status # "ok"
         /\ ShortLines(all) => resp_parse(SubSeq(all, 1, n)) = Incomplete
<1> DEFINE r == resp_parse(all)
           b == SubSeq(all, 1, n)
           x == SubSeq(all, n + 1, Len(all))
<1>1. r \in Parses(all)
  BY ParseIs, Zenon
<1>2. n \in 0 .. Len(all) /\ r.consumed > n
  <2> HIDE DEF r
  <2>1. r.consumed \in 0 .. Len(all) /\ Len(all) \in Nat
    BY <1>1 DEF Parses, Text
  <2>2. n \in 0 .. r.consumed - 1
    BY Zenon DEF r
  <2>3. QED
    BY <2>1, <2>2
<1>3. b \in Text /\ x \in Text /\ Len(b) = n /\ all = b \o x
  BY <1>2, TwoParts, Zenon
<1> HIDE DEF b, x
<1>4. resp_parse(b \o x).consumed > Len(b) /\ resp_parse(b \o x).status = "ok"
  BY <1>2, <1>3, Zenon
<1>5. resp_parse(b).status # "ok"
  BY <1>3, <1>4, NoneShorter, Zenon
<1>6. ASSUME ShortLines(all)
      PROVE  resp_parse(b) = Incomplete
  <2>1. ShortLines(b \o x)
    BY <1>3, <1>6, Zenon
  <2>2. QED
    BY <1>3, <1>4, <2>1, ParseWaits, Zenon
<1>7. QED
  BY <1>5, <1>6, Zenon DEF b

-----------------------------------------------------------------------------
(* Parts of byte strings, byte by byte.                                    *)
LEMMA FrontOf ==
  ASSUME NEW t \in Text, NEW y \in Text, Len(y) <= Len(t), \A k \in 1 .. Len(y) : t[k] = y[k]
  PROVE  t = y \o SubSeq(t, Len(y) + 1, Len(t)) /\ SubSeq(t, Len(y) + 1, Len(t)) \in Text
<1>1. Len(y) \in Nat /\ Len(t) \in Nat
  BY DEF Text
<1> DEFINE n == Len(y)
           a == SubSeq(t, 1, n)
<1>2. n \in 0 .. Len(t) /\ 1 \in Nat \ {0}
  BY <1>1
<1>3. n \in Nat
  BY <1>1
<1> HIDE DEF n
<1>4. /\ a \in Text /\ Len(a) = n /\ t = a \o SubSeq(t, n + 1, Len(t))
      /\ SubSeq(t, n + 1, Len(t)) \in Text
  BY <1>2, TwoParts, Zenon
<1>5. \A k \in 1 .. n : a[k] = t[k]
  <2>1. \A k \in 1 .. n - 1 + 1 : a[k] = t[1 + k - 1]
    BY <1>2, SubIs, Zenon
  <2> HIDE DEF a
  <2>2. \A k \in 1 .. n : k \in 1 .. n - 1 + 1 /\ 1 + k - 1 = k
    BY <1>3
  <2>3. QED
    BY <2>1, <2>2, Zenon
<1> HIDE DEF a
<1>6. a = y
  <2>1. \A k \in 1 .. Len(a) : a[k] = y[k]
    BY <1>4, <1>5, Zenon DEF n
  <2>2. Len(a) = Len(y)
    BY <1>4, Zenon DEF n
  <2>3. QED
    BY <1>4, <2>1, <2>2, SameText, Zenon
<1>7. QED
  BY <1>4, <1>6, Zenon DEF n

LEMMA PartOf ==
  ASSUME NEW t \in Text, NEW y \in Text, Len(t) <= Len(y), \A k \in 1 .. Len(t) : t[k] = y[k]
  PROVE  t = SubSeq(y, 1, Len(t))
<1>1. Len(y) \in Nat /\ Len(t) \in Nat
  BY DEF Text
<1> DEFINE n == Len(t)
           a == SubSeq(y, 1, n)
<1>2. n \in 0 .. Len(y) /\ 1 \in Nat \ {0} /\ n \in Nat
  BY <1>1
<1> HIDE DEF n
<1>3. a \in Text /\ Len(a) = n
  BY <1>2, TwoParts, Zenon
<1>4. \A k \in 1 .. n : a[k] = y[k]
  <2>1. \A k \in 1 .. n - 1 + 1 : a[k] = y[1 + k - 1]
    BY <1>2, SubIs, Zenon
  <2> HIDE DEF a
  <2>2. \A k \in 1 .. n : k \in 1 .. n - 1 + 1 /\ 1 + k - 1 = k
    BY <1>2
  <2>3. QED
    BY <2>1, <2>2, Zenon
<1> HIDE DEF a
<1>5. t = a
  <2>1. Len(t) = Len(a) /\ \A k \in 1 .. Len(t) : t[k] = a[k]
    BY <1>3, <1>4, Zenon DEF n
  <2>2. QED
    BY <1>3, <2>1, SameText, Zenon
<1>6. QED
  BY <1>5, Zenon DEF a, n

LEMMA TailOfTail ==
  ASSUME NEW s \in Text, NEW m \in 0 .. Len(s), NEW c \in Nat, m + c <= Len(s)
  PROVE  LET t == SubSeq(s, m + 1, Len(s))
         IN  SubSeq(t, c + 1, Len(t)) = SubSeq(s, m + c + 1, Len(s))
<1> DEFINE t == SubSeq(s, m + 1, Len(s))
           n == m + c
<1>1. Len(s) \in Nat
  BY DEF Text
<1>2. t \in Text /\ Len(t) = Len(s) - m /\ \A i \in 1 .. Len(t) : t[i] = s[m + i]
  BY TailIs, Zenon
<1> DEFINE a == SubSeq(t, c + 1, Len(t))
           d == SubSeq(s, n + 1, Len(s))
<1> HIDE DEF t
<1>3. c \in 0 .. Len(t) /\ n \in 0 .. Len(s)
  BY <1>1, <1>2
<1>4. d \in Text /\ Len(d) = Len(s) - n /\ \A i \in 1 .. Len(d) : d[i] = s[n + i]
  BY <1>3, TailIs, Zenon
<1>5. a \in Text /\ Len(a) = Len(t) - c /\ \A i \in 1 .. Len(a) : a[i] = t[c + i]
  BY <1>2, <1>3, TailIs, Zenon
<1> HIDE DEF a, d
<1>6. Len(a) = Len(d)
  BY <1>1, <1>2, <1>3, <1>4, <1>5
<1>7. ASSUME NEW i \in 1 .. Len(a)
      PROVE  a[i] = d[i]
  <2>1. c + i \in 1 .. Len(t) /\ m + (c + i) = n + i /\ i \in 1 .. Len(d)
    BY <1>1, <1>2, <1>3, <1>5, <1>6
  <2>2. a[i] = t[c + i] /\ t[c + i] = s[m + (c + i)] /\ d[i] = s[n + i]
    BY <1>2, <1>4, <1>5, <2>1, Zenon
  <2>3. QED
    BY <2>1, <2>2, Zenon
<1>8. a = d
  BY <1>4, <1>5, <1>6, <1>7, SameText, Zenon
<1>9. QED
  BY <1>8, Zenon DEF a, d, t

LEMMA JoinOfJoins ==
  ASSUME NEW s \in Text, NEW t \in Text, NEW y \in Text
  PROVE  (s \o t) \o y = s \o (t \o y)
BY DEF Text

-----------------------------------------------------------------------------
(* The replies of one connection, one after the other.                     *)
FlatBody(f, seqs) ==
  [i \in 1 .. Len(seqs) |-> IF i = 1 THEN seqs[i] ELSE f[i - 1] \o seqs[i]]

LEMMA FlattenIs ==
  ASSUME NEW seqs, seqs # <<>>, NEW h, h = FlatBody(h, seqs)
  PROVE  \E f : f = FlatBody(f, seqs) /\ Concat(seqs) = f[Len(seqs)]
BY Zenon DEF Concat, FlatBody

LEMMA FlatExists ==
  ASSUME Least, NEW seqs \in Seq(Text), Len(seqs) # 0
  PROVE  \E h : h = FlatBody(h, seqs)
<1> DEFINE N == Len(seqs)
           P == [at : Nat, acc : Text]
           c == [at |-> 0, acc |-> <<>>]
           Put(p) == [at |-> p.at + 1,
                      acc |-> IF p.at + 1 \in 1 .. N THEN p.acc \o seqs[p.at + 1] ELSE <<>>]
           g == [p \in P |-> Put(p)]
<1>1. N \in Nat /\ \A i \in 1 .. N : seqs[i] \in Text
  OBVIOUS
<1>2. <<>> \in Text /\ \A t \in Text : <<>> \o t = t
  BY DEF Text
<1> HIDE DEF N
<1>3. c \in P
  BY <1>2
<1>4. ASSUME NEW p \in P
      PROVE  Put(p) \in P
  <2> DEFINE k == p.at + 1
             a == IF k \in 1 .. N THEN p.acc \o seqs[k] ELSE <<>>
  <2>1. p.at \in Nat /\ p.acc \in Text
    OBVIOUS
  <2>2. k \in Nat
    BY <2>1
  <2>3. a \in Text
    <3> HIDE DEF k
    <3>1. QED
      BY <1>1, <1>2, <2>1, JoinIs, Zenon
  <2> HIDE DEF k, a
  <2>4. [at |-> k, acc |-> a] \in P
    BY <2>2, <2>3
  <2>5. QED
    BY <2>4, Zenon DEF k, a
<1>5. PICK f : RoundsOf(f, P, c, g)
  <2>1. g \in [P -> P]
    <3> HIDE DEF Put, P
    <3>1. QED
      BY <1>4, Zenon
  <2>2. LoopOver(P, c, g)
    BY <1>3, <2>1, Zenon DEF LoopOver
  <2> HIDE DEF P, c, g
  <2>3. QED
    BY <2>2, RoundsExist, Zenon
<1>6. f[0] = c /\ \A i \in Nat : f[i] \in P /\ f[i + 1] = Put(f[i])
  <2> HIDE DEF Put, c, P
  <2>1. QED
    BY <1>5, Zenon DEF RoundsOf
<1>7. \A i \in Nat : f[i].at = i
  <2> DEFINE S == {i \in Nat : f[i].at = i}
  <2>1. 0 \in S
    BY <1>6
  <2>2. ASSUME NEW i \in S
        PROVE  i + 1 \in S
    <3>1. i \in Nat /\ i + 1 \in Nat /\ f[i].at = i /\ f[i + 1] = Put(f[i])
      <4>1. i \in Nat /\ i + 1 \in Nat /\ f[i].at = i
        OBVIOUS
      <4>2. QED
        BY <1>6, <4>1, Zenon
    <3>2. Put(f[i]).at = f[i].at + 1
      OBVIOUS
    <3>3. QED
      BY <3>1, <3>2, Zenon
  <2>3. S \in SUBSET Nat
    OBVIOUS
  <2>4. S = Nat
    <3> HIDE DEF S
    <3>1. QED
      BY <2>1, <2>2, <2>3, Induct, Zenon
  <2>5. QED
    BY <2>4, Zenon
<1> DEFINE h == [i \in 1 .. N |-> f[i].acc]
<1>8. ASSUME NEW i \in 1 .. N
      PROVE  h[i] = IF i = 1 THEN seqs[i] ELSE h[i - 1] \o seqs[i]
  <2>1. i - 1 \in Nat /\ (i - 1) + 1 = i /\ (i # 1 => i - 1 \in 1 .. N) /\ (i = 1 => i - 1 = 0)
    BY <1>1
  <2> DEFINE p == f[i - 1]
  <2>2. f[i] = Put(p) /\ p.at + 1 = i
    <3>1. f[(i - 1) + 1] = Put(p) /\ p.at = i - 1
      BY <1>6, <1>7, <2>1, Zenon
    <3>2. QED
      BY <2>1, <3>1, Zenon
  <2>3. Put(p).acc = IF p.at + 1 \in 1 .. N THEN p.acc \o seqs[p.at + 1] ELSE <<>>
    OBVIOUS
  <2> HIDE DEF Put
  <2>4. f[i].acc = p.acc \o seqs[i]
    BY <2>2, <2>3, Zenon
  <2>5. CASE i = 1
    <3>1. p.acc = <<>>
      <4>1. c.acc = <<>>
        OBVIOUS
      <4> HIDE DEF c
      <4>2. QED
        BY <1>6, <2>1, <2>5, <4>1, Zenon
    <3>2. QED
      BY <1>1, <1>2, <2>4, <2>5, <3>1, Zenon
  <2>6. CASE i # 1
    BY <2>1, <2>4, <2>6, Zenon
  <2>7. QED
    BY <2>5, <2>6, Zenon
<1>9. h = FlatBody(h, seqs)
  BY <1>8, Zenon DEF FlatBody, N
<1>10. QED
  BY <1>9, Zenon

LEMMA FlatAt ==
  ASSUME NEW seqs, NEW f, NEW k \in Nat \ {0}, k + 1 \in 1 .. Len(seqs)
  PROVE  FlatBody(f, seqs)[k + 1] = f[k] \o seqs[k + 1]
<1> DEFINE j == k + 1
<1>1. j # 1 /\ j - 1 = k /\ j \in 1 .. Len(seqs)
  OBVIOUS
<1> HIDE DEF j
<1>2. FlatBody(f, seqs)[j] = IF j = 1 THEN seqs[j] ELSE f[j - 1] \o seqs[j]
  BY <1>1, Zenon DEF FlatBody
<1>3. FlatBody(f, seqs)[j] = f[k] \o seqs[j]
  BY <1>1, <1>2, Zenon
<1>4. QED
  BY <1>3, Zenon DEF j

LEMMA FlatNext ==
  ASSUME NEW seqs, NEW f, f = FlatBody(f, seqs), NEW k \in Nat \ {0}, k + 1 \in 1 .. Len(seqs)
  PROVE  f[k + 1] = f[k] \o seqs[k + 1]
BY FlatAt, Zenon

-----------------------------------------------------------------------------
(* The servers' loop: what it holds between two rounds, and a round of it. *)
Loops == [cmds : Seq(Seq(Text)), rest : Text, failed : BOOLEAN, more : BOOLEAN]

Start(b) == [cmds |-> <<>>, rest |-> b, failed |-> FALSE, more |-> TRUE]

Step(p) == IF p.more THEN Round(p) ELSE p

LEMMA RoundIs ==
  ASSUME RespFacts, LimitsAssumption, NEW p \in Loops
  PROVE  LET r == resp_parse(p.rest)
         IN  /\ Round(p) \in Loops
             /\ r.status = "ok" =>
                  /\ Round(p).cmds = Append(p.cmds, r.argv)
                  /\ Round(p).rest = SubSeq(p.rest, r.consumed + 1, Len(p.rest))
                  /\ Round(p).failed = p.failed /\ Round(p).more = p.more
             /\ r.status # "ok" =>
                  /\ Round(p).cmds = p.cmds /\ Round(p).rest = p.rest
                  /\ Round(p).failed = (r.status = "error") /\ Round(p).more = FALSE
<1> DEFINE r == resp_parse(p.rest)
<1>1. p.rest \in Text /\ p.cmds \in Seq(Seq(Text)) /\ p.failed \in BOOLEAN /\ p.more \in BOOLEAN
  BY DEF Loops
<1>2. r \in Parses(p.rest)
  BY <1>1, ParseIs, Zenon
<1>3. r.argv \in Seq(Text) /\ r.consumed \in 0 .. Len(p.rest) /\ Len(p.rest) \in Nat
  <2> HIDE DEF r
  <2>1. r.argv \in Seq(Text) /\ r.consumed \in 0 .. Len(p.rest)
    BY <1>2 DEF Parses
  <2>2. Len(p.rest) \in Nat
    BY <1>1 DEF Text
  <2>3. QED
    BY <2>1, <2>2
<1>4. CASE r.status = "ok"
  <2> DEFINE q == Append(p.cmds, r.argv)
             t == SubSeq(p.rest, r.consumed + 1, Len(p.rest))
  <2>1. Round(p) = [p EXCEPT !.cmds = q, !.rest = t]
    BY <1>4, Zenon DEF Round, conn_in_consume
  <2>2. q \in Seq(Seq(Text))
    <3> HIDE DEF r
    <3>1. QED
      BY <1>1, <1>3
  <2>3. t \in Text
    <3> HIDE DEF r
    <3>1. r.consumed + 1 \in Nat \ {0} /\ Len(p.rest) \in 0 .. Len(p.rest)
      BY <1>3
    <3>2. QED
      BY <1>1, <3>1, SubIs, Zenon
  <2> HIDE DEF q, t, r
  <2>4. /\ [p EXCEPT !.cmds = q, !.rest = t] \in Loops
        /\ [p EXCEPT !.cmds = q, !.rest = t].cmds = q
        /\ [p EXCEPT !.cmds = q, !.rest = t].rest = t
        /\ [p EXCEPT !.cmds = q, !.rest = t].failed = p.failed
        /\ [p EXCEPT !.cmds = q, !.rest = t].more = p.more
    BY <2>2, <2>3, Zenon DEF Loops
  <2>5. QED
    BY <1>4, <2>1, <2>4, Zenon DEF q, t, r
<1>5. CASE r.status # "ok"
  <2> DEFINE e == (r.status = "error")
  <2>1. Round(p) = [p EXCEPT !.more = FALSE, !.failed = e]
    BY <1>5, Zenon DEF Round
  <2>2. e \in BOOLEAN
    OBVIOUS
  <2> HIDE DEF e, r
  <2>3. /\ [p EXCEPT !.more = FALSE, !.failed = e] \in Loops
        /\ [p EXCEPT !.more = FALSE, !.failed = e].cmds = p.cmds
        /\ [p EXCEPT !.more = FALSE, !.failed = e].rest = p.rest
        /\ [p EXCEPT !.more = FALSE, !.failed = e].failed = e
        /\ [p EXCEPT !.more = FALSE, !.failed = e].more = FALSE
    BY <2>2, Zenon DEF Loops
  <2>4. QED
    BY <1>5, <2>1, <2>3, Zenon DEF e, r
<1>6. QED
  BY <1>4, <1>5, Zenon

LEMMA RoundOk ==
  ASSUME RespFacts, LimitsAssumption, NEW p \in Loops, NEW r, r = resp_parse(p.rest),
         r.status = "ok"
  PROVE  /\ Round(p).cmds = Append(p.cmds, r.argv)
         /\ Round(p).rest = SubSeq(p.rest, r.consumed + 1, Len(p.rest))
         /\ Round(p).failed = p.failed /\ Round(p).more = p.more
BY RoundIs, ZenonT(40)

LEMMA RoundEnds ==
  ASSUME RespFacts, LimitsAssumption, NEW p \in Loops, NEW r, r = resp_parse(p.rest),
         r.status # "ok"
  PROVE  /\ Round(p).cmds = p.cmds /\ Round(p).rest = p.rest
         /\ Round(p).failed = (r.status = "error") /\ Round(p).more = FALSE
BY RoundIs, ZenonT(40)

RoundsBody(f, b) ==
  [i \in Nat |-> IF i = 0 THEN Start(b) ELSE Step(f[i - 1])]

LEMMA RoundsIs ==
  ASSUME NEW b, NEW f, f = RoundsBody(f, b)
  PROVE  Rounds(b) = RoundsBody(Rounds(b), b)
BY Zenon DEF Rounds, RoundsBody, Start, Step

(* Rounds(b) is the run of the loop that begins with b.                    *)
LEMMA RoundsAre ==
  ASSUME RespFacts, LimitsAssumption, NEW b \in Text
  PROVE  /\ Rounds(b)[0] = Start(b)
         /\ \A i \in Nat : Rounds(b)[i + 1] = Step(Rounds(b)[i])
         /\ \A i \in Nat : Rounds(b)[i] \in Loops
<1> DEFINE c == Start(b)
           g == [p \in Loops |-> Step(p)]
           u == Rounds(b)
<1>1. c \in Loops
  BY DEF Loops, Start
<1>2. \A p \in Loops : Step(p) \in Loops
  BY RoundIs, Zenon DEF Step
<1>3. Least
  BY Zenon DEF RespFacts
<1>4. PICK f : RoundsOf(f, Loops, c, g)
  <2>1. LoopOver(Loops, c, g)
    BY <1>1, <1>2, Zenon DEF LoopOver
  <2> HIDE DEF c, g
  <2>2. QED
    BY <1>3, <2>1, RoundsExist, Zenon
<1>5. \A i \in Nat : f[i + 1] = Step(f[i])
  BY <1>4, Zenon DEF RoundsOf
<1>6. f = RoundsBody(f, b)
  <2>1. \A i \in Nat : i = 0 \/ (i - 1 \in Nat /\ (i - 1) + 1 = i)
    OBVIOUS
  <2>2. ASSUME NEW i \in Nat
        PROVE  f[i] = IF i = 0 THEN Start(b) ELSE Step(f[i - 1])
    <3>1. CASE i = 0
      BY <1>4, <3>1, Zenon DEF RoundsOf
    <3>2. CASE i # 0
      <4>1. i - 1 \in Nat /\ (i - 1) + 1 = i
        BY <2>1, <3>2, Zenon
      <4>2. f[(i - 1) + 1] = Step(f[i - 1])
        BY <1>5, <4>1, Zenon
      <4>3. QED
        BY <3>2, <4>1, <4>2, Zenon
    <3>3. QED
      BY <3>1, <3>2, Zenon
  <2>3. f = [i \in Nat |-> f[i]]
    BY <1>4, Zenon DEF RoundsOf
  <2>4. QED
    BY <2>2, <2>3, Zenon DEF RoundsBody
<1>7. u = RoundsBody(u, b)
  BY <1>6, RoundsIs, Zenon
<1> HIDE DEF u
<1>8. u[0] = c
  <2>1. 0 \in Nat
    OBVIOUS
  <2>2. RoundsBody(u, b)[0] = c
    BY <2>1, Zenon DEF RoundsBody
  <2>3. QED
    BY <1>7, <2>2, Zenon
<1>9. ASSUME NEW i \in Nat
      PROVE  u[i + 1] = Step(u[i])
  <2>1. i + 1 \in Nat /\ i + 1 # 0 /\ (i + 1) - 1 = i
    OBVIOUS
  <2>2. RoundsBody(u, b)[i + 1] = Step(u[i])
    BY <2>1, Zenon DEF RoundsBody
  <2>3. QED
    BY <1>7, <2>2, Zenon
<1>10. \A i \in Nat : u[i] \in Loops
  <2> DEFINE S == {i \in Nat : u[i] \in Loops}
  <2>1. 0 \in S
    BY <1>1, <1>8
  <2>2. ASSUME NEW i \in S
        PROVE  i + 1 \in S
    <3>1. i \in Nat /\ i + 1 \in Nat /\ u[i] \in Loops
      OBVIOUS
    <3>2. u[i + 1] \in Loops
      BY <1>2, <1>9, <3>1, Zenon
    <3>3. QED
      BY <3>1, <3>2, Zenon
  <2>3. S \in SUBSET Nat
    OBVIOUS
  <2>4. S = Nat
    <3> HIDE DEF S
    <3>1. QED
      BY <1>3, <2>1, <2>2, <2>3, Induct, Zenon
  <2>5. QED
    BY <2>4, Zenon
<1>11. QED
  BY <1>8, <1>9, <1>10, Zenon DEF u

(* The arithmetic of a round: c of n bytes go. *)
LEMMA RoundTakes ==
  ASSUME NEW all \in Nat, NEW i \in Nat, NEW n \in Nat, NEW c \in 0 .. n, c >= 1,
         n + i <= all
  PROVE  (IF c + 1 <= n THEN n - (c + 1) + 1 ELSE 0) + (i + 1) <= all
OBVIOUS

LEMMA NoneLeft ==
  ASSUME NEW all \in Nat, NEW n \in Nat
  PROVE  ~(n + (all + 1) <= all)
OBVIOUS

(* While the loop goes on, every round has taken a byte or more: after one *)
(* round more than there are bytes it is over.                             *)
LEMMA RoundsEnd ==
  ASSUME RespFacts, LimitsAssumption, NEW b \in Text
  PROVE  /\ \A i \in Nat : Rounds(b)[i].more =>
              ~Rounds(b)[i].failed /\ Len(Rounds(b)[i].rest) + i <= Len(b)
         /\ ~Rounds(b)[Len(b) + 1].more
<1> DEFINE u == Rounds(b)
           S == {i \in Nat : u[i].more => ~u[i].failed /\ Len(u[i].rest) + i <= Len(b)}
<1>1. Len(b) \in Nat
  BY DEF Text
<1>2. /\ u[0] = Start(b) /\ \A i \in Nat : u[i + 1] = Step(u[i])
      /\ \A i \in Nat : u[i] \in Loops
  BY RoundsAre, Zenon
<1> HIDE DEF u
<1>3. 0 \in S
  <2>1. Len(b) + 0 <= Len(b)
    BY <1>1
  <2>2. 0 \in Nat
    OBVIOUS
  <2>3. u[0].rest = b /\ u[0].failed = FALSE
    BY <1>2 DEF Start
  <2>4. QED
    BY <2>1, <2>2, <2>3, Zenon
<1>4. ASSUME NEW i \in S
      PROVE  i + 1 \in S
  <2>1. i \in Nat /\ i + 1 \in Nat /\ u[i + 1] = Step(u[i]) /\ u[i] \in Loops
    <3>1. i \in Nat /\ i + 1 \in Nat
      OBVIOUS
    <3>2. QED
      BY <1>2, <3>1, Zenon
  <2>2. ASSUME u[i + 1].more
        PROVE  ~u[i + 1].failed /\ Len(u[i + 1].rest) + (i + 1) <= Len(b)
    <3> DEFINE p == u[i]
               r == resp_parse(p.rest)
    <3>1. p.more
      BY <2>1, <2>2, Zenon DEF Step
    <3>2. u[i + 1] = Round(p)
      BY <2>1, <3>1, Zenon DEF Step
    <3>3. ~p.failed /\ Len(p.rest) + i <= Len(b)
      BY <3>1, Zenon
    <3>4. r.status = "ok"
      BY <2>1, <2>2, <3>2, RoundIs, ZenonT(40)
    <3>5. /\ u[i + 1].rest = SubSeq(p.rest, r.consumed + 1, Len(p.rest))
          /\ u[i + 1].failed = p.failed
      BY <2>1, <3>2, <3>4, RoundIs, Zenon
    <3>6. p.rest \in Text
      BY <2>1, Zenon DEF Loops
    <3>7. r \in Parses(p.rest) /\ r.consumed >= 1
      BY <3>4, <3>6, ParseIs, Zenon
    <3>8. r.consumed \in 0 .. Len(p.rest) /\ Len(p.rest) \in Nat
      <4> HIDE DEF r, p
      <4>1. QED
        BY <3>6, <3>7 DEF Parses, Text
    <3> DEFINE t == SubSeq(p.rest, r.consumed + 1, Len(p.rest))
    <3>9. Len(t) = IF r.consumed + 1 <= Len(p.rest) THEN Len(p.rest) - (r.consumed + 1) + 1 ELSE 0
      <4> HIDE DEF r, p
      <4>1. r.consumed + 1 \in Nat \ {0} /\ Len(p.rest) \in 0 .. Len(p.rest)
        BY <3>8
      <4>2. QED
        BY <3>6, <4>1, SubIs, ZenonT(40)
    <3>10. Len(t) + (i + 1) <= Len(b)
      <4> HIDE DEF r, p, t
      <4>1. QED
        BY <1>1, <2>1, <3>3, <3>7, <3>8, <3>9, RoundTakes, Zenon
    <3>11. QED
      BY <3>3, <3>5, <3>10, Zenon
  <2>3. QED
    BY <2>1, <2>2, Zenon
<1>5. S = Nat
  <2>1. S \in SUBSET Nat
    OBVIOUS
  <2>2. Least
    BY Zenon DEF RespFacts
  <2> HIDE DEF S
  <2>3. QED
    BY <1>3, <1>4, <2>1, <2>2, Induct, Zenon
<1>6. ~u[Len(b) + 1].more
  <2> DEFINE q == u[Len(b) + 1]
  <2>1. Len(b) + 1 \in Nat
    BY <1>1
  <2>2. q \in Loops
    BY <1>2, <2>1, Zenon
  <2>3. Len(q.rest) \in Nat
    <3> HIDE DEF q
    <3>1. q.rest \in Text
      BY <2>2, Zenon DEF Loops
    <3>2. QED
      BY <3>1 DEF Text
  <2>4. q.more => Len(q.rest) + (Len(b) + 1) <= Len(b)
    BY <1>5, <2>1, Zenon
  <2> HIDE DEF q
  <2>5. ~(Len(q.rest) + (Len(b) + 1) <= Len(b))
    BY <1>1, <2>3, NoneLeft, Zenon
  <2>6. QED
    BY <2>4, <2>5, Zenon DEF q
<1>7. QED
  BY <1>5, <1>6, Zenon DEF u

(* Once it is over nothing changes.                                        *)
LEMMA RoundsOver ==
  ASSUME RespFacts, LimitsAssumption, NEW b \in Text, NEW m \in Nat, ~Rounds(b)[m].more
  PROVE  \A i \in Nat : Rounds(b)[m + i] = Rounds(b)[m]
<1> DEFINE u == Rounds(b)
           S == {i \in Nat : u[m + i] = u[m]}
<1>1. \A i \in Nat : u[i + 1] = Step(u[i])
  BY RoundsAre, Zenon
<1> HIDE DEF u
<1>2. 0 \in S
  OBVIOUS
<1>3. ASSUME NEW i \in S
      PROVE  i + 1 \in S
  <2>1. i \in Nat /\ i + 1 \in Nat /\ m + i \in Nat /\ (m + i) + 1 = m + (i + 1) /\ u[m + i] = u[m]
    OBVIOUS
  <2>2. u[(m + i) + 1] = Step(u[m])
    BY <1>1, <2>1, Zenon
  <2>3. Step(u[m]) = u[m]
    BY Zenon DEF Step, u
  <2>4. QED
    BY <2>1, <2>2, <2>3, Zenon
<1>4. S = Nat
  <2>1. S \in SUBSET Nat
    OBVIOUS
  <2>2. Least
    BY Zenon DEF RespFacts
  <2> HIDE DEF S
  <2>3. QED
    BY <1>2, <1>3, <2>1, <2>2, Induct, Zenon
<1>5. QED
  BY <1>4, Zenon DEF u

(* So the loop's result is what it holds after any round that ends it.     *)
LEMMA Result ==
  ASSUME RespFacts, LimitsAssumption, NEW b \in Text, NEW m \in Nat, ~Rounds(b)[m].more
  PROVE  conn_process_input(b) = Rounds(b)[m]
<1> DEFINE k == Len(b) + 1
<1>1. k \in Nat
  BY DEF Text
<1>2. ~Rounds(b)[k].more
  BY RoundsEnd, Zenon
<1>3. conn_process_input(b) = Rounds(b)[k]
  BY Zenon DEF conn_process_input
<1> HIDE DEF k
<1>4. CASE m <= k
  <2>1. k - m \in Nat /\ m + (k - m) = k
    BY <1>1, <1>4
  <2>2. Rounds(b)[m + (k - m)] = Rounds(b)[m]
    BY <2>1, RoundsOver, Zenon
  <2>3. QED
    BY <1>3, <2>1, <2>2, Zenon
<1>5. CASE k <= m
  <2>1. m - k \in Nat /\ k + (m - k) = m
    BY <1>1, <1>5
  <2>2. Rounds(b)[k + (m - k)] = Rounds(b)[k]
    BY <1>1, <1>2, <2>1, RoundsOver, Zenon
  <2>3. QED
    BY <1>3, <2>1, <2>2, Zenon
<1>6. m <= k \/ k <= m
  BY <1>1
<1>7. QED
  BY <1>4, <1>5, <1>6, Zenon

LEMMA AppendCmds ==
  ASSUME NEW s \in Seq(Argvs), NEW t \in Seq(Argvs), NEW a \in Argvs
  PROVE  Append(s \o t, a) = s \o Append(t, a)
OBVIOUS

(* More bytes after b do not change a round that is followed by another:   *)
(* they come to stand at the end of what is left.                          *)
LEMMA RoundsStay ==
  ASSUME RespFacts, LimitsAssumption, NEW b \in Text, NEW x \in Text
  PROVE  \A i \in Nat : Rounds(b)[i].more =>
           /\ Rounds(b \o x)[i].more
           /\ Rounds(b \o x)[i].cmds = Rounds(b)[i].cmds
           /\ Rounds(b \o x)[i].rest = Rounds(b)[i].rest \o x
<1> DEFINE u == Rounds(b)
           w == Rounds(b \o x)
           S == {i \in Nat : u[i].more =>
                   w[i].more /\ w[i].cmds = u[i].cmds /\ w[i].rest = u[i].rest \o x}
<1>1. b \o x \in Text
  BY JoinIs, Zenon
<1>2. /\ u[0] = Start(b) /\ \A i \in Nat : u[i + 1] = Step(u[i])
      /\ \A i \in Nat : u[i] \in Loops
  BY RoundsAre, Zenon
<1>3. /\ w[0] = Start(b \o x) /\ \A i \in Nat : w[i + 1] = Step(w[i])
      /\ \A i \in Nat : w[i] \in Loops
  BY <1>1, RoundsAre, Zenon
<1> HIDE DEF u, w
<1>4. 0 \in S
  <2> DEFINE c == b \o x
  <2> HIDE DEF c
  <2>1. /\ Start(c).more /\ Start(c).cmds = <<>> /\ Start(c).rest = c
        /\ Start(b).cmds = <<>> /\ Start(b).rest = b
    BY DEF Start
  <2>2. 0 \in Nat
    OBVIOUS
  <2>3. QED
    BY <1>2, <1>3, <2>1, <2>2, Zenon DEF c
<1>5. ASSUME NEW i \in S
      PROVE  i + 1 \in S
  <2>1. i \in Nat /\ i + 1 \in Nat /\ u[i + 1] = Step(u[i]) /\ u[i] \in Loops
        /\ w[i + 1] = Step(w[i]) /\ w[i] \in Loops
    <3>1. i \in Nat /\ i + 1 \in Nat
      OBVIOUS
    <3>2. QED
      BY <1>2, <1>3, <3>1, Zenon
  <2>2. ASSUME u[i + 1].more
        PROVE  /\ w[i + 1].more /\ w[i + 1].cmds = u[i + 1].cmds
               /\ w[i + 1].rest = u[i + 1].rest \o x
    <3> DEFINE p == u[i]
               q == w[i]
               r == resp_parse(p.rest)
    <3>1. p.more
      BY <2>1, <2>2, Zenon DEF Step
    <3>2. q.more /\ q.cmds = p.cmds /\ q.rest = p.rest \o x
      BY <3>1, Zenon
    <3>3. u[i + 1] = Round(p) /\ w[i + 1] = Round(q)
      BY <2>1, <3>1, <3>2, Zenon DEF Step
    <3>4. p \in Loops /\ q \in Loops /\ Round(p).more
      BY <2>1, <2>2, <3>3, Zenon
    <3> HIDE DEF p, q
    <3>5. r.status = "ok"
      BY <3>4, RoundEnds, Zenon
    <3>6. Round(p).cmds = Append(p.cmds, r.argv)
          /\ Round(p).rest = SubSeq(p.rest, r.consumed + 1, Len(p.rest))
      BY <3>4, <3>5, RoundOk, Zenon
    <3>7. p.rest \in Text
      BY <3>4, Zenon DEF Loops
    <3>8. r \in Parses(p.rest) /\ resp_parse(p.rest \o x) = r
      BY <3>5, <3>7, ParseIs, ZenonT(40)
    <3>9. r = resp_parse(q.rest)
      BY <3>2, <3>8, Zenon
    <3> HIDE DEF r
    <3>10. Round(q).cmds = Append(q.cmds, r.argv) /\ Round(q).more
           /\ Round(q).rest = SubSeq(q.rest, r.consumed + 1, Len(q.rest))
      <4>1. /\ Round(q).cmds = Append(q.cmds, r.argv)
            /\ Round(q).rest = SubSeq(q.rest, r.consumed + 1, Len(q.rest))
            /\ Round(q).failed = q.failed /\ Round(q).more = q.more
        BY <3>4, <3>5, <3>9, RoundOk, Zenon
      <4>2. QED
        BY <3>2, <4>1, Zenon
    <3>11. r.consumed \in 0 .. Len(p.rest)
      BY <3>8 DEF Parses
    <3>12. SubSeq(q.rest, r.consumed + 1, Len(q.rest))
             = SubSeq(p.rest, r.consumed + 1, Len(p.rest)) \o x
      <4> DEFINE t == p.rest
                 c == r.consumed
      <4>1. t \in Text /\ c \in 0 .. Len(t)
        BY <3>7, <3>11, Zenon
      <4> HIDE DEF t, c
      <4>2. SubSeq(t \o x, c + 1, Len(t \o x)) = SubSeq(t, c + 1, Len(t)) \o x
        BY <4>1, TailStays, Zenon
      <4>3. QED
        BY <3>2, <4>2, Zenon DEF t, c
    <3>13. QED
      BY <3>2, <3>3, <3>6, <3>10, <3>12, ZenonT(40)
  <2>3. QED
    BY <2>1, <2>2, Zenon
<1>6. S = Nat
  <2>1. S \in SUBSET Nat
    OBVIOUS
  <2>2. Least
    BY Zenon DEF RespFacts
  <2> HIDE DEF S
  <2>3. QED
    BY <1>4, <1>5, <2>1, <2>2, Induct, Zenon
<1>7. QED
  BY <1>6, Zenon DEF u, w

(* From a round on, the loop does what it does when it begins with what is *)
(* left by then.                                                           *)
ContinuesAs(b, m, t) ==
  \A i \in Nat :
    /\ Rounds(b)[m + i].cmds = Rounds(b)[m].cmds \o Rounds(t)[i].cmds
    /\ Rounds(b)[m + i].rest = Rounds(t)[i].rest
    /\ Rounds(b)[m + i].failed = Rounds(t)[i].failed
    /\ Rounds(b)[m + i].more = Rounds(t)[i].more

LEMMA RoundsAfter ==
  ASSUME RespFacts, LimitsAssumption, NEW b \in Text, NEW m \in Nat, Rounds(b)[m].more,
         NEW t \in Text, t = Rounds(b)[m].rest
  PROVE  ContinuesAs(b, m, t)
<1> DEFINE u == Rounds(b)
           w == Rounds(t)
           C == u[m].cmds
           Same(i) == /\ u[m + i].cmds = C \o w[i].cmds /\ u[m + i].rest = w[i].rest
                      /\ u[m + i].failed = w[i].failed /\ u[m + i].more = w[i].more
           S == {i \in Nat : Same(i)}
<1>1. /\ \A i \in Nat : u[i + 1] = Step(u[i])
      /\ \A i \in Nat : u[i] \in Loops
      /\ ~u[m].failed /\ u[m].more /\ u[m].rest = t
  BY RoundsAre, RoundsEnd, Zenon
<1>2. /\ w[0] = Start(t) /\ \A i \in Nat : w[i + 1] = Step(w[i])
      /\ \A i \in Nat : w[i] \in Loops
  BY RoundsAre, Zenon
<1> HIDE DEF u, w
<1>3. C \in Seq(Seq(Text))
  BY <1>1, Zenon DEF Loops
<1>4. u[m].failed \in BOOLEAN /\ u[m].more \in BOOLEAN
  BY <1>1, Zenon DEF Loops
<1>5. Same(0)
  <2>1. m + 0 = m
    OBVIOUS
  <2>2. /\ Start(t).cmds = <<>> /\ Start(t).rest = t /\ Start(t).failed = FALSE
        /\ Start(t).more = TRUE
    BY DEF Start
  <2>3. C \o <<>> = C
    <3> HIDE DEF C
    <3>1. QED
      BY <1>3
  <2>4. QED
    BY <1>1, <1>2, <1>4, <2>1, <2>2, <2>3, Zenon
<1>6. ASSUME NEW i \in Nat, Same(i)
      PROVE  Same(i + 1)
  <2> DEFINE p == u[m + i]
             q == w[i]
             r == resp_parse(q.rest)
  <2>1. m + i \in Nat /\ m + (i + 1) = (m + i) + 1
    OBVIOUS
  <2>2. u[m + (i + 1)] = Step(p) /\ p \in Loops
    BY <1>1, <2>1, Zenon
  <2>3. w[i + 1] = Step(q) /\ q \in Loops
    BY <1>2, Zenon
  <2>4. /\ p.cmds = C \o q.cmds /\ p.rest = q.rest /\ p.failed = q.failed /\ p.more = q.more
    BY <1>6, Zenon
  <2> HIDE DEF p, q, C
  <2>5. CASE ~q.more
    <3>1. Step(p) = p /\ Step(q) = q
      BY <2>4, <2>5, Zenon DEF Step
    <3>2. QED
      BY <2>2, <2>3, <2>4, <3>1, Zenon
  <2>6. CASE q.more /\ r.status = "ok"
    <3>1. Step(p) = Round(p) /\ Step(q) = Round(q)
      BY <2>4, <2>6, Zenon DEF Step
    <3>2. q.rest \in Text /\ q.cmds \in Seq(Seq(Text))
      BY <2>3, Zenon DEF Loops
    <3>3. r \in Parses(q.rest)
      BY <3>2, ParseIs, Zenon
    <3>4. r.argv \in Seq(Text)
      <4> HIDE DEF r
      <4>1. QED
        BY <3>3, Zenon DEF Parses
    <3>5. Append(C \o q.cmds, r.argv) = C \o Append(q.cmds, r.argv)
      <4> HIDE DEF r
      <4>1. C \in Seq(Argvs) /\ q.cmds \in Seq(Argvs) /\ r.argv \in Argvs
        BY <1>3, <3>2, <3>4, Zenon DEF Argvs
      <4>2. QED
        BY <4>1, AppendCmds, Zenon
    <3>6. /\ Round(p).cmds = Append(p.cmds, r.argv) /\ Round(p).failed = p.failed
          /\ Round(p).more = p.more
          /\ Round(p).rest = SubSeq(q.rest, r.consumed + 1, Len(q.rest))
      <4>1. r = resp_parse(p.rest)
        BY <2>4, Zenon
      <4> HIDE DEF r
      <4>2. QED
        BY <2>2, <2>4, <2>6, <4>1, RoundOk, Zenon
    <3>7. /\ Round(q).cmds = Append(q.cmds, r.argv) /\ Round(q).failed = q.failed
          /\ Round(q).more = q.more
          /\ Round(q).rest = SubSeq(q.rest, r.consumed + 1, Len(q.rest))
      BY <2>3, <2>6, RoundOk, Zenon
    <3> HIDE DEF r
    <3>8. QED
      BY <2>2, <2>3, <2>4, <3>1, <3>5, <3>6, <3>7, ZenonT(40)
  <2>7. CASE q.more /\ r.status # "ok"
    <3>1. Step(p) = Round(p) /\ Step(q) = Round(q)
      BY <2>4, <2>7, Zenon DEF Step
    <3>2. /\ Round(p).cmds = p.cmds /\ Round(p).failed = (r.status = "error")
          /\ Round(p).more = FALSE /\ Round(p).rest = p.rest
      <4>1. r = resp_parse(p.rest)
        BY <2>4, Zenon
      <4> HIDE DEF r
      <4>2. QED
        BY <2>2, <2>7, <4>1, RoundEnds, Zenon
    <3>3. /\ Round(q).cmds = q.cmds /\ Round(q).failed = (r.status = "error")
          /\ Round(q).more = FALSE /\ Round(q).rest = q.rest
      BY <2>3, <2>7, RoundEnds, Zenon
    <3> HIDE DEF r
    <3>4. QED
      BY <2>2, <2>3, <2>4, <3>1, <3>2, <3>3, ZenonT(40)
  <2>8. QED
    BY <2>5, <2>6, <2>7, Zenon
<1>7. S = Nat
  <2> HIDE DEF Same
  <2>1. S \in SUBSET Nat /\ 0 \in Nat /\ \A i \in Nat : i + 1 \in Nat
    OBVIOUS
  <2>2. 0 \in S /\ \A i \in S : i + 1 \in S
    BY <1>5, <1>6, <2>1, Zenon
  <2>3. Least
    BY Zenon DEF RespFacts
  <2> HIDE DEF S
  <2>4. QED
    BY <2>1, <2>2, <2>3, Induct, Zenon
<1>8. \A i \in Nat : Same(i)
  <2> HIDE DEF Same
  <2>1. QED
    BY <1>7, Zenon
<1>9. QED
  BY <1>8, Zenon DEF u, w, ContinuesAs

(* The loop on b and then, with what it left and more bytes x, once more,  *)
(* comes to what the loop on all of them comes to.                         *)
ComesToTheSame(b, x) ==
  LET p == conn_process_input(b)
      q == conn_process_input(p.rest \o x)
      w == conn_process_input(b \o x)
  IN  /\ p \in Loops /\ q \in Loops /\ w \in Loops
      /\ w.cmds = p.cmds \o q.cmds /\ w.rest = q.rest /\ w.failed = q.failed

LEMMA CutAnywhere ==
  ASSUME RespFacts, LimitsAssumption, NEW b \in Text, NEW x \in Text
  PROVE  ComesToTheSame(b, x)
<1> DEFINE p == conn_process_input(b)
           q == conn_process_input(p.rest \o x)
           w == conn_process_input(b \o x)
           u == Rounds(b)
           c == b \o x
           v == Rounds(c)
           k == Len(b) + 1
           S == {i \in Nat : ~u[i].more}
<1>1. c \in Text
  BY JoinIs, Zenon
<1>2. k \in Nat /\ 0 \in Nat
  BY DEF Text
<1>3. /\ u[0] = Start(b) /\ \A i \in Nat : u[i + 1] = Step(u[i])
      /\ \A i \in Nat : u[i] \in Loops
  BY RoundsAre, Zenon
<1>4. k \in S
  BY <1>2, RoundsEnd, Zenon
<1>5. PICK m \in S : \A y \in S : m <= y
  <2>1. S \in SUBSET Nat /\ S # {}
    BY <1>4, Zenon
  <2>2. Least
    BY Zenon DEF RespFacts
  <2> HIDE DEF S
  <2>3. QED
    BY <2>1, <2>2, Zenon DEF Least
<1>6. m \in Nat /\ ~u[m].more
  BY <1>5, Zenon
<1>7. p = u[m]
  BY <1>6, Result, Zenon
<1> HIDE DEF u, v, c, k, p, q, w
<1>8. m # 0
  <2>1. Start(b).more
    BY DEF Start
  <2>2. QED
    BY <1>3, <1>6, <2>1, Zenon
<1>9. m - 1 \in Nat /\ (m - 1) + 1 = m /\ ~(m <= m - 1)
  BY <1>6, <1>8
<1> DEFINE j == m - 1
           a == u[j]
<1>10. a.more /\ a \in Loops /\ u[m] = Step(a)
  BY <1>3, <1>5, <1>9, Zenon
<1>11. j \in Nat
  BY <1>9, Zenon
<1> HIDE DEF j
<1>12. p = Round(a)
  BY <1>7, <1>10, Zenon DEF Step
<1>13. p.cmds = a.cmds /\ p.rest = a.rest
  <2> HIDE DEF a
  <2> DEFINE r == resp_parse(a.rest)
  <2>1. r.status # "ok"
    <3>1. ASSUME r.status = "ok"
          PROVE  FALSE
      <4>1. Round(a).more = a.more
        BY <1>10, <3>1, RoundOk, Zenon
      <4>2. QED
        BY <1>6, <1>7, <1>10, <1>12, <4>1, Zenon
    <3>2. QED
      BY <3>1, Zenon
  <2>2. QED
    BY <1>10, <1>12, <2>1, RoundEnds, Zenon
<1> DEFINE t == a.rest \o x
<1>14. a.rest \in Text
  <2> HIDE DEF a
  <2>1. QED
    BY <1>10, Zenon DEF Loops
<1>15. t \in Text
  <2> HIDE DEF a
  <2>1. QED
    BY <1>14, JoinIs, Zenon
<1>16. v[j].more /\ v[j].cmds = a.cmds /\ v[j].rest = t
  <2>1. \A i \in Nat : Rounds(b)[i].more =>
           /\ Rounds(b \o x)[i].more
           /\ Rounds(b \o x)[i].cmds = Rounds(b)[i].cmds
           /\ Rounds(b \o x)[i].rest = Rounds(b)[i].rest \o x
    BY RoundsStay, Zenon
  <2>2. \A i \in Nat : u[i].more =>
           v[i].more /\ v[i].cmds = u[i].cmds /\ v[i].rest = u[i].rest \o x
    BY <2>1, Zenon DEF u, v, c
  <2>3. QED
    BY <1>10, <1>11, <2>2, Zenon
<1>17. q = conn_process_input(t)
  BY <1>13, Zenon DEF q
<1> DEFINE n == Len(t) + 1
           h == Rounds(t)
<1>18. n \in Nat
  <2> HIDE DEF t
  <2>1. QED
    BY <1>15 DEF Text
<1> HIDE DEF a, t
<1>19. ~h[n].more /\ q = h[n]
  BY <1>15, <1>17, RoundsEnd, Zenon DEF conn_process_input
<1>20. \A i \in Nat : h[i] \in Loops
  BY <1>15, RoundsAre, Zenon
<1> HIDE DEF n
<1>21. /\ v[j + n].cmds = v[j].cmds \o h[n].cmds /\ v[j + n].rest = h[n].rest
       /\ v[j + n].failed = h[n].failed /\ v[j + n].more = h[n].more
  <2>1. Rounds(c)[j].more /\ t = Rounds(c)[j].rest
    BY <1>16, Zenon DEF v
  <2>2. ContinuesAs(c, j, t)
    BY <1>1, <1>11, <1>15, <2>1, RoundsAfter, Zenon
  <2>3. QED
    BY <1>18, <2>2, Zenon DEF ContinuesAs, v
<1>22. j + n \in Nat
  BY <1>11, <1>18
<1>23. w = v[j + n]
  <2>1. ~v[j + n].more
    BY <1>19, <1>21, Zenon
  <2>2. QED
    BY <1>1, <1>22, <2>1, Result, Zenon DEF v, c, w
<1>24. v[j + n] \in Loops
  BY <1>1, <1>22, RoundsAre, Zenon DEF v
<1> HIDE DEF h
<1>25. p \in Loops /\ q \in Loops /\ w \in Loops
  BY <1>3, <1>6, <1>7, <1>18, <1>19, <1>20, <1>23, <1>24, Zenon
<1>26. QED
  <2>1. w.cmds = p.cmds \o q.cmds /\ w.rest = q.rest /\ w.failed = q.failed
    BY <1>13, <1>16, <1>19, <1>21, <1>23, Zenon
  <2>2. QED
    BY <1>25, <2>1, Zenon DEF ComesToTheSame, p, q, w

(* The loop on an empty buffer does nothing.                               *)
LEMMA NothingRead ==
  ASSUME RespFacts, LimitsAssumption
  PROVE  /\ conn_process_input(<<>>).cmds = <<>> /\ conn_process_input(<<>>).rest = <<>>
         /\ conn_process_input(<<>>).failed = FALSE
<1> DEFINE s == Start(<<>>)
           r == resp_parse(<<>>)
           b == <<>>
<1>1. b \in Text
  BY DEF Text
<1>2. /\ s.cmds = <<>> /\ s.rest = <<>> /\ s.more = TRUE
  BY DEF Start
<1>3. Rounds(b)[0] = s /\ \A i \in Nat : Rounds(b)[i + 1] = Step(Rounds(b)[i])
      /\ Rounds(b)[0] \in Loops
  <2>1. 0 \in Nat
    OBVIOUS
  <2>2. QED
    BY <1>1, <2>1, RoundsAre, Zenon
<1>4. Rounds(b)[1] = Step(s)
  <2>1. 0 \in Nat /\ 0 + 1 = 1
    OBVIOUS
  <2>2. Rounds(b)[0 + 1] = Step(s)
    BY <1>3, <2>1, Zenon
  <2>3. QED
    BY <2>1, <2>2, Zenon
<1>5. Len(b) + 1 = 1
  OBVIOUS
<1>6. conn_process_input(b) = Step(s)
  BY <1>4, <1>5, Zenon DEF conn_process_input
<1>7. Step(s) = Round(s)
  BY <1>2, Zenon DEF Step
<1>8. r.status # "ok" /\ r.status # "error"
  <2>1. r = Incomplete
    BY Zenon DEF resp_parse
  <2> HIDE DEF r
  <2>2. QED
    BY <2>1 DEF Incomplete
<1>9. s \in Loops /\ r = resp_parse(s.rest)
  BY <1>2, <1>3, Zenon
<1> HIDE DEF s, r
<1>10. /\ Round(s).cmds = s.cmds /\ Round(s).rest = s.rest
       /\ Round(s).failed = (r.status = "error") /\ Round(s).more = FALSE
  BY <1>8, <1>9, RoundEnds, Zenon
<1>11. QED
  BY <1>2, <1>6, <1>7, <1>8, <1>10, Zenon DEF b

-----------------------------------------------------------------------------
(* The line ends of a text, and that those of two texts add up.            *)
Ends(t) == {i \in DOMAIN t : t[i] \in {CR, LF}}

LEMMA EndsFinite ==
  ASSUME RespFacts, NEW t \in Text
  PROVE  /\ IsFiniteSet(Ends(t)) /\ Cardinality(Ends(t)) \in Nat
         /\ Ends(t) = {i \in 1 .. Len(t) : t[i] \in {CR, LF}}
<1>1. Len(t) \in Nat /\ DOMAIN t = 1 .. Len(t) /\ 1 \in Int /\ Len(t) \in Int
  BY DEF Text
<1>2. Ends(t) = {i \in 1 .. Len(t) : t[i] \in {CR, LF}}
  BY <1>1, Zenon DEF Ends
<1>3. IsFiniteSet(1 .. Len(t))
  BY <1>1, Zenon DEF RespFacts, IntervalCount
<1>4. Ends(t) \subseteq 1 .. Len(t)
  BY <1>2, Zenon
<1>5. IsFiniteSet(Ends(t))
  BY <1>3, <1>4, Zenon DEF RespFacts, SubsetCount
<1>6. QED
  BY <1>2, <1>5, Zenon DEF RespFacts, CountType

LEMMA EndsJoin ==
  ASSUME RespFacts, NEW s \in Text, NEW t \in Text
  PROVE  Cardinality(Ends(s \o t)) = Cardinality(Ends(s)) + Cardinality(Ends(t))
<1> DEFINE c == s \o t
           A == Ends(s)
           B == Ends(t)
           E == Ends(c)
           n == Len(s)
           f == [i \in B |-> n + i]
           D == {f[i] : i \in B}
<1>1. /\ c \in Text /\ Len(c) = Len(s) + Len(t) /\ \A i \in 1 .. Len(s) : c[i] = s[i]
      /\ \A i \in 1 .. Len(t) : c[Len(s) + i] = t[i]
  BY JoinIs, Zenon
<1>2. Len(s) \in Nat /\ Len(t) \in Nat
  BY DEF Text
<1> HIDE DEF c
<1>3. /\ IsFiniteSet(A) /\ Cardinality(A) \in Nat
      /\ A = {i \in 1 .. Len(s) : s[i] \in {CR, LF}}
  BY EndsFinite, Zenon
<1>4. /\ IsFiniteSet(B) /\ Cardinality(B) \in Nat
      /\ B = {i \in 1 .. Len(t) : t[i] \in {CR, LF}}
  BY EndsFinite, Zenon
<1>5. E = {i \in 1 .. Len(c) : c[i] \in {CR, LF}}
  BY <1>1, EndsFinite, Zenon
<1> HIDE DEF A, B, E
<1>6. IsFiniteSet(D) /\ Cardinality(D) = Cardinality(B)
  <2>1. f = [x \in B |-> f[x]] /\ D = {f[x] : x \in B}
    BY Zenon
  <2>2. \A i \in B : i \in Nat
    BY <1>2, <1>4
  <2>3. \A x, y \in B : f[x] = f[y] => x = y
    BY <1>2, <2>2
  <2> HIDE DEF f, D
  <2>4. IsFiniteSet(B) /\ ImageCount
    BY <1>4, Zenon DEF RespFacts
  <2>5. QED
    BY <2>1, <2>3, <2>4 DEF ImageCount
<1>7. \A i \in B : f[i] = n + i
  BY Zenon
<1> HIDE DEF f
<1>8. A \cap D = {}
  <2>1. ASSUME NEW j \in A, NEW i \in B, j = f[i]
        PROVE  FALSE
    <3>1. j \in 1 .. Len(s) /\ i \in 1 .. Len(t) /\ j = n + i
      BY <1>3, <1>4, <1>7, <2>1, Zenon
    <3>2. QED
      BY <1>2, <3>1
  <2>2. QED
    BY <2>1, Zenon
<1>9. E = A \cup D
  <2>1. ASSUME NEW j \in E
        PROVE  j \in A \cup D
    <3>1. j \in 1 .. Len(c) /\ c[j] \in {CR, LF}
      BY <1>5, <2>1, Zenon
    <3>2. CASE j <= Len(s)
      <4>1. j \in 1 .. Len(s)
        BY <1>1, <1>2, <3>1, <3>2
      <4>2. QED
        BY <1>1, <1>3, <3>1, <4>1, Zenon
    <3>3. CASE j > Len(s)
      <4> DEFINE i == j - Len(s)
      <4>1. i \in 1 .. Len(t) /\ Len(s) + i = j
        BY <1>1, <1>2, <3>1, <3>3
      <4> HIDE DEF i
      <4>2. t[i] = c[j]
        BY <1>1, <4>1, Zenon
      <4>3. i \in B
        BY <1>4, <3>1, <4>1, <4>2, Zenon
      <4>4. j = f[i]
        BY <1>7, <4>1, <4>3, Zenon
      <4>5. QED
        BY <4>3, <4>4, Zenon
    <3>4. j <= Len(s) \/ j > Len(s)
      BY <1>1, <1>2, <3>1
    <3>5. QED
      BY <3>2, <3>3, <3>4, Zenon
  <2>2. ASSUME NEW j \in A
        PROVE  j \in E
    <3>1. j \in 1 .. Len(s) /\ s[j] \in {CR, LF}
      BY <1>3, <2>2, Zenon
    <3>2. j \in 1 .. Len(c)
      BY <1>1, <1>2, <3>1
    <3>3. QED
      BY <1>1, <1>5, <3>1, <3>2, Zenon
  <2>3. ASSUME NEW i \in B
        PROVE  f[i] \in E
    <3>1. i \in 1 .. Len(t) /\ t[i] \in {CR, LF} /\ f[i] = Len(s) + i
      BY <1>4, <1>7, <2>3, Zenon
    <3>2. Len(s) + i \in 1 .. Len(c)
      BY <1>1, <1>2, <3>1
    <3>3. QED
      BY <1>1, <1>5, <3>1, <3>2, Zenon
  <2>4. QED
    BY <2>1, <2>2, <2>3, Zenon
<1> HIDE DEF D
<1>10. Cardinality(E) = Cardinality(A) + Cardinality(D) - Cardinality(A \cap D)
  BY <1>3, <1>6, <1>9, Zenon DEF RespFacts, UnionCount
<1>11. Cardinality(A \cap D) = 0
  BY <1>8, Zenon DEF RespFacts, CountType
<1>12. Cardinality(E) = Cardinality(A) + Cardinality(B)
  <2>1. Cardinality(E) = Cardinality(A) + Cardinality(B) - 0
    BY <1>6, <1>10, <1>11, Zenon
  <2>2. QED
    BY <1>3, <1>4, <2>1
<1>13. QED
  BY <1>12, Zenon DEF A, B, E, c

(* A name in an error text has no line end, so the reply has one.          *)
LEMMA LesserOf ==
  ASSUME NEW a \in Nat, NEW b \in Nat
  PROVE  Min({a, b}) \in {a, b} /\ Min({a, b}) <= a /\ Min({a, b}) <= b
<1> DEFINE S == {a, b}
<1>1. \E m \in S : \A y \in S : m <= y
  <2>1. CASE a <= b
    BY <2>1
  <2>2. CASE b <= a
    BY <2>2
  <2>3. QED
    BY <2>1, <2>2
<1> HIDE DEF S
<1>2. Min(S) \in S /\ \A y \in S : Min(S) <= y
  BY <1>1, Zenon DEF Min
<1>3. QED
  BY <1>2, Zenon DEF S

LEMMA TokenIs ==
  ASSUME LimitsAssumption, NEW arg \in Text
  PROVE  /\ safe_token(arg) \in Text
         /\ \A i \in 1 .. Len(safe_token(arg)) : safe_token(arg)[i] \notin {CR, LF}
<1> DEFINE n == Min({Len(arg), NameCap - 1})
           v(i) == IF arg[i] < 32 \/ arg[i] = 127 THEN QUESTION
                   ELSE IF arg[i] \in 65 .. 90 THEN arg[i] + 32 ELSE arg[i]
           t == [i \in 1 .. n |-> v(i)]
<1>1. Len(arg) \in Nat /\ NameCap - 1 \in Nat
  BY DEF Text, LimitsAssumption
<1>2. n \in Nat /\ n <= Len(arg)
  <2> DEFINE a == Len(arg)
             b == NameCap - 1
  <2>1. a \in Nat /\ b \in Nat
    BY <1>1, Zenon
  <2> HIDE DEF a, b
  <2>2. Min({a, b}) \in {a, b} /\ Min({a, b}) <= a
    BY <2>1, LesserOf, Zenon
  <2>3. Min({a, b}) \in Nat
    BY <2>1, <2>2, Zenon
  <2>4. QED
    BY <2>2, <2>3, Zenon DEF a, b
<1>3. safe_token(arg) = t
  BY Zenon DEF safe_token
<1> HIDE DEF n
<1>4. ASSUME NEW i \in 1 .. n
      PROVE  v(i) \in Byte /\ v(i) \notin {CR, LF}
  <2>1. i \in 1 .. Len(arg)
    BY <1>1, <1>2
  <2>2. arg[i] \in 0 .. 255
    <3>1. \A j \in 1 .. Len(arg) : arg[j] \in Byte
      BY DEF Text
    <3>2. QED
      BY <2>1, <3>1, Zenon DEF Byte
  <2> DEFINE x == arg[i]
  <2> HIDE DEF x
  <2>3. x \in 0 .. 255
    BY <2>2, Zenon DEF x
  <2>4. LET y == IF x < 32 \/ x = 127 THEN QUESTION
                 ELSE IF x \in 65 .. 90 THEN x + 32 ELSE x
        IN  y \in Byte /\ y \notin {CR, LF}
    BY <2>3 DEF Byte, CR, LF, QUESTION
  <2>5. QED
    BY <2>4, Zenon DEF x
<1> HIDE DEF v
<1>5. t \in Text /\ Len(t) = n
  BY <1>2, <1>4 DEF Text
<1>6. \A i \in 1 .. n : t[i] \notin {CR, LF}
  BY <1>4, Zenon
<1> HIDE DEF t
<1>7. QED
  BY <1>3, <1>5, <1>6, Zenon

LineEnds(argv) == IF argv = <<>> THEN 0 ELSE 2

Counted(argv) == IF argv = <<>> THEN 0 ELSE 1

LEMMA ReplyEnds ==
  ASSUME RespFacts, LimitsAssumption, NEW argv \in Argvs
  PROVE  /\ UnknownCommand(argv) \in Text
         /\ Cardinality(Ends(UnknownCommand(argv))) = LineEnds(argv)
<1>1. CASE argv = <<>>
  <2>1. UnknownCommand(argv) = <<>>
    BY <1>1, Zenon DEF UnknownCommand
  <2>2. <<>> \in Text
    BY DEF Text
  <2>3. Ends(<<>>) = {}
    BY DEF Ends
  <2>4. Cardinality({}) = 0
    BY Zenon DEF RespFacts, CountType
  <2>5. QED
    BY <1>1, <2>1, <2>2, <2>3, <2>4, Zenon DEF LineEnds
<1>2. CASE argv # <<>>
  <2> DEFINE k == safe_token(argv[1])
             h == <<MINUS>>
             a == h \o k
  <2>1. UnknownCommand(argv) = a \o CRLF
    BY <1>2, Zenon DEF UnknownCommand, resp_reply_error
  <2>2. argv[1] \in Text
    <3>1. argv \in Seq(Text)
      BY Zenon DEF Argvs
    <3>2. QED
      BY <1>2, <3>1
  <2>3. k \in Text /\ \A i \in 1 .. Len(k) : k[i] \notin {CR, LF}
    BY <2>2, TokenIs, Zenon
  <2>4. h \in Text /\ CRLF \in Text
    BY DEF Text, Byte, MINUS, CRLF, CR, LF
  <2> HIDE DEF k
  <2>5. Ends(k) = {}
    <3>1. Ends(k) = {i \in 1 .. Len(k) : k[i] \in {CR, LF}}
      BY <2>3, EndsFinite, Zenon
    <3>2. QED
      BY <2>3, <3>1, Zenon
  <2>6. Ends(h) = {}
    BY DEF Ends, MINUS, CR, LF
  <2>7. Ends(CRLF) = {1, 2}
    BY DEF Ends, CRLF, CR, LF
  <2> HIDE DEF h
  <2>8. Cardinality({}) = 0
    BY Zenon DEF RespFacts, CountType
  <2>9. Cardinality(1 .. 2) = 2
    <3>1. IntervalCount
      BY Zenon DEF RespFacts
    <3>2. Cardinality(1 .. 2) = IF 1 > 2 THEN 0 ELSE 2 - 1 + 1
      <4>1. 1 \in Int /\ 2 \in Int
        OBVIOUS
      <4>2. QED
        BY <3>1, <4>1, Zenon DEF IntervalCount
    <3>3. QED
      BY <3>2
  <2>10. 1 .. 2 = {1, 2}
    OBVIOUS
  <2>11. a \in Text /\ Cardinality(Ends(a)) = Cardinality(Ends(h)) + Cardinality(Ends(k))
    BY <2>3, <2>4, JoinIs, EndsJoin, Zenon
  <2> HIDE DEF a
  <2>12. /\ a \o CRLF \in Text
         /\ Cardinality(Ends(a \o CRLF)) = Cardinality(Ends(a)) + Cardinality(Ends(CRLF))
    BY <2>4, <2>11, JoinIs, EndsJoin, Zenon
  <2>13. Cardinality(Ends(a)) = 0 + 0
    BY <2>5, <2>6, <2>8, <2>11, Zenon
  <2>14. Cardinality(Ends(a \o CRLF)) = (0 + 0) + 2
    BY <2>7, <2>9, <2>10, <2>12, <2>13, Zenon
  <2>15. (0 + 0) + 2 = 2
    OBVIOUS
  <2>16. QED
    BY <1>2, <2>1, <2>12, <2>14, <2>15, Zenon DEF LineEnds
<1>3. QED
  BY <1>1, <1>2, Zenon

(* The replies to the first k commands have two line ends for each of      *)
(* those that are not empty.                                               *)
Asked(cmds, k) == {i \in 1 .. k : cmds[i] # <<>>}

LEMMA AskedNext ==
  ASSUME RespFacts, NEW cmds, NEW k \in Nat
  PROVE  /\ IsFiniteSet(Asked(cmds, k)) /\ Cardinality(Asked(cmds, k)) \in Nat
         /\ Cardinality(Asked(cmds, k + 1))
              = Cardinality(Asked(cmds, k)) + Counted(cmds[k + 1])
<1> DEFINE A == Asked(cmds, k)
           B == Asked(cmds, k + 1)
<1>1. IsFiniteSet(1 .. k)
  <2>1. 1 \in Int /\ k \in Int
    OBVIOUS
  <2>2. QED
    BY <2>1, Zenon DEF RespFacts, IntervalCount
<1>2. A \subseteq 1 .. k
  BY Zenon DEF Asked
<1>3. IsFiniteSet(A)
  BY <1>1, <1>2, Zenon DEF RespFacts, SubsetCount
<1>4. Cardinality(A) \in Nat
  BY <1>3, Zenon DEF RespFacts, CountType
<1>5. 1 .. k + 1 = (1 .. k) \cup {k + 1} /\ k + 1 \notin 1 .. k
  OBVIOUS
<1>6. CASE cmds[k + 1] = <<>>
  <2>1. B = A
    BY <1>5, <1>6, Zenon DEF Asked
  <2> HIDE DEF A, B
  <2>2. Cardinality(B) = Cardinality(A) + 0
    BY <1>4, <2>1
  <2>3. QED
    BY <1>3, <1>4, <1>6, <2>2, Zenon DEF A, B, Counted
<1>7. CASE cmds[k + 1] # <<>>
  <2>1. B = A \cup {k + 1}
    BY <1>5, <1>7, Zenon DEF Asked
  <2>2. k + 1 \notin A
    BY <1>2, <1>5, Zenon
  <2> HIDE DEF A, B
  <2>3. Cardinality(B) = Cardinality(A) + 1
    BY <1>3, <2>1, <2>2, Zenon DEF RespFacts, AddCount
  <2>4. QED
    BY <1>3, <1>4, <1>7, <2>3, Zenon DEF A, B, Counted
<1>8. QED
  BY <1>6, <1>7, Zenon

LEMMA TwiceMore ==
  ASSUME NEW a \in Nat, NEW c
  PROVE  2 * a + LineEnds(c) = 2 * (a + Counted(c)) /\ LineEnds(c) = 2 * (0 + Counted(c))
BY DEF LineEnds, Counted

LEMMA LinesUpTo ==
  ASSUME RespFacts, LimitsAssumption, NEW cmds \in Seq(Argvs),
         NEW seqs \in Seq(Text), Len(seqs) = Len(cmds),
         \A i \in 1 .. Len(cmds) : seqs[i] = UnknownCommand(cmds[i]),
         NEW f, f = FlatBody(f, seqs), NEW k \in 1 .. Len(cmds)
  PROVE  /\ f[k] \in Text
         /\ Cardinality(Ends(f[k])) = 2 * Cardinality(Asked(cmds, k))
<1> DEFINE N == Len(cmds)
           Q(j) == f[j] \in Text /\ Cardinality(Ends(f[j])) = 2 * Cardinality(Asked(cmds, j))
           S == {j \in Nat : j + 1 \in 1 .. N => Q(j + 1)}
<1>1. N \in Nat /\ \A i \in 1 .. N : cmds[i] \in Argvs
  OBVIOUS
<1>2. \A i \in 1 .. N : f[i] = IF i = 1 THEN seqs[i] ELSE f[i - 1] \o seqs[i]
  <2>1. \A i \in 1 .. N : FlatBody(f, seqs)[i]
                            = IF i = 1 THEN seqs[i] ELSE f[i - 1] \o seqs[i]
    BY Zenon DEF FlatBody
  <2>2. QED
    BY <2>1, Zenon
<1>3. \A i \in 1 .. N :
        /\ seqs[i] \in Text
        /\ Cardinality(Ends(seqs[i])) = LineEnds(cmds[i])
  BY <1>1, ReplyEnds, Zenon
<1> HIDE DEF N
<1>4. 0 \in S
  <2> SUFFICES ASSUME 0 + 1 \in 1 .. N
               PROVE  Q(0 + 1)
    OBVIOUS
  <2>1. 1 \in 1 .. N /\ 0 + 1 = 1
    BY <1>1
  <2>2. f[1] = seqs[1]
    BY <1>2, <2>1, Zenon
  <2>3. Cardinality(Asked(cmds, 0)) = 0
    <3>1. Asked(cmds, 0) = {}
      BY DEF Asked
    <3>2. QED
      BY <3>1, Zenon DEF RespFacts, CountType
  <2>4. Cardinality(Asked(cmds, 0 + 1)) = 0 + Counted(cmds[0 + 1])
    <3>1. 0 \in Nat
      OBVIOUS
    <3>2. QED
      BY <2>3, <3>1, AskedNext, Zenon
  <2>5. Cardinality(Ends(seqs[1])) = LineEnds(cmds[1])
    BY <1>3, <2>1, Zenon
  <2>6. Cardinality(Ends(f[1])) = 2 * Cardinality(Asked(cmds, 1))
    <3>1. 0 \in Nat
      OBVIOUS
    <3>2. QED
      BY <2>1, <2>2, <2>4, <2>5, <3>1, TwiceMore, Zenon
  <2>7. QED
    BY <1>3, <2>1, <2>2, <2>6, Zenon
<1>5. ASSUME NEW j \in S
      PROVE  j + 1 \in S
  <2> DEFINE m == j + 1
  <2>1. j \in Nat /\ m \in Nat /\ m + 1 - 1 = m /\ m + 1 # 1
    OBVIOUS
  <2> SUFFICES ASSUME m + 1 \in 1 .. N
               PROVE  Q(m + 1)
    BY <2>1, Zenon
  <2>2. m \in 1 .. N
    BY <1>1, <2>1
  <2>3. Q(m)
    BY <2>2, Zenon
  <2> HIDE DEF m, S
  <2>4. f[m + 1] = f[m] \o seqs[m + 1]
    <3>1. m \in Nat \ {0} /\ m + 1 \in 1 .. Len(seqs)
      BY <2>1, <2>2 DEF N
    <3>2. QED
      BY <3>1, FlatNext, Zenon
  <2>5. /\ seqs[m + 1] \in Text
        /\ Cardinality(Ends(seqs[m + 1])) = LineEnds(cmds[m + 1])
    BY <1>3, Zenon
  <2>6. /\ f[m + 1] \in Text
        /\ Cardinality(Ends(f[m + 1]))
             = Cardinality(Ends(f[m])) + LineEnds(cmds[m + 1])
    <3>1. f[m] \in Text
      BY <2>3, Zenon
    <3> HIDE DEF Q
    <3>2. /\ f[m] \o seqs[m + 1] \in Text
          /\ Cardinality(Ends(f[m] \o seqs[m + 1]))
               = Cardinality(Ends(f[m])) + Cardinality(Ends(seqs[m + 1]))
      BY <2>5, <3>1, JoinIs, EndsJoin, Zenon
    <3>3. QED
      BY <2>4, <2>5, <3>2, Zenon
  <2>7. /\ Cardinality(Asked(cmds, m)) \in Nat
        /\ Cardinality(Asked(cmds, m + 1))
             = Cardinality(Asked(cmds, m)) + Counted(cmds[m + 1])
    BY <2>1, AskedNext, Zenon
  <2>8. Cardinality(Ends(f[m])) + LineEnds(cmds[m + 1])
          = 2 * (Cardinality(Asked(cmds, m)) + Counted(cmds[m + 1]))
    <3>1. Cardinality(Ends(f[m])) = 2 * Cardinality(Asked(cmds, m))
      BY <2>3, Zenon
    <3>2. QED
      BY <2>7, <3>1, TwiceMore, Zenon
  <2>9. QED
    BY <2>6, <2>7, <2>8, Zenon
<1> HIDE DEF Q
<1>6. S = Nat
  <2>1. S \in SUBSET Nat
    BY Zenon
  <2>2. Least
    BY Zenon DEF RespFacts
  <2> HIDE DEF S
  <2>3. QED
    BY <1>4, <1>5, <2>1, <2>2, Induct, Zenon
<1>7. k - 1 \in Nat /\ (k - 1) + 1 = k /\ k \in 1 .. N
  BY <1>1 DEF N
<1>8. Q(k)
  BY <1>6, <1>7, Zenon
<1>9. QED
  BY <1>8, Zenon DEF Q

-----------------------------------------------------------------------------
(* Where a text sits in another: after the first n bytes of b.             *)
Sits(b, n, t) == n + Len(t) <= Len(b) /\ \A k \in 1 .. Len(t) : b[n + k] = t[k]

LEMMA SitsFront ==
  ASSUME NEW s \in Text, NEW t \in Text
  PROVE  Sits(s \o t, 0, s) /\ Sits(s \o t, Len(s), t)
<1>1. Len(s) \in Nat /\ Len(t) \in Nat
  BY DEF Text
<1>2. /\ Len(s \o t) = Len(s) + Len(t)
      /\ \A i \in 1 .. Len(s) : (s \o t)[i] = s[i]
      /\ \A i \in 1 .. Len(t) : (s \o t)[Len(s) + i] = t[i]
  BY JoinIs, Zenon
<1>3. 0 + Len(s) <= Len(s) + Len(t) /\ Len(s) + Len(t) <= Len(s) + Len(t)
  BY <1>1
<1>4. \A i \in 1 .. Len(s) : 0 + i = i
  OBVIOUS
<1>5. QED
  BY <1>2, <1>3, <1>4, Zenon DEF Sits

LEMMA SitsOn ==
  ASSUME NEW s \in Text, NEW t \in Text, NEW u \in Text, NEW n \in Nat, Sits(s, n, u)
  PROVE  Sits(s \o t, n, u)
<1>1. /\ Len(s) \in Nat /\ Len(t) \in Nat /\ Len(u) \in Nat
      /\ n + Len(u) <= Len(s) /\ \A k \in 1 .. Len(u) : s[n + k] = u[k]
  BY DEF Text, Sits
<1>2. /\ Len(s \o t) = Len(s) + Len(t)
      /\ \A i \in 1 .. Len(s) : (s \o t)[i] = s[i]
  BY JoinIs, Zenon
<1>3. n + Len(u) <= Len(s) + Len(t) /\ \A k \in 1 .. Len(u) : n + k \in 1 .. Len(s)
  BY <1>1
<1>4. QED
  BY <1>1, <1>2, <1>3, Zenon DEF Sits

LEMMA SitsIn ==
  ASSUME NEW b \in Text, NEW t \in Text, NEW u \in Text, NEW n \in Nat, NEW m \in Nat,
         Sits(b, n, t), Sits(t, m, u)
  PROVE  Sits(b, n + m, u)
<1>1. /\ Len(b) \in Nat /\ Len(t) \in Nat /\ Len(u) \in Nat
      /\ n + Len(t) <= Len(b) /\ m + Len(u) <= Len(t)
  BY DEF Text, Sits
<1>2. /\ \A k \in 1 .. Len(t) : b[n + k] = t[k]
      /\ \A k \in 1 .. Len(u) : t[m + k] = u[k]
  BY Zenon DEF Sits
<1>3. /\ (n + m) + Len(u) <= Len(b)
      /\ \A k \in 1 .. Len(u) : m + k \in 1 .. Len(t) /\ (n + m) + k = n + (m + k)
  BY <1>1
<1>4. QED
  BY <1>2, <1>3, Zenon DEF Sits

LEMMA SitsSub ==
  ASSUME NEW b \in Text, NEW t \in Text, NEW n \in Nat, Sits(b, n, t)
  PROVE  SubSeq(b, n + 1, n + Len(t)) = t
<1> DEFINE u == SubSeq(b, n + 1, n + Len(t))
<1>1. /\ Len(t) \in Nat /\ n + 1 \in Nat \ {0} /\ n + Len(t) \in 0 .. Len(b)
      /\ (n + Len(t)) - (n + 1) + 1 = Len(t)
  BY SMTT(30) DEF Text, Sits
<1> DEFINE m == n + 1
           e == n + Len(t)
<1>2. /\ u \in Text /\ Len(u) = Len(t)
      /\ \A i \in 1 .. Len(t) : u[i] = b[n + 1 + i - 1]
  <2>1. m \in Nat \ {0} /\ e \in 0 .. Len(b) /\ e - m + 1 = Len(t) /\ u = SubSeq(b, m, e)
    BY <1>1, Zenon
  <2>2. (IF m <= e THEN e - m + 1 ELSE 0) = Len(t)
    BY <1>1
  <2> HIDE DEF m, e, u
  <2>3. /\ u \in Text /\ Len(u) = IF m <= e THEN e - m + 1 ELSE 0
        /\ \A i \in 1 .. e - m + 1 : u[i] = b[m + i - 1]
    BY <2>1, SubIs, Zenon
  <2>4. Len(u) = Len(t)
    BY <2>2, <2>3
  <2>5. QED
    BY <2>1, <2>3, <2>4, Zenon DEF m
<1> HIDE DEF u, m, e
<1>3. \A i \in 1 .. Len(t) : n + 1 + i - 1 = n + i
  OBVIOUS
<1>4. \A i \in 1 .. Len(u) : u[i] = t[i]
  BY <1>2, <1>3, Zenon DEF Sits
<1>5. u = t
  BY <1>2, <1>4, SameText, Zenon
<1>6. QED
  BY <1>5, Zenon DEF u

-----------------------------------------------------------------------------
(* Decimal, unfolded.                                                      *)
LEMMA Tenths ==
  ASSUME NEW n \in Nat
  PROVE  /\ n \div 10 \in Nat /\ n % 10 \in 0 .. 9 /\ n = (n \div 10) * 10 + (n % 10)
         /\ n >= 10 => n \div 10 < n
OBVIOUS

Written(x, n) == IF n < 10 THEN <<48 + n>> ELSE Append(x, 48 + (n % 10))

LEMMA WrittenIs ==
  ASSUME NEW x \in Text, NEW n \in Nat
  PROVE  Written(x, n) \in Text
<1>1. n < 10 => 48 + n \in Byte
  BY DEF Byte
<1>2. 48 + (n % 10) \in Byte
  BY Tenths DEF Byte
<1>3. \A d \in Byte : <<d>> \in Text /\ Append(x, d) \in Text
  BY DEF Text
<1>4. QED
  BY <1>1, <1>2, <1>3, Zenon DEF Written

DecimalBody(f) == [n \in Nat |-> Written(f[n \div 10], n)]

LEMMA DecimalUnfolds ==
  ASSUME \E h : h = DecimalBody(h)
  PROVE  Decimal = DecimalBody(Decimal)
BY Zenon DEF Decimal, DecimalBody, Written

LEMMA DecimalExists ==
  ASSUME Least
  PROVE  \E h : h \in [Nat -> Text] /\ h = DecimalBody(h)
<1> DEFINE P == [Nat -> Text]
           c == [n \in Nat |-> <<>>]
           g == [F \in P |-> DecimalBody(F)]
<1>1. c \in P
  BY DEF Text
<1>2. \A F \in P : DecimalBody(F) \in P
  <2>1. ASSUME NEW F \in P, NEW n \in Nat
        PROVE  Written(F[n \div 10], n) \in Text
    <3>1. F[n \div 10] \in Text
      BY Tenths, Zenon
    <3>2. QED
      BY <3>1, WrittenIs, Zenon
  <2>2. QED
    BY <2>1, Zenon DEF DecimalBody
<1>3. LoopOver(P, c, g)
  <2> HIDE DEF P, c
  <2>1. QED
    BY <1>1, <1>2, Zenon DEF LoopOver
<1>4. PICK f : RoundsOf(f, P, c, g)
  <2> HIDE DEF P, c, g
  <2>1. QED
    BY <1>3, RoundsExist, Zenon
<1>5. /\ \A i \in Nat : f[i] \in P
      /\ \A i, n \in Nat : f[i + 1][n] = Written(f[i][n \div 10], n)
  <2>1. \A i \in Nat : f[i] \in P /\ f[i + 1] = DecimalBody(f[i])
    <3> HIDE DEF P, c
    <3>1. QED
      BY <1>4, Zenon DEF RoundsOf
  <2> HIDE DEF P
  <2>2. QED
    BY <2>1, Zenon DEF DecimalBody
<1> DEFINE Settled(j) == \A n \in Nat : n < j => f[j][n] = f[n + 1][n]
           S == {i \in Nat : \A j \in 0 .. i : Settled(j)}
<1> HIDE DEF P, c, g
<1>6. 0 \in S
  <2>1. \A j \in 0 .. 0 : \A n \in Nat : ~(n < j)
    OBVIOUS
  <2>2. QED
    BY <2>1, Zenon
<1>7. ASSUME NEW i \in S
      PROVE  i + 1 \in S
  <2>1. i \in Nat /\ \A j \in 0 .. i : Settled(j)
    BY Zenon
  <2>2. ASSUME NEW n \in Nat, n < i + 1
        PROVE  f[i + 1][n] = f[n + 1][n]
    <3>1. f[i + 1][n] = Written(f[i][n \div 10], n) /\ f[n + 1][n] = Written(f[n][n \div 10], n)
      BY <1>5, <2>1, Zenon
    <3>2. CASE n < 10
      BY <3>1, <3>2, Zenon DEF Written
    <3>3. CASE n >= 10
      <4> DEFINE m == n \div 10
      <4>1. m \in Nat /\ m < n
        BY <3>3, Tenths, Zenon
      <4> HIDE DEF m
      <4>2. i \in 0 .. i /\ n \in 0 .. i /\ m < i
        BY <2>1, <2>2, <4>1
      <4>3. f[i][m] = f[m + 1][m] /\ f[n][m] = f[m + 1][m]
        BY <2>1, <4>1, <4>2, Zenon
      <4>4. f[i + 1][n] = Written(f[i][m], n) /\ f[n + 1][n] = Written(f[n][m], n)
        BY <3>1, Zenon DEF m
      <4>5. QED
        BY <4>3, <4>4, Zenon
    <3>4. n < 10 \/ n >= 10
      OBVIOUS
    <3>5. QED
      BY <3>2, <3>3, <3>4, Zenon
  <2>3. i + 1 \in Nat /\ \A j \in 0 .. i + 1 : j \in 0 .. i \/ j = i + 1
    BY <2>1
  <2>4. QED
    BY <2>1, <2>2, <2>3, Zenon
<1>8. S = Nat
  <2>1. S \in SUBSET Nat
    BY Zenon
  <2> HIDE DEF S
  <2>2. QED
    BY <1>6, <1>7, <2>1, Induct, Zenon
<1> DEFINE h == [n \in Nat |-> f[n + 1][n]]
<1>9. ASSUME NEW n \in Nat
      PROVE  h[n] \in Text /\ h[n] = Written(h[n \div 10], n)
  <2>1. n + 1 \in Nat /\ n \in 0 .. n
    OBVIOUS
  <2>2. h[n] = f[n + 1][n] /\ h[n] = Written(f[n][n \div 10], n)
    BY <1>5, Zenon
  <2>3. h[n] \in Text
    BY <1>5, <2>1, <2>2, Zenon DEF P
  <2>4. CASE n < 10
    BY <2>2, <2>3, <2>4, Zenon DEF Written
  <2>5. CASE n >= 10
    <3> DEFINE m == n \div 10
    <3>1. m \in Nat /\ m < n
      BY <2>5, Tenths, Zenon
    <3>2. h[n] = Written(f[n][m], n)
      BY <2>2, Zenon
    <3> HIDE DEF m
    <3>3. Settled(n)
      BY <1>8, <2>1, Zenon
    <3>4. f[n][m] = h[m]
      BY <3>1, <3>3, Zenon
    <3> HIDE DEF h
    <3>5. h[n] = Written(h[m], n)
      BY <3>2, <3>4, Zenon
    <3>6. QED
      BY <2>3, <3>5, Zenon DEF m
  <2>6. n < 10 \/ n >= 10
    OBVIOUS
  <2>7. QED
    BY <2>4, <2>5, <2>6, Zenon
<1>10. h \in [Nat -> Text]
  <2>1. \A n \in Nat : f[n + 1][n] \in Text
    BY <1>9, Zenon
  <2>2. QED
    BY <2>1, Zenon
<1>11. h = DecimalBody(h)
  BY <1>9, Zenon DEF DecimalBody
<1>12. QED
  BY <1>10, <1>11, Zenon

LEMMA DecimalAt ==
  ASSUME Least, NEW n \in Nat
  PROVE  Decimal[n] = Written(Decimal[n \div 10], n)
<1>1. Decimal = DecimalBody(Decimal)
  <2>1. \E h : h = DecimalBody(h)
    BY DecimalExists, Zenon
  <2>2. QED
    BY <2>1, DecimalUnfolds, Zenon
<1>2. \A F : DecimalBody(F)[n] = Written(F[n \div 10], n)
  BY Zenon DEF DecimalBody
<1>3. QED
  BY <1>1, <1>2, Zenon

(* A text of digits, and one digit more.                                   *)
Digital(t) == t \in Text /\ t # <<>> /\ \A i \in 1 .. Len(t) : t[i] \in DIGITS

LEMMA OneMore ==
  ASSUME NEW t \in Text, NEW d \in Byte
  PROVE  /\ Append(t, d) \in Text /\ Append(t, d) # <<>>
         /\ Len(Append(t, d)) = Len(t) + 1 /\ Len(t) \in Nat
         /\ \A i \in 1 .. Len(t) : Append(t, d)[i] = t[i]
         /\ Append(t, d)[Len(t) + 1] = d
BY DEF Text

LEMMA DecimalIs ==
  ASSUME Least, NEW n \in Nat
  PROVE  Digital(Decimal[n])
<1> DEFINE S == {i \in Nat : \A k \in 0 .. i : Digital(Decimal[k])}
<1>1. ASSUME NEW k \in Nat, k >= 10 => Digital(Decimal[k \div 10])
      PROVE  Digital(Decimal[k])
  <2>1. Decimal[k] = Written(Decimal[k \div 10], k)
    BY DecimalAt, Zenon
  <2>2. CASE k < 10
    <3>1. Decimal[k] = <<48 + k>>
      BY <2>1, <2>2, Zenon DEF Written
    <3>2. 48 + k \in DIGITS /\ 48 + k \in Byte
      BY <2>2 DEF DIGITS, Byte
    <3>3. \A d \in Byte : <<d>> \in Text /\ <<d>> # <<>> /\ Len(<<d>>) = 1 /\ <<d>>[1] = d
      BY DEF Text
    <3>4. \A i \in 1 .. 1 : i = 1
      OBVIOUS
    <3>5. QED
      BY <3>1, <3>2, <3>3, <3>4, Zenon DEF Digital
  <2>3. CASE k >= 10
    <3> DEFINE t == Decimal[k \div 10]
               d == 48 + (k % 10)
    <3>1. Decimal[k] = Append(t, d)
      <4>1. ~(k < 10)
        BY <2>3
      <4>2. QED
        BY <2>1, <4>1, Zenon DEF Written
    <3>2. d \in DIGITS /\ d \in Byte
      BY Tenths DEF DIGITS, Byte
    <3>3. t \in Text /\ \A i \in 1 .. Len(t) : t[i] \in DIGITS
      BY <1>1, <2>3, Zenon DEF Digital
    <3> HIDE DEF t, d
    <3>4. /\ Append(t, d) \in Text /\ Append(t, d) # <<>>
          /\ Len(Append(t, d)) = Len(t) + 1 /\ Len(t) \in Nat
          /\ \A i \in 1 .. Len(t) : Append(t, d)[i] = t[i]
          /\ Append(t, d)[Len(t) + 1] = d
      BY <3>2, <3>3, OneMore, Zenon
    <3>5. \A i \in 1 .. Len(t) + 1 : i \in 1 .. Len(t) \/ i = Len(t) + 1
      BY <3>4
    <3>6. QED
      BY <3>1, <3>2, <3>3, <3>4, <3>5, Zenon DEF Digital
  <2>4. QED
    BY <2>2, <2>3
<1>2. 0 \in S
  <2>1. 0 \in Nat /\ ~(0 >= 10) /\ \A k \in 0 .. 0 : k = 0
    OBVIOUS
  <2>2. QED
    BY <1>1, <2>1, Zenon
<1>3. ASSUME NEW i \in S
      PROVE  i + 1 \in S
  <2>1. i \in Nat /\ \A k \in 0 .. i : Digital(Decimal[k])
    BY Zenon
  <2>2. i + 1 >= 10 => (i + 1) \div 10 \in 0 .. i
    BY <2>1
  <2>3. i + 1 \in Nat /\ \A j \in 0 .. i + 1 : j \in 0 .. i \/ j = i + 1
    BY <2>1
  <2>4. Digital(Decimal[i + 1])
    BY <1>1, <2>1, <2>2, <2>3, Zenon
  <2>5. QED
    BY <2>1, <2>3, <2>4, Zenon
<1>4. S = Nat
  <2>1. S \in SUBSET Nat
    BY Zenon
  <2> HIDE DEF S
  <2>2. QED
    BY <1>2, <1>3, <2>1, Induct, Zenon
<1>5. n \in 0 .. n
  OBVIOUS
<1>6. QED
  BY <1>4, <1>5, Zenon

(* What parse_ll makes of a text, digit by digit.                          *)
ValueBody(f, s) ==
  [i \in 0 .. Len(s) |->
     LET next == f[i - 1] * 10 + (s[i] - 48)
     IN  IF i = 0 THEN 0
         ELSE IF \/ f[i - 1] < 0 \/ s[i] \notin DIGITS
                 \/ next > 2 * RESP_MAX_BULK_LEN
         THEN -1 ELSE next]

ReadAs(s, n) ==
  /\ \E h : h = ValueBody(h, s)
  /\ \A f : f = ValueBody(f, s) => f[Len(s)] = n

Value(s) == CHOOSE f : f = ValueBody(f, s)

NumberOf(s, b) ==
  IF s = <<>> \/ Value(s)[Len(s)] < 0 THEN {}
  ELSE {IF s = b THEN Value(s)[Len(s)] ELSE -(Value(s)[Len(s)])}

LEMMA ValueIs ==
  ASSUME NEW s, s # <<>>, s[1] # MINUS, NEW n \in Nat, ReadAs(s, n)
  PROVE  parse_ll(s) = {n}
<1> DEFINE d == IF s # <<>> /\ s[1] = MINUS THEN Tail(s) ELSE s
<1>1. Value(s) = ValueBody(Value(s), s)
  BY Zenon DEF ReadAs, Value
<1>2. Value(s)[Len(s)] = n
  BY <1>1, Zenon DEF ReadAs
<1>3. parse_ll(s) = NumberOf(d, s)
  BY Zenon DEF parse_ll, NumberOf, Value, ValueBody
<1>4. d = s
  BY Zenon
<1> HIDE DEF d
<1>5. ~(n < 0)
  OBVIOUS
<1>6. NumberOf(s, s) = {n}
  BY <1>2, <1>5, Zenon DEF NumberOf
<1>7. QED
  BY <1>3, <1>4, <1>6, Zenon


NextValue(v, d) ==
  LET next == v * 10 + (d - 48)
  IN  IF v < 0 \/ d \notin DIGITS \/ next > 2 * RESP_MAX_BULK_LEN THEN -1 ELSE next

Scans(f, s) ==
  /\ f = [i \in 0 .. Len(s) |-> f[i]]
  /\ \A i \in 0 .. Len(s) : f[i] = IF i = 0 THEN 0 ELSE NextValue(f[i - 1], s[i])

LEMMA ScansIs ==
  ASSUME NEW f, NEW s
  PROVE  f = ValueBody(f, s) <=> Scans(f, s)
<1> DEFINE V(i) == IF i = 0 THEN 0 ELSE NextValue(f[i - 1], s[i])
<1>1. ValueBody(f, s) = [i \in 0 .. Len(s) |-> V(i)]
  BY Zenon DEF ValueBody, NextValue
<1>2. Scans(f, s) <=> /\ f = [i \in 0 .. Len(s) |-> f[i]]
                      /\ \A i \in 0 .. Len(s) : f[i] = V(i)
  BY Zenon DEF Scans
<1> HIDE DEF V
<1>3. ASSUME NEW w, f = w, w = [i \in 0 .. Len(s) |-> V(i)]
      PROVE  Scans(f, s)
  <2>1. \A i \in 0 .. Len(s) : f[i] = V(i)
    BY <1>3, Zenon
  <2>2. f = [i \in 0 .. Len(s) |-> f[i]]
    BY <1>3, <2>1, Zenon
  <2>3. QED
    BY <1>2, <2>1, <2>2, Zenon
<1>4. ASSUME Scans(f, s)
      PROVE  f = [i \in 0 .. Len(s) |-> V(i)]
  <2>1. f = [i \in 0 .. Len(s) |-> f[i]] /\ \A i \in 0 .. Len(s) : f[i] = V(i)
    BY <1>2, <1>4, Zenon
  <2>2. [i \in 0 .. Len(s) |-> f[i]] = [i \in 0 .. Len(s) |-> V(i)]
    BY <2>1, Zenon
  <2>3. QED
    BY <2>1, <2>2, Zenon
<1>5. QED
  BY <1>1, <1>3, <1>4, Zenon

LEMMA ReadNothing == ReadAs(<<>>, 0)
<1> DEFINE h == [i \in 0 .. 0 |-> 0]
<1>1. 0 .. Len(<<>>) = 0 .. 0 /\ \A i \in 0 .. 0 : i = 0
  OBVIOUS
<1>2. 0 \in 0 .. 0 /\ Len(<<>>) = 0
  OBVIOUS
<1>3. Scans(h, <<>>)
  BY <1>1, Zenon DEF Scans
<1> HIDE DEF h
<1>4. \E f : f = ValueBody(f, <<>>)
  BY <1>3, ScansIs, Zenon
<1>5. ASSUME NEW f, Scans(f, <<>>)
      PROVE  f[Len(<<>>)] = 0
  BY <1>1, <1>2, <1>5, Zenon DEF Scans
<1>6. QED
  BY <1>4, <1>5, ScansIs, Zenon DEF ReadAs

LEMMA ReadOne ==
  ASSUME NEW s \in Text, NEW d \in Byte, d \in DIGITS, NEW n \in Nat, ReadAs(s, n),
         NEW m \in Nat, m = n * 10 + (d - 48), m <= 2 * RESP_MAX_BULK_LEN, LimitsAssumption
  PROVE  ReadAs(Append(s, d), m)
<1> DEFINE t == Append(s, d)
           L == Len(s)
<1>1. /\ Len(t) = L + 1 /\ L \in Nat
      /\ \A i \in 1 .. L : t[i] = s[i]
      /\ t[L + 1] = d
  BY OneMore, Zenon
<1>2. NextValue(n, d) = m
  <2>1. ~(n < 0) /\ ~(m > 2 * RESP_MAX_BULK_LEN)
    BY DEF LimitsAssumption
  <2>2. QED
    BY <2>1, Zenon DEF NextValue
<1> HIDE DEF t, L
<1>3. /\ \A i \in 0 .. L + 1 : i \in 0 .. L \/ i = L + 1
      /\ \A i \in 0 .. L : i \in 0 .. L + 1 /\ i <= L /\ (i # 0 => i \in 1 .. L /\ i - 1 \in 0 .. L)
      /\ L + 1 \in 0 .. L + 1 /\ L \in 0 .. L /\ L + 1 # 0 /\ L + 1 - 1 = L /\ ~(L + 1 <= L)
  BY <1>1
<1>4. PICK h : Scans(h, s)
  BY ScansIs, Zenon DEF ReadAs
<1>5. \A f : Scans(f, s) => f[L] = n
  BY ScansIs, Zenon DEF ReadAs, L
<1> DEFINE k == [i \in 0 .. L + 1 |-> IF i <= L THEN h[i] ELSE m]
<1>6. \A i \in 0 .. L : h[i] = IF i = 0 THEN 0 ELSE NextValue(h[i - 1], s[i])
  BY <1>4, Zenon DEF Scans, L
<1>7. (\A i \in 0 .. L : k[i] = h[i]) /\ k[L + 1] = m
  BY <1>3, Zenon
<1>8. k = [i \in 0 .. Len(t) |-> k[i]]
  BY <1>1, Zenon
<1> HIDE DEF k
<1>9. ASSUME NEW i \in 0 .. L + 1
      PROVE  k[i] = IF i = 0 THEN 0 ELSE NextValue(k[i - 1], t[i])
  <2>1. CASE i = L + 1
    <3>1. k[L] = n
      BY <1>3, <1>4, <1>5, <1>7, Zenon
    <3>2. k[L + 1] = NextValue(k[L + 1 - 1], t[L + 1])
      BY <1>1, <1>2, <1>3, <1>7, <3>1, Zenon
    <3>3. QED
      BY <1>3, <2>1, <3>2
  <2>2. CASE i \in 0 .. L /\ i = 0
    BY <1>6, <1>7, <2>2, Zenon
  <2>3. CASE i \in 0 .. L /\ i # 0
    <3>1. i \in 1 .. L /\ i - 1 \in 0 .. L
      BY <1>3, <2>3, Zenon
    <3>2. h[i] = NextValue(h[i - 1], s[i])
      BY <1>6, <2>3, Zenon
    <3>3. k[i] = h[i] /\ k[i - 1] = h[i - 1] /\ t[i] = s[i]
      BY <1>1, <1>7, <2>3, <3>1, Zenon
    <3>4. k[i] = NextValue(k[i - 1], t[i])
      BY <3>2, <3>3, Zenon
    <3>5. QED
      BY <2>3, <3>4, Zenon
  <2>4. QED
    BY <1>3, <2>1, <2>2, <2>3, Zenon
<1>10. Scans(k, t)
  BY <1>1, <1>8, <1>9, Zenon DEF Scans
<1>11. ASSUME NEW f, Scans(f, t)
       PROVE  f[Len(t)] = m
  <2> DEFINE g == [i \in 0 .. L |-> f[i]]
  <2>1. \A i \in 0 .. L + 1 : f[i] = IF i = 0 THEN 0 ELSE NextValue(f[i - 1], t[i])
    BY <1>1, <1>11, Zenon DEF Scans
  <2>2. \A i \in 0 .. L : g[i] = f[i]
    BY Zenon
  <2>3. g = [i \in 0 .. Len(s) |-> g[i]]
    BY Zenon DEF L
  <2> HIDE DEF g
  <2>4. ASSUME NEW i \in 0 .. L
        PROVE  g[i] = IF i = 0 THEN 0 ELSE NextValue(g[i - 1], s[i])
    <3>1. i \in 0 .. L + 1 /\ (i # 0 => i \in 1 .. L /\ i - 1 \in 0 .. L)
      BY <1>3, Zenon
    <3>2. CASE i = 0
      BY <2>1, <2>2, <3>1, <3>2, Zenon
    <3>3. CASE i # 0
      <4>1. f[i] = NextValue(f[i - 1], t[i])
        BY <2>1, <3>1, <3>3, Zenon
      <4>2. g[i] = f[i] /\ g[i - 1] = f[i - 1] /\ t[i] = s[i]
        BY <1>1, <2>2, <3>1, <3>3, Zenon
      <4>3. QED
        BY <3>3, <4>1, <4>2, Zenon
    <3>4. QED
      BY <3>2, <3>3, Zenon
  <2>5. Scans(g, s)
    BY <2>3, <2>4, Zenon DEF Scans, L
  <2>6. f[L] = n
    BY <1>3, <1>5, <2>2, <2>5, Zenon
  <2>7. f[L + 1] = NextValue(f[L + 1 - 1], t[L + 1])
    BY <1>3, <2>1
  <2>8. QED
    BY <1>1, <1>2, <1>3, <2>6, <2>7
<1>12. QED
  BY <1>10, <1>11, ScansIs, Zenon DEF ReadAs, t

LEMMA DecimalReads ==
  ASSUME Least, LimitsAssumption, NEW n \in Nat, n <= 2 * RESP_MAX_BULK_LEN
  PROVE  parse_ll(Decimal[n]) = {n}
<1> DEFINE Q(k) == k <= 2 * RESP_MAX_BULK_LEN => ReadAs(Decimal[k], k)
           S == {i \in Nat : \A k \in 0 .. i : Q(k)}
<1>1. ASSUME NEW k \in Nat, k <= 2 * RESP_MAX_BULK_LEN,
             k >= 10 => ReadAs(Decimal[k \div 10], k \div 10)
      PROVE  ReadAs(Decimal[k], k)
  <2>1. Decimal[k] = Written(Decimal[k \div 10], k)
    BY DecimalAt, Zenon
  <2>2. CASE k < 10
    <3> DEFINE d == 48 + k
    <3>1. d \in DIGITS /\ d \in Byte /\ k = 0 * 10 + (d - 48)
      BY <2>2 DEF DIGITS, Byte
    <3>2. Decimal[k] = <<d>>
      BY <2>1, <2>2, Zenon DEF Written
    <3> HIDE DEF d
    <3>3. <<d>> = Append(<<>>, d) /\ <<>> \in Text /\ 0 \in Nat
      BY DEF Text
    <3>4. ReadAs(Append(<<>>, d), k)
      BY <1>1, <3>1, <3>3, ReadNothing, ReadOne, ZenonT(40)
    <3>5. QED
      BY <3>2, <3>3, <3>4, Zenon
  <2>3. CASE k >= 10
    <3> DEFINE t == Decimal[k \div 10]
               d == 48 + (k % 10)
               m == k \div 10
    <3>1. Decimal[k] = Append(t, d)
      <4>1. ~(k < 10)
        BY <2>3
      <4>2. QED
        BY <2>1, <4>1, Zenon DEF Written
    <3>2. d \in DIGITS /\ d \in Byte /\ m \in Nat /\ k = m * 10 + (d - 48)
      BY Tenths DEF DIGITS, Byte
    <3>3. t \in Text /\ ReadAs(t, m)
      BY <1>1, <2>3, <3>2, DecimalIs, Zenon DEF Digital
    <3> HIDE DEF t, d, m
    <3>4. ReadAs(Append(t, d), k)
      BY <1>1, <3>2, <3>3, ReadOne, Zenon
    <3>5. QED
      BY <3>1, <3>4, Zenon
  <2>4. QED
    BY <2>2, <2>3
<1>2. 0 \in S
  <2>1. 0 \in Nat /\ ~(0 >= 10) /\ \A k \in 0 .. 0 : k = 0
    OBVIOUS
  <2>2. QED
    BY <1>1, <2>1, Zenon
<1>3. ASSUME NEW i \in S
      PROVE  i + 1 \in S
  <2>1. i \in Nat /\ \A k \in 0 .. i : Q(k)
    BY Zenon
  <2>2. /\ i + 1 >= 10 => (i + 1) \div 10 \in 0 .. i
        /\ i + 1 <= 2 * RESP_MAX_BULK_LEN => (i + 1) \div 10 <= 2 * RESP_MAX_BULK_LEN
    BY <2>1 DEF LimitsAssumption
  <2>3. i + 1 \in Nat /\ \A j \in 0 .. i + 1 : j \in 0 .. i \/ j = i + 1
    BY <2>1
  <2>4. Q(i + 1)
    BY <1>1, <2>1, <2>2, <2>3, Zenon
  <2>5. QED
    BY <2>1, <2>3, <2>4, Zenon
<1>4. S = Nat
  <2>1. S \in SUBSET Nat
    BY Zenon
  <2> HIDE DEF S
  <2>2. QED
    BY <1>2, <1>3, <2>1, Induct, Zenon
<1>5. n \in 0 .. n
  OBVIOUS
<1>6. ReadAs(Decimal[n], n)
  BY <1>4, <1>5, Zenon
<1>7. Decimal[n] # <<>> /\ Decimal[n][1] # MINUS
  <2>1. Digital(Decimal[n])
    BY DecimalIs, Zenon
  <2>2. \A t \in Text : t # <<>> => 1 \in 1 .. Len(t)
    BY DEF Text
  <2>3. Decimal[n][1] \in DIGITS
    BY <2>1, <2>2, Zenon DEF Digital
  <2>4. MINUS \notin DIGITS
    BY DEF MINUS, DIGITS
  <2>5. QED
    BY <2>1, <2>3, <2>4, Zenon DEF Digital
<1>8. QED
  BY <1>6, <1>7, ValueIs, Zenon

-----------------------------------------------------------------------------
(* A header: a mark, a number in decimal and a line end.                   *)
Header(mark, k) == <<mark>> \o Decimal[k] \o CRLF

LEMMA HeaderLaid ==
  ASSUME Least, NEW mark \in Byte, NEW k \in Nat
  PROVE  /\ Header(mark, k) \in Text /\ Decimal[k] \in Text /\ CRLF \in Text /\ <<mark>> \in Text
         /\ Len(Header(mark, k)) = Len(Decimal[k]) + 3 /\ Len(Decimal[k]) \in Nat
         /\ Sits(Header(mark, k), 0, <<mark>>)
         /\ Sits(Header(mark, k), 1, Decimal[k])
         /\ Sits(Header(mark, k), Len(Decimal[k]) + 1, CRLF)
<1> DEFINE D == Decimal[k]
           M == <<mark>>
           MD == M \o D
<1>1. D \in Text
  BY DecimalIs, Zenon DEF Digital
<1>2. M \in Text /\ Len(M) = 1 /\ CRLF \in Text /\ Len(CRLF) = 2
  BY DEF Text, Byte, CRLF, CR, LF
<1>3. Header(mark, k) = MD \o CRLF
  BY Zenon DEF Header
<1> HIDE DEF D, M
<1>4. MD \in Text /\ Len(MD) = Len(D) + 1 /\ Len(D) \in Nat
  <2>1. MD \in Text /\ Len(MD) = Len(M) + Len(D)
    BY <1>1, <1>2, JoinIs, Zenon
  <2>2. Len(D) \in Nat
    BY <1>1 DEF Text
  <2>3. QED
    BY <1>2, <2>1, <2>2
<1>5. Sits(MD, 0, M) /\ Sits(MD, 1, D)
  BY <1>1, <1>2, SitsFront, Zenon
<1> HIDE DEF MD
<1>6. /\ MD \o CRLF \in Text
      /\ Len(MD \o CRLF) = Len(D) + 3
  <2>1. MD \o CRLF \in Text /\ Len(MD \o CRLF) = Len(MD) + Len(CRLF)
    BY <1>2, <1>4, JoinIs, Zenon
  <2>2. QED
    BY <1>2, <1>4, <2>1
<1>7. 0 \in Nat /\ 1 \in Nat
  OBVIOUS
<1>8. Sits(MD \o CRLF, 0, M) /\ Sits(MD \o CRLF, 1, D) /\ Sits(MD \o CRLF, Len(D) + 1, CRLF)
  BY <1>1, <1>2, <1>4, <1>5, <1>7, SitsFront, SitsOn, Zenon
<1>9. QED
  BY <1>1, <1>2, <1>3, <1>4, <1>6, <1>8, Zenon DEF D, M

(* The parser finds the mark, the number and the end of a header.          *)
HeaderAt(b, n, mark, k) ==
  /\ find_crlf(b, n + 1) = n + Len(Decimal[k]) + 2
  /\ b[n + 1] = mark
  /\ SubSeq(b, n + 2, n + Len(Decimal[k]) + 1) = Decimal[k]

LEMMA HeaderRead ==
  ASSUME Least, NEW b \in Text, NEW n \in Nat, NEW mark \in Byte, mark # CR, NEW k \in Nat,
         Sits(b, n, Header(mark, k))
  PROVE  HeaderAt(b, n, mark, k)
<1> DEFINE D == Decimal[k]
           f == n + Len(D) + 2
<1>1. /\ D \in Text /\ CRLF \in Text /\ <<mark>> \in Text /\ Len(D) \in Nat
      /\ Header(mark, k) \in Text
      /\ Sits(Header(mark, k), 0, <<mark>>)
      /\ Sits(Header(mark, k), 1, D)
      /\ Sits(Header(mark, k), Len(D) + 1, CRLF)
  BY HeaderLaid, Zenon
<1>2. \A i \in 1 .. Len(D) : D[i] \in DIGITS
  BY DecimalIs, Zenon DEF Digital
<1> HIDE DEF D
<1>3. Sits(b, n + 0, <<mark>>) /\ Sits(b, n + 1, D) /\ Sits(b, n + (Len(D) + 1), CRLF)
  <2>1. 0 \in Nat /\ 1 \in Nat /\ Len(D) + 1 \in Nat
    BY <1>1
  <2>2. QED
    BY <1>1, <2>1, SitsIn, Zenon
<1>4. b[n + 1] = mark
  <2>1. n + 0 + 1 = n + 1 /\ Len(<<mark>>) = 1 /\ 1 \in 1 .. 1 /\ <<mark>>[1] = mark
    OBVIOUS
  <2>2. QED
    BY <1>3, <2>1, Zenon DEF Sits
<1>5. \A i \in 1 .. Len(D) : b[n + 1 + i] \in DIGITS
  BY <1>2, <1>3, Zenon DEF Sits
<1>6. b[f] = CR /\ b[f + 1] = LF /\ f + 1 <= Len(b)
  <2>1. /\ n + (Len(D) + 1) + Len(CRLF) <= Len(b)
        /\ \A i \in 1 .. Len(CRLF) : b[n + (Len(D) + 1) + i] = CRLF[i]
    BY <1>3, Zenon DEF Sits
  <2>2. Len(CRLF) = 2 /\ CRLF[1] = CR /\ CRLF[2] = LF
    BY DEF CRLF
  <2>3. 1 \in 1 .. 2 /\ 2 \in 1 .. 2
    OBVIOUS
  <2>4. b[n + (Len(D) + 1) + 1] = CR /\ b[n + (Len(D) + 1) + 2] = LF
    BY <2>1, <2>2, <2>3, Zenon
  <2>5. n + (Len(D) + 1) + 1 = f /\ n + (Len(D) + 1) + 2 = f + 1
    BY <1>1
  <2>6. f + 1 <= Len(b)
    BY <1>1, <2>1, <2>2
  <2>7. QED
    BY <2>4, <2>5, <2>6, Zenon
<1>7. f \in n + 1 .. Len(b) - 1 /\ n + 1 \in Nat \ {0}
  BY <1>1, <1>6 DEF Text
<1>8. ASSUME NEW j \in n + 1 .. f - 1
      PROVE  b[j] # CR
  <2>1. j = n + 1 \/ (j - (n + 1) \in 1 .. Len(D) /\ n + 1 + (j - (n + 1)) = j)
    BY <1>1
  <2>2. CR \notin DIGITS
    BY DEF CR, DIGITS
  <2>3. QED
    BY <1>4, <1>5, <2>1, <2>2, Zenon
<1>9. n + 1 + 1 = n + 2 /\ n + 1 + Len(D) = n + Len(D) + 1
  BY <1>1
<1>10. SubSeq(b, n + 2, n + Len(D) + 1) = D
  <2>1. n + 1 \in Nat
    OBVIOUS
  <2>2. SubSeq(b, n + 1 + 1, n + 1 + Len(D)) = D
    BY <1>1, <1>3, <2>1, SitsSub, Zenon
  <2>3. QED
    BY <1>9, <2>2, Zenon
<1> HIDE DEF f
<1>11. find_crlf(b, n + 1) = f
  BY <1>6, <1>7, <1>8, CrlfSame, Zenon
<1>12. QED
  BY <1>4, <1>10, <1>11, Zenon DEF HeaderAt, D, f

-----------------------------------------------------------------------------
(* An argument as resp_reply_bulk_string writes it.                        *)
LEMMA BulkLaid ==
  ASSUME Least, NEW data \in Text
  PROVE  LET w == resp_reply_bulk_string(data)
             h == Header(DOLLAR, Len(data))
         IN  /\ w \in Text /\ h \in Text /\ CRLF \in Text
             /\ Len(h) \in Nat /\ Len(data) \in Nat
             /\ Len(w) = Len(h) + Len(data) + 2
             /\ Sits(w, 0, h) /\ Sits(w, Len(h), data) /\ Sits(w, Len(h) + Len(data), CRLF)
<1> DEFINE h == Header(DOLLAR, Len(data))
           hd == h \o data
           w == hd \o CRLF
<1>1. resp_reply_bulk_string(data) = w
  BY Zenon DEF resp_reply_bulk_string, Header
<1>2. Len(data) \in Nat /\ DOLLAR \in Byte /\ CRLF \in Text /\ Len(CRLF) = 2
  BY DEF Text, DOLLAR, Byte, CRLF, CR, LF
<1>3. h \in Text /\ Len(h) \in Nat
  <2>1. h \in Text
    BY <1>2, HeaderLaid, Zenon
  <2>2. QED
    BY <2>1 DEF Text
<1> HIDE DEF h
<1>4. /\ hd \in Text /\ Len(hd) = Len(h) + Len(data)
      /\ Sits(hd, 0, h) /\ Sits(hd, Len(h), data)
  BY <1>3, JoinIs, SitsFront, Zenon
<1> HIDE DEF hd
<1>5. w \in Text /\ Len(w) = Len(hd) + Len(CRLF)
  BY <1>2, <1>4, JoinIs, Zenon
<1>6. Len(w) = Len(h) + Len(data) + 2
  BY <1>2, <1>4, <1>5, Zenon
<1>7. 0 \in Nat
  OBVIOUS
<1>8. Sits(w, 0, h) /\ Sits(w, Len(h), data) /\ Sits(w, Len(h) + Len(data), CRLF)
  BY <1>2, <1>3, <1>4, <1>7, SitsFront, SitsOn, ZenonT(40)
<1> HIDE DEF w
<1>9. QED
  BY <1>1, <1>2, <1>3, <1>5, <1>6, <1>8, ZenonT(40) DEF h

(* parse_bulk takes it back, whatever bytes it holds, to the last one.     *)
LEMMA BulkRead ==
  ASSUME Least, LimitsAssumption, NEW b \in Text, NEW p \in Parses(b),
         NEW data \in Text, Len(data) <= RESP_MAX_BULK_LEN,
         Sits(b, p.consumed, resp_reply_bulk_string(data))
  PROVE  /\ parse_bulk(b, p)
              = Ok(Append(p.argv, data), p.consumed + Len(resp_reply_bulk_string(data)))
         /\ find_crlf(b, p.consumed + 1) - p.consumed = Len(Decimal[Len(data)]) + 2
<1> DEFINE n == p.consumed
           len == Len(data)
           w == resp_reply_bulk_string(data)
           h == Header(DOLLAR, len)
           hdr == find_crlf(b, p.consumed + 1)
           blen == parse_ll(SubSeq(b, p.consumed + 2, hdr - 1))
           last == hdr + 1 + Max(blen)
<1>1. parse_bulk(b, p) =
        IF hdr = 0 THEN NoLineEnd(Len(b) - n)
        ELSE IF b[n + 1] # DOLLAR \/ blen \cap 0 .. RESP_MAX_BULK_LEN = {} THEN Error
        ELSE IF Len(b) < last + 2 THEN Incomplete
        ELSE IF SubSeq(b, last + 1, last + 2) # CRLF THEN Error
        ELSE Ok(Append(p.argv, SubSeq(b, hdr + 2, last)), last + 2)
  BY Zenon DEF parse_bulk
<1>2. n \in Nat /\ Len(b) \in Nat /\ RESP_MAX_BULK_LEN \in Nat
  BY DEF Parses, Text, LimitsAssumption
<1>3. /\ w \in Text /\ h \in Text /\ CRLF \in Text /\ Len(h) \in Nat /\ len \in Nat
      /\ Len(w) = Len(h) + len + 2
      /\ Sits(w, 0, h) /\ Sits(w, Len(h), data) /\ Sits(w, Len(h) + len, CRLF)
  BY BulkLaid, Zenon
<1>4. DOLLAR \in Byte /\ DOLLAR # CR
  BY DEF DOLLAR, Byte, CR
<1>5. Len(h) = Len(Decimal[len]) + 3 /\ Len(Decimal[len]) \in Nat
  BY <1>3, <1>4, HeaderLaid, Zenon
<1>6. Sits(b, n + 0, h) /\ Sits(b, n + Len(h), data) /\ Sits(b, n + (Len(h) + len), CRLF)
  <2>1. 0 \in Nat /\ Len(h) + len \in Nat
    BY <1>3
  <2>2. Sits(b, n, w)
    BY Zenon
  <2> HIDE DEF n, w, h, len
  <2>3. QED
    BY <1>2, <1>3, <2>1, <2>2, SitsIn, ZenonT(40)
<1>7. n + 0 = n
  BY <1>2
<1>8. /\ hdr = n + Len(Decimal[len]) + 2 /\ b[n + 1] = DOLLAR
      /\ SubSeq(b, n + 2, n + Len(Decimal[len]) + 1) = Decimal[len]
  <2>1. Sits(b, n, h)
    BY <1>6, <1>7, Zenon
  <2>2. hdr = find_crlf(b, n + 1) /\ Sits(b, n, Header(DOLLAR, len)) /\ n \in Nat /\ len \in Nat
    BY <1>2, <1>3, <2>1, Zenon
  <2> HIDE DEF hdr, n, len
  <2>3. HeaderAt(b, n, DOLLAR, len)
    BY <1>4, <2>2, HeaderRead, Zenon
  <2>4. QED
    BY <2>2, <2>3, Zenon DEF HeaderAt
<1>9. blen = {len}
  <2>1. hdr - 1 = n + Len(Decimal[len]) + 1
    BY <1>2, <1>5, <1>8, SMTT(30)
  <2>2. SubSeq(b, n + 2, hdr - 1) = Decimal[len]
    <3> HIDE DEF hdr, n, len
    <3>1. QED
      BY <1>8, <2>1, Zenon
  <2>3. len <= 2 * RESP_MAX_BULK_LEN
    BY <1>2, <1>3
  <2>4. parse_ll(Decimal[len]) = {len}
    BY <1>3, <2>3, DecimalReads, Zenon
  <2>5. blen = parse_ll(SubSeq(b, n + 2, hdr - 1))
    BY Zenon
  <2> HIDE DEF blen, hdr, n
  <2>6. QED
    BY <2>2, <2>4, <2>5, ZenonT(40)
<1>10. Max(blen) = len /\ blen \cap 0 .. RESP_MAX_BULK_LEN # {}
  <2>1. len \in 0 .. RESP_MAX_BULK_LEN /\ len \in len .. len /\ \A x \in len .. len : x = len
    BY <1>2, <1>3
  <2>2. blen \cap len .. len # {} /\ blen \cap 0 .. RESP_MAX_BULK_LEN # {}
    BY <1>9, <2>1, Zenon
  <2>3. Max(blen) \in len .. len
    BY <1>3, <2>2, LengthIs, Zenon
  <2>4. QED
    BY <2>1, <2>2, <2>3, Zenon
<1>11. /\ last = n + (Len(h) + len) /\ hdr + 2 = n + Len(h) + 1 /\ last = n + Len(h) + len
       /\ hdr # 0 /\ last + 2 = n + Len(w) /\ hdr - n = Len(Decimal[len]) + 2
       /\ last \in Nat /\ n + Len(h) \in Nat
  <2> DEFINE m == Max(blen)
             d == Len(Decimal[len])
             k == Len(h)
             u == Len(w)
  <2>1. /\ n \in Nat /\ k \in Nat /\ len \in Nat /\ u = k + len + 2
        /\ k = d + 3 /\ d \in Nat /\ hdr = n + d + 2 /\ m = len /\ last = hdr + 1 + m
    BY <1>2, <1>3, <1>5, <1>8, <1>10, ZenonT(40)
  <2> HIDE DEF hdr, last, n, h, w, len, m, d, k, u
  <2>2. /\ last = n + (k + len) /\ hdr + 2 = n + k + 1 /\ last = n + k + len
        /\ hdr # 0 /\ last + 2 = n + u /\ hdr - n = d + 2 /\ last \in Nat /\ n + k \in Nat
    BY <2>1
  <2>3. QED
    BY <2>2, Zenon DEF d, k, u
<1> HIDE DEF hdr, blen, last, n, h, w
<1>12. ~(Len(b) < last + 2)
  <2>1. n + (Len(h) + len) + Len(CRLF) <= Len(b)
    BY <1>6, Zenon DEF Sits
  <2>2. Len(CRLF) = 2
    BY DEF CRLF
  <2>3. QED
    BY <1>2, <1>11, <2>1, <2>2
<1>13. SubSeq(b, last + 1, last + 2) = CRLF
  <2>1. Len(CRLF) = 2
    BY DEF CRLF
  <2>2. Sits(b, last, CRLF)
    BY <1>6, <1>11, Zenon
  <2>3. QED
    BY <1>3, <1>11, <2>1, <2>2, SitsSub, ZenonT(40)
<1>14. SubSeq(b, hdr + 2, last) = data
  <2>1. SubSeq(b, n + Len(h) + 1, n + Len(h) + len) = data
    BY <1>6, <1>11, SitsSub, Zenon
  <2>2. QED
    BY <1>11, <2>1, Zenon
<1>15. parse_bulk(b, p) = Ok(Append(p.argv, SubSeq(b, hdr + 2, last)), last + 2)
  BY <1>1, <1>8, <1>10, <1>11, <1>12, <1>13, ZenonT(40)
<1>16. parse_bulk(b, p) = Ok(Append(p.argv, data), n + Len(w))
  BY <1>11, <1>14, <1>15, Zenon
<1>17. QED
  BY <1>11, <1>16, Zenon DEF n, w, hdr

-----------------------------------------------------------------------------
(* Where each of several texts sits in their concatenation: the i-th one   *)
(* after the first at[i - 1] bytes.                                        *)
Lays(at, seqs, t) ==
  /\ at[0] = 0 /\ at[Len(seqs)] = Len(t) /\ t \in Text
  /\ \A i \in 0 .. Len(seqs) : at[i] \in Nat
  /\ \A i \in Nat : i + 1 \in 1 .. Len(seqs) =>
       at[i + 1] = at[i] + Len(seqs[i + 1]) /\ Sits(t, at[i], seqs[i + 1])

LEMMA ConcatLaid ==
  ASSUME Least, NEW seqs \in Seq(Text), Len(seqs) # 0
  PROVE  \E at : Lays(at, seqs, Concat(seqs))
<1> DEFINE L == Len(seqs)
<1>1. /\ L \in Nat /\ L # 0 /\ 1 \in 1 .. L /\ L \in 1 .. L /\ L \in 0 .. L /\ 0 \in 0 .. L
      /\ seqs # <<>> /\ (\A i \in 1 .. L : seqs[i] \in Text)
  OBVIOUS
<1>2. PICK f : f = FlatBody(f, seqs) /\ Concat(seqs) = f[L]
  BY <1>1, FlatExists, FlattenIs, Zenon
<1>3. f[1] = seqs[1]
  <2>1. \A F : FlatBody(F, seqs)[1] = seqs[1]
    BY <1>1, Zenon DEF FlatBody
  <2>2. QED
    BY <1>2, <2>1, Zenon
<1>4. \A k \in Nat \ {0} : k + 1 \in 1 .. L => f[k + 1] = f[k] \o seqs[k + 1]
  BY <1>2, FlatNext, Zenon
<1> DEFINE at == [i \in 0 .. L |-> IF i = 0 THEN 0 ELSE Len(f[i])]
<1>5. at[0] = 0 /\ \A i \in 1 .. L : at[i] = Len(f[i])
  <2>1. \A i \in 1 .. L : i \in 0 .. L /\ i # 0
    BY <1>1
  <2>2. QED
    BY <1>1, <2>1, Zenon
<1> HIDE DEF at
<1> DEFINE Q(k) == /\ f[k] \in Text
                   /\ \A i \in Nat : i + 1 \in 1 .. k => Sits(f[k], at[i], seqs[i + 1])
                   /\ \A i \in 1 .. k : at[i] \in Nat
           S == {k \in Nat : k + 1 \in 1 .. L => Q(k + 1)}
<1>6. 0 \in S
  <2>1. f[1] \in Text
    BY <1>1, <1>3, Zenon
  <2>2. Sits(f[1], 0, seqs[1])
    <3>1. seqs[1] \in Text
      BY <1>1, Zenon
    <3>2. \A t \in Text : Len(t) \in Nat /\ 0 + Len(t) <= Len(t)
      BY DEF Text
    <3>3. \A k \in 1 .. Len(seqs[1]) : 0 + k = k
      OBVIOUS
    <3>4. QED
      BY <1>3, <3>1, <3>2, <3>3, Zenon DEF Sits
  <2>3. 0 + 1 = 1 /\ 0 \in Nat /\ (\A i \in Nat : i + 1 \in 1 .. 1 => i = 0) /\ \A i \in 1 .. 1 : i = 1
    OBVIOUS
  <2>4. at[1] \in Nat
    <3>1. Len(f[1]) \in Nat
      BY <2>1 DEF Text
    <3>2. QED
      BY <1>1, <1>5, <3>1, Zenon
  <2>5. Q(1)
    BY <1>5, <2>1, <2>2, <2>3, <2>4, ZenonT(40)
  <2> HIDE DEF Q
  <2>6. QED
    BY <2>3, <2>5, Zenon
<1>7. ASSUME NEW n \in S
      PROVE  n + 1 \in S
  <2> DEFINE k == n + 1
  <2>1. n \in Nat /\ k \in Nat /\ k \in Nat \ {0} /\ n + 1 + 1 = k + 1 /\ k \in 1 .. k
    <3>1. n \in Nat
      BY Zenon
    <3>2. QED
      BY <3>1
  <2> HIDE DEF k
  <2>2. SUFFICES ASSUME k + 1 \in 1 .. L
                 PROVE  Q(k + 1)
    BY <2>1, Zenon DEF k
  <2>3. k \in 1 .. L
    BY <1>1, <2>1, <2>2
  <2>4. Q(k)
    BY <2>3, Zenon DEF k
  <2>5. f[k + 1] = f[k] \o seqs[k + 1] /\ seqs[k + 1] \in Text
    BY <1>1, <1>4, <2>1, <2>2, Zenon
  <2>6. f[k + 1] \in Text
    BY <2>4, <2>5, JoinIs, ZenonT(40)
  <2>7. \A i \in Nat : i + 1 \in 1 .. k + 1 =>
          i = k \/ (i + 1 \in 1 .. k /\ i + 1 \in 1 .. L /\ (i = 0 \/ i \in 1 .. k))
    BY <1>1, <2>1, <2>3
  <2>8. Sits(f[k + 1], at[k], seqs[k + 1])
    <3>1. at[k] = Len(f[k])
      BY <1>5, <2>3, Zenon
    <3>2. QED
      BY <2>4, <2>5, <3>1, SitsFront, Zenon
  <2>9. ASSUME NEW i \in Nat, i + 1 \in 1 .. k, i + 1 \in 1 .. L, i = 0 \/ i \in 1 .. k
        PROVE  Sits(f[k + 1], at[i], seqs[i + 1])
    <3>1. Sits(f[k], at[i], seqs[i + 1]) /\ seqs[i + 1] \in Text
      BY <1>1, <2>4, <2>9, Zenon
    <3>2. 0 \in Nat
      OBVIOUS
    <3>3. at[i] \in Nat
      BY <1>5, <2>4, <2>9, <3>2, Zenon
    <3>4. QED
      BY <2>4, <2>5, <3>1, <3>3, SitsOn, ZenonT(40)
  <2>10. \A i \in 1 .. k + 1 : at[i] \in Nat
    <3>1. \A i \in 1 .. k + 1 : i \in 1 .. k \/ i = k + 1
      BY <2>1
    <3>2. Len(f[k + 1]) \in Nat
      BY <2>6 DEF Text
    <3>3. at[k + 1] \in Nat
      BY <1>5, <2>2, <3>2, Zenon
    <3>4. QED
      BY <2>4, <3>1, <3>3, Zenon
  <2>11. \A i \in Nat : i + 1 \in 1 .. k + 1 => Sits(f[k + 1], at[i], seqs[i + 1])
    BY <2>7, <2>8, <2>9, ZenonT(40)
  <2>12. QED
    BY <2>6, <2>10, <2>11, ZenonT(40)
<1>8. S = Nat
  <2>1. S \in SUBSET Nat
    <3> HIDE DEF Q
    <3>1. QED
      BY Zenon
  <2> HIDE DEF S
  <2>2. QED
    BY <1>6, <1>7, <2>1, Induct, Zenon
<1>9. \A k \in 1 .. L : Q(k)
  <2>1. \A k \in 1 .. L : k - 1 \in Nat /\ k - 1 + 1 = k
    OBVIOUS
  <2> HIDE DEF Q
  <2>2. QED
    BY <1>8, <2>1, Zenon
<1>10. ASSUME NEW i \in Nat, i + 1 \in 1 .. L
       PROVE  at[i + 1] = at[i] + Len(seqs[i + 1])
  <2>1. CASE i = 0
    <3>1. 0 + 1 = 1 /\ Len(seqs[1]) = 0 + Len(seqs[1])
      BY <1>1 DEF Text
    <3>2. at[1] = Len(seqs[1])
      BY <1>1, <1>3, <1>5, Zenon
    <3>3. at[0 + 1] = at[0] + Len(seqs[0 + 1])
      BY <1>5, <3>1, <3>2
    <3>4. QED
      BY <2>1, <3>3, Zenon
  <2>2. CASE i # 0
    <3>1. i \in 1 .. L /\ i \in Nat \ {0}
      BY <1>1, <1>10, <2>2
    <3>2. f[i + 1] = f[i] \o seqs[i + 1] /\ seqs[i + 1] \in Text /\ f[i] \in Text
      BY <1>1, <1>4, <1>9, <1>10, <3>1, ZenonT(40)
    <3>3. Len(f[i + 1]) = Len(f[i]) + Len(seqs[i + 1])
      <4>1. Len(f[i] \o seqs[i + 1]) = Len(f[i]) + Len(seqs[i + 1])
        BY <3>2, JoinIs, Zenon
      <4>2. QED
        BY <3>2, <4>1, Zenon
    <3>4. QED
      BY <1>5, <1>10, <3>1, <3>3, Zenon
  <2>3. QED
    BY <2>1, <2>2, Zenon
<1>11. at[L] = Len(Concat(seqs)) /\ Concat(seqs) \in Text
  BY <1>1, <1>2, <1>5, <1>9, Zenon
<1>12. \A i \in 0 .. L : at[i] \in Nat
  <2>1. 0 \in Nat /\ \A i \in 0 .. L : i = 0 \/ i \in 1 .. L
    BY <1>1
  <2>2. \A i \in 1 .. L : at[i] \in Nat
    BY <1>1, <1>9, Zenon
  <2>3. QED
    BY <1>5, <2>1, <2>2, Zenon
<1>13. \A i \in Nat : i + 1 \in 1 .. L => Sits(Concat(seqs), at[i], seqs[i + 1])
  BY <1>1, <1>2, <1>9, Zenon
<1>14. Lays(at, seqs, Concat(seqs))
  BY <1>5, <1>10, <1>11, <1>12, <1>13, ZenonT(40) DEF Lays
<1>15. QED
  BY <1>14, Zenon

-----------------------------------------------------------------------------
(* A command the limits of resp.h admit, and its bytes as an array of bulk *)
(* strings: a header of H bytes and each argument after the one before it. *)
Admitted(argv) ==
  /\ argv \in Seq(Text) /\ Len(argv) \in 1 .. RESP_MAX_ARGC
  /\ Len(argv) <= 2 * RESP_MAX_BULK_LEN
  /\ \A i \in 1 .. Len(argv) : Len(argv[i]) <= RESP_MAX_BULK_LEN

ArrayAt(b, argv, H, at) ==
  /\ b \in Text /\ H \in Nat /\ H = Len(Header(STAR, Len(argv))) /\ at[0] = 0
  /\ Len(b) = H + at[Len(argv)] /\ Sits(b, 0, Header(STAR, Len(argv)))
  /\ \A i \in 0 .. Len(argv) : at[i] \in Nat
  /\ \A i \in Nat : i + 1 \in 1 .. Len(argv) =>
       /\ at[i + 1] = at[i] + Len(resp_reply_bulk_string(argv[i + 1]))
       /\ Sits(b, H + at[i], resp_reply_bulk_string(argv[i + 1]))

LEMMA ArrayLaid ==
  ASSUME Least, NEW argv, Admitted(argv)
  PROVE  \E H, at : ArrayAt(Multibulk(argv).bytes, argv, H, at)
<1> DEFINE A == Len(argv)
           seqs == [i \in DOMAIN argv |-> resp_reply_bulk_string(argv[i])]
           h == Header(STAR, A)
           body == Concat(seqs)
<1>1. /\ argv \in Seq(Text) /\ A \in Nat /\ A # 0 /\ DOMAIN argv = 1 .. A
      /\ \A i \in 1 .. A : argv[i] \in Text
  BY DEF Admitted
<1>2. Multibulk(argv).bytes = h \o body
  BY Zenon DEF Multibulk, Header, resp_reply_array_header
<1>3. \A i \in 1 .. A : resp_reply_bulk_string(argv[i]) \in Text
  BY <1>1, BulkLaid, Zenon
<1>4. /\ seqs \in Seq(Text) /\ Len(seqs) = A
      /\ \A i \in 1 .. A : seqs[i] = resp_reply_bulk_string(argv[i])
  <2> DEFINE w(i) == resp_reply_bulk_string(argv[i])
  <2>1. seqs = [i \in 1 .. A |-> w(i)]
    BY <1>1, Zenon
  <2> HIDE DEF w, seqs, A
  <2>2. \A i \in 1 .. A : w(i) \in Text
    BY <1>3, Zenon DEF w
  <2>3. seqs \in Seq(Text) /\ Len(seqs) = A /\ \A i \in 1 .. A : seqs[i] = w(i)
    BY <1>1, <2>1, <2>2
  <2>4. QED
    BY <2>3, Zenon DEF w
<1> HIDE DEF seqs
<1>5. PICK at : Lays(at, seqs, body)
  BY <1>1, <1>4, ConcatLaid, Zenon
<1>6. STAR \in Byte
  BY DEF STAR, Byte
<1>7. h \in Text
  BY <1>1, <1>6, HeaderLaid, Zenon
<1>8. Len(h) \in Nat
  BY <1>7 DEF Text
<1>9. body \in Text
  BY <1>5, Zenon DEF Lays
<1> HIDE DEF h, body
<1>10. /\ h \o body \in Text /\ Len(h \o body) = Len(h) + Len(body)
       /\ Sits(h \o body, 0, h) /\ Sits(h \o body, Len(h), body)
  BY <1>7, <1>9, JoinIs, SitsFront, Zenon
<1>11. Len(body) = at[A] /\ at[0] = 0 /\ \A i \in 0 .. A : at[i] \in Nat
  BY <1>4, <1>5, Zenon DEF Lays
<1>12. ASSUME NEW i \in Nat, i + 1 \in 1 .. A
       PROVE  /\ at[i + 1] = at[i] + Len(resp_reply_bulk_string(argv[i + 1]))
              /\ Sits(h \o body, Len(h) + at[i], resp_reply_bulk_string(argv[i + 1]))
  <2> DEFINE w == resp_reply_bulk_string(argv[i + 1])
  <2>1. i \in 0 .. A
    BY <1>1, <1>12
  <2>2. at[i] \in Nat /\ w \in Text /\ w = seqs[i + 1]
    BY <1>3, <1>4, <1>11, <1>12, <2>1, Zenon
  <2> HIDE DEF w
  <2>3. at[i + 1] = at[i] + Len(w) /\ Sits(body, at[i], w)
    BY <1>4, <1>5, <1>12, <2>2, Zenon DEF Lays
  <2>4. Sits(h \o body, Len(h) + at[i], w)
    BY <1>8, <1>9, <1>10, <2>2, <2>3, SitsIn, ZenonT(40)
  <2>5. QED
    BY <2>3, <2>4, Zenon DEF w
<1>13. ArrayAt(h \o body, argv, Len(h), at)
  <2>1. Len(h) = Len(Header(STAR, Len(argv))) /\ Sits(h \o body, 0, Header(STAR, Len(argv)))
    BY <1>10, Zenon DEF h
  <2>2. QED
    BY <1>8, <1>10, <1>11, <1>12, <2>1, ZenonT(40) DEF ArrayAt
<1>14. QED
  BY <1>2, <1>13, Zenon

LEMMA OneArgMore ==
  ASSUME NEW argv \in Seq(Text), NEW i \in Nat, i + 1 \in 1 .. Len(argv)
  PROVE  Append(SubSeq(argv, 1, i), argv[i + 1]) = SubSeq(argv, 1, i + 1)
OBVIOUS

(* The loop of parse_multibulk over such bytes, round by round.            *)
Taken(b, argv, H, at, i) ==
  Bulks(b, H)[i] = Ok(SubSeq(argv, 1, i), H + at[i])

TakenOneByOne(b, argv, H, at) ==
  /\ \A i \in 0 .. Len(argv) : Taken(b, argv, H, at, i)
  /\ \A i \in Nat : i + 1 \in 1 .. Len(argv) =>
       find_crlf(b, Bulks(b, H)[i].consumed + 1) - Bulks(b, H)[i].consumed
         = Len(Decimal[Len(argv[i + 1])]) + 2

LEMMA ArrayRounds ==
  ASSUME Least, LimitsAssumption, NEW b, NEW argv, Admitted(argv), NEW H, NEW at,
         ArrayAt(b, argv, H, at)
  PROVE  TakenOneByOne(b, argv, H, at)
<1> DEFINE A == Len(argv)
           Q(i) == Taken(b, argv, H, at, i)
           Short(i) == find_crlf(b, Bulks(b, H)[i].consumed + 1) - Bulks(b, H)[i].consumed
                         = Len(Decimal[Len(argv[i + 1])]) + 2
           S == {i \in Nat : i \in 0 .. A => Q(i)}
<1>1. /\ argv \in Seq(Text) /\ A \in Nat /\ A # 0 /\ A \in 0 .. A
      /\ \A i \in 1 .. A : argv[i] \in Text
  BY DEF Admitted
<1>2. /\ b \in Text /\ H \in Nat /\ at[0] = 0 /\ Len(b) = H + at[A]
      /\ (\A i \in 0 .. A : at[i] \in Nat)
  BY Zenon DEF ArrayAt
<1>3. H \in 0 .. Len(b)
  <2>1. at[A] \in Nat
    BY <1>1, <1>2, Zenon
  <2>2. QED
    BY <1>2, <2>1
<1>4. /\ Bulks(b, H)[0] = Ok(<<>>, H)
      /\ \A i \in Nat : Bulks(b, H)[i + 1] =
              IF Bulks(b, H)[i].status = "ok" THEN parse_bulk(b, Bulks(b, H)[i])
              ELSE Bulks(b, H)[i]
      /\ \A i \in Nat : Bulks(b, H)[i] \in Parses(b)
  BY <1>2, <1>3, BulksAre, Zenon
<1>5. \A a, n : Ok(a, n).status = "ok" /\ Ok(a, n).consumed = n /\ Ok(a, n).argv = a
  BY <1>2, ParsesAre, Zenon
<1>6. ASSUME NEW i \in Nat, i + 1 \in 1 .. A, Q(i)
      PROVE  Q(i + 1) /\ Short(i)
  <2> DEFINE p == Bulks(b, H)[i]
             w == resp_reply_bulk_string(argv[i + 1])
             a == SubSeq(argv, 1, i)
             n == H + at[i]
  <2>1. p \in Parses(b) /\ p = Ok(a, n)
    BY <1>4, <1>6, Zenon DEF Taken
  <2>2. Bulks(b, H)[i + 1] = IF p.status = "ok" THEN parse_bulk(b, p) ELSE p
    BY <1>4, Zenon
  <2>3. i \in 0 .. A
    BY <1>1, <1>6
  <2>4. at[i] \in Nat /\ argv[i + 1] \in Text
    BY <1>1, <1>2, <1>6, <2>3, Zenon
  <2>5. at[i + 1] = at[i] + Len(w) /\ Sits(b, n, w)
    BY <1>6, Zenon DEF ArrayAt
  <2>6. Len(argv[i + 1]) <= RESP_MAX_BULK_LEN
    BY <1>6, Zenon DEF Admitted
  <2>7. Len(w) \in Nat
    <3>1. w \in Text
      BY <2>4, BulkLaid, ZenonT(40)
    <3>2. QED
      BY <3>1 DEF Text
  <2>8. n + Len(w) = H + at[i + 1]
    <3> HIDE DEF w
    <3>1. QED
      BY <1>2, <2>4, <2>5, <2>7
  <2> HIDE DEF p, n, a
  <2>9. p.status = "ok" /\ p.consumed = n /\ p.argv = a
    BY <1>5, <2>1, Zenon
  <2>10. Sits(b, p.consumed, w)
    BY <2>5, <2>9, Zenon
  <2>11. /\ parse_bulk(b, p) = Ok(Append(p.argv, argv[i + 1]), p.consumed + Len(w))
         /\ find_crlf(b, p.consumed + 1) - p.consumed = Len(Decimal[Len(argv[i + 1])]) + 2
    BY <1>2, <2>1, <2>4, <2>6, <2>10, BulkRead, ZenonT(40)
  <2>12. Append(a, argv[i + 1]) = SubSeq(argv, 1, i + 1)
    BY <1>1, <1>6, OneArgMore, Zenon DEF a
  <2>13. Bulks(b, H)[i + 1] = Ok(SubSeq(argv, 1, i + 1), H + at[i + 1])
    BY <2>2, <2>8, <2>9, <2>11, <2>12, ZenonT(40)
  <2>14. QED
    BY <2>11, <2>13, Zenon DEF Taken, p
<1> HIDE DEF Q, Short
<1>7. 0 \in S
  <2>1. SubSeq(argv, 1, 0) = <<>> /\ H + 0 = H /\ 0 \in Nat
    BY <1>1, <1>2
  <2>2. Ok(SubSeq(argv, 1, 0), H + at[0]) = Ok(<<>>, H)
    BY <1>2, <2>1, Zenon
  <2>3. Q(0)
    BY <1>4, <2>2, Zenon DEF Q, Taken
  <2>4. QED
    BY <2>1, <2>3, Zenon
<1>8. ASSUME NEW i \in S
      PROVE  i + 1 \in S
  <2>1. i \in Nat /\ (i \in 0 .. A => Q(i))
    BY Zenon
  <2>2. i + 1 \in Nat /\ (i + 1 \in 0 .. A => i \in 0 .. A /\ i + 1 \in 1 .. A)
    BY <1>1, <2>1
  <2>3. QED
    BY <1>6, <2>1, <2>2, Zenon
<1>9. S = Nat
  <2>1. S \in SUBSET Nat
    BY Zenon
  <2> HIDE DEF S
  <2>2. QED
    BY <1>7, <1>8, <2>1, Induct, Zenon
<1>10. \A i \in 0 .. A : Q(i)
  <2>1. \A i \in 0 .. A : i \in Nat
    OBVIOUS
  <2>2. QED
    BY <1>9, <2>1, Zenon
<1>11. \A i \in Nat : i + 1 \in 1 .. A => Short(i)
  <2>1. \A i \in Nat : i + 1 \in 1 .. A => i \in 0 .. A
    BY <1>1
  <2>2. QED
    BY <1>6, <1>10, <2>1, ZenonT(40)
<1>12. QED
  BY <1>10, <1>11, Zenon DEF TakenOneByOne, Q, Short

(* The whole command is taken back, and its lines are the headers.         *)
LEMMA ArrayRead ==
  ASSUME Least, LimitsAssumption, NEW argv, Admitted(argv)
  PROVE  LET b == Multibulk(argv).bytes
         IN  /\ b \in Text
             /\ resp_parse(b) = Ok(argv, Len(b))
             /\ (\A k \in {Len(argv)} \cup {Len(argv[i]) : i \in 1 .. Len(argv)} :
                   Len(Decimal[k]) + 2 <= RESP_MAX_INLINE_LEN) => ShortLines(b)
<1> DEFINE b == Multibulk(argv).bytes
           A == Len(argv)
<1>1. PICK H, at : ArrayAt(b, argv, H, at)
  BY ArrayLaid, Zenon
<1> HIDE DEF b
<1>2. /\ argv \in Seq(Text) /\ A \in Nat /\ A # 0 /\ A \in 0 .. A /\ A \in 1 .. RESP_MAX_ARGC
      /\ A <= 2 * RESP_MAX_BULK_LEN /\ RESP_MAX_ARGC \in Nat /\ RESP_MAX_INLINE_LEN \in Nat
  BY DEF Admitted, LimitsAssumption
<1>3. /\ b \in Text /\ H \in Nat /\ Len(b) = H + at[A] /\ H = Len(Header(STAR, A))
      /\ Sits(b, 0, Header(STAR, A))
  BY <1>1, Zenon DEF ArrayAt
<1>4. STAR \in Byte /\ STAR # CR /\ 0 \in Nat
  BY DEF STAR, Byte, CR
<1> HIDE DEF A
<1>5. HeaderAt(b, 0, STAR, A)
  BY <1>2, <1>3, <1>4, HeaderRead, Zenon
<1>6. H = Len(Decimal[A]) + 3 /\ Len(Decimal[A]) \in Nat
  BY <1>2, <1>3, <1>4, HeaderLaid, ZenonT(40)
<1> DEFINE d == Len(Decimal[A])
           hdr == find_crlf(b, 1)
           argc == parse_ll(SubSeq(b, 2, hdr - 1))
<1>7. hdr = d + 2 /\ b[1] = STAR /\ SubSeq(b, 2, d + 1) = Decimal[A]
  <2>1. 0 + 1 = 1 /\ 0 + d + 2 = d + 2 /\ 0 + 2 = 2 /\ 0 + d + 1 = d + 1
    BY <1>6
  <2>2. QED
    BY <1>5, <2>1 DEF HeaderAt
<1>8. argc = {A}
  <2>1. hdr - 1 = d + 1
    BY <1>6, <1>7
  <2> HIDE DEF hdr
  <2>2. SubSeq(b, 2, hdr - 1) = Decimal[A]
    BY <1>7, <2>1, Zenon
  <2>3. parse_ll(Decimal[A]) = {A}
    BY <1>2, DecimalReads, Zenon
  <2>4. QED
    BY <2>2, <2>3, Zenon
<1>9. Max(argc) = A /\ argc \cap 1 .. RESP_MAX_ARGC # {}
  <2>1. A \in A .. A /\ \A x \in A .. A : x = A
    BY <1>2
  <2>2. argc \cap A .. A # {} /\ argc \cap 1 .. RESP_MAX_ARGC # {}
    BY <1>2, <1>8, <2>1, Zenon
  <2>3. Max(argc) \in A .. A
    BY <1>2, <2>2, LengthIs, Zenon
  <2>4. QED
    BY <2>1, <2>2, <2>3, Zenon
<1>10. hdr # 0 /\ hdr + 1 = H
  BY <1>6, <1>7
<1>11. b # <<>>
  BY <1>3, <1>6, <1>7, <1>10 DEF Sits
<1> HIDE DEF hdr, argc
<1>12. /\ \A i \in 0 .. A : Taken(b, argv, H, at, i)
       /\ \A i \in Nat : i + 1 \in 1 .. A =>
            find_crlf(b, Bulks(b, H)[i].consumed + 1) - Bulks(b, H)[i].consumed
              = Len(Decimal[Len(argv[i + 1])]) + 2
  <2>1. TakenOneByOne(b, argv, H, at)
    BY <1>1, ArrayRounds, Zenon
  <2>2. QED
    BY <2>1, Zenon DEF TakenOneByOne, A
<1>13. parse_multibulk(b) = Bulks(b, hdr + 1)[Max(argc)]
  <2>1. parse_multibulk(b) = IF hdr = 0 THEN NoLineEnd(Len(b))
                             ELSE IF argc \cap 1 .. RESP_MAX_ARGC = {} THEN Error
                             ELSE Bulks(b, hdr + 1)[Max(argc)]
    BY Zenon DEF parse_multibulk, hdr, argc
  <2>2. QED
    BY <1>9, <1>10, <2>1, Zenon
<1>14. resp_parse(b) = Ok(argv, Len(b))
  <2>1. resp_parse(b) = parse_multibulk(b)
    BY <1>7, <1>11, Zenon DEF resp_parse
  <2>2. parse_multibulk(b) = Bulks(b, H)[A]
    BY <1>9, <1>10, <1>13, Zenon
  <2>3. Bulks(b, H)[A] = Ok(SubSeq(argv, 1, A), H + at[A])
    BY <1>2, <1>12, Zenon DEF Taken
  <2>4. SubSeq(argv, 1, A) = argv
    BY <1>2 DEF A
  <2>5. QED
    BY <1>3, <2>1, <2>2, <2>3, <2>4, Zenon
<1>15. ASSUME \A k \in {A} \cup {Len(argv[i]) : i \in 1 .. A} :
                Len(Decimal[k]) + 2 <= RESP_MAX_INLINE_LEN
       PROVE  ShortLines(b)
  <2>1. hdr <= RESP_MAX_INLINE_LEN
    <3>1. d + 2 <= RESP_MAX_INLINE_LEN
      BY <1>15, Zenon
    <3>2. QED
      BY <1>7, <3>1, Zenon
  <2>2. ASSUME NEW i \in 0 .. A - 1
        PROVE  find_crlf(b, Bulks(b, H)[i].consumed + 1) - Bulks(b, H)[i].consumed
                 <= RESP_MAX_INLINE_LEN
    <3>1. i \in Nat /\ i + 1 \in 1 .. A
      BY <1>2
    <3>2. Len(Decimal[Len(argv[i + 1])]) + 2 <= RESP_MAX_INLINE_LEN
      BY <1>15, <3>1, Zenon
    <3>3. QED
      BY <1>12, <3>1, <3>2, Zenon
  <2>3. ShortLines(b) <=>
          /\ hdr <= RESP_MAX_INLINE_LEN
          /\ \A i \in 0 .. Max(argc) - 1 :
               find_crlf(b, Bulks(b, hdr + 1)[i].consumed + 1) - Bulks(b, hdr + 1)[i].consumed
                 <= RESP_MAX_INLINE_LEN
    BY <1>7, Zenon DEF ShortLines, hdr, argc
  <2>4. QED
    BY <1>9, <1>10, <2>1, <2>2, <2>3, Zenon
<1>16. QED
  BY <1>3, <1>14, <1>15, Zenon DEF b, A
=============================================================================
