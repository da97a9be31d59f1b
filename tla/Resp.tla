-------------------------------- MODULE Resp --------------------------------
(***************************************************************************)
(* The request parser of resp.c and the loop in which both servers call it. *)
(* TCP hands a server the client's bytes in pieces of any size; after every *)
(* read the server parses as many complete commands as its buffer holds and *)
(* keeps the rest.  A byte is its code, a byte string a sequence of codes.  *)
(* Allocation failures are left out.                                        *)
(***************************************************************************)
EXTENDS Integers, Sequences, FiniteSetsExt

CONSTANTS
    RESP_MAX_ARGC,        \* limits of resp.h
    RESP_MAX_BULK_LEN,
    RESP_MAX_INLINE_LEN,
    Requests,             \* what clients send: [argv |-> ..., bytes |-> ...]
    Junk,                 \* byte strings that are not the start of a command
    NameCap,              \* the size of the buffer for a name in an error text
    MaxRequests,          \* bound: requests sent on the connection
    READ_CHUNK            \* bound: bytes one read returns

ASSUME LimitsAssumption ==
    /\ {RESP_MAX_ARGC, RESP_MAX_BULK_LEN, RESP_MAX_INLINE_LEN, NameCap} \subseteq Nat \ {0}
    /\ MaxRequests \in Nat /\ READ_CHUNK \in Nat \ {0}

ASSUME BytesAssumption ==
    {r.bytes : r \in Requests} \cup Junk \subseteq Seq(0 .. 255)

VARIABLES
    sent,     \* the requests of the client so far
    junk,     \* the client has sent junk (nothing it sends later has a meaning)
    wire,     \* bytes sent and not yet read
    received, \* every byte read so far
    buf,      \* the connection's input buffer
    taken,    \* the argument vectors handed to cmd_dispatch
    failed    \* a protocol error was met: the connection is being closed

vars == <<sent, junk, wire, received, buf, taken, failed>>

-----------------------------------------------------------------------------
LF == 10
CR == 13
SP == 32
DOLLAR == 36
STAR == 42
MINUS == 45
QUESTION == 63
DIGITS == 48 .. 57
CRLF == <<CR, LF>>

isspace(b) == b \in 9 .. 13 \cup {SP}

\* The decimal digits of a number, as snprintf writes them.
Decimal[n \in Nat] ==
    IF n < 10 THEN <<48 + n>> ELSE Append(Decimal[n \div 10], 48 + (n % 10))

\* Texts one after the other.
Concat(texts) ==
    LET upto[i \in 1 .. Len(texts)] == IF i = 1 THEN texts[i] ELSE upto[i - 1] \o texts[i]
    IN  IF texts = <<>> THEN <<>> ELSE upto[Len(texts)]

resp_reply_bulk_string(data) == <<DOLLAR>> \o Decimal[Len(data)] \o CRLF \o data \o CRLF

resp_reply_array_header(n) == <<STAR>> \o Decimal[n] \o CRLF

\* How a client writes a command: an array of bulk strings, the shape of the
\* server's own array replies, or words on a line.
Multibulk(argv) ==
    [argv |-> argv,
     bytes |-> resp_reply_array_header(Len(argv))
                 \o Concat([i \in DOMAIN argv |-> resp_reply_bulk_string(argv[i])])]

InlineLine(argv, gap, eol) ==
    [argv |-> argv,
     bytes |-> Concat([i \in DOMAIN argv |-> argv[i] \o gap]) \o eol]

-----------------------------------------------------------------------------
\* Where the first CR LF at or after `from' starts; 0 when there is none.
find_crlf(b, from) ==
    LET ends == {i \in from .. Len(b) - 1 : b[i] = CR /\ b[i + 1] = LF}
    IN  IF ends = {} THEN 0 ELSE Min(ends)

\* Where the first LF is, in the same way.
find_lf(b) ==
    LET ends == {i \in DOMAIN b : b[i] = LF}
    IN  IF ends = {} THEN 0 ELSE Min(ends)

\* The number the bytes write, as a set: empty when they are no number or it
\* is beyond twice the largest length.  -1 marks a refusal along the way.
parse_ll(b) ==
    LET digits == IF b # <<>> /\ b[1] = MINUS THEN Tail(b) ELSE b
        value[i \in 0 .. Len(digits)] ==
            LET next == value[i - 1] * 10 + (digits[i] - 48)
            IN  IF i = 0 THEN 0
                ELSE IF \/ value[i - 1] < 0 \/ digits[i] \notin DIGITS
                        \/ next > 2 * RESP_MAX_BULK_LEN
                THEN -1 ELSE next
        v == value[Len(digits)]
    IN  IF digits = <<>> \/ v < 0 THEN {} ELSE {IF digits = b THEN v ELSE -v}

Ok(argv, n) == [status |-> "ok", argv |-> argv, consumed |-> n]
Incomplete == [status |-> "incomplete", argv |-> <<>>, consumed |-> 0]
Error == [status |-> "error", argv |-> <<>>, consumed |-> 0]

\* Mutant: the limit is tested as if it were one shorter.
NoLineEndEarly(n) == IF n >= RESP_MAX_INLINE_LEN THEN Error ELSE Incomplete

\* No line end among the last n bytes of the buffer: wait, up to a limit.
NoLineEnd(n) == IF n > RESP_MAX_INLINE_LEN THEN Error ELSE Incomplete

\* Mutant: an argument ends at the next CR LF, whatever its length says.
parse_bulk_by_line(b, p) ==
    LET hdr == find_crlf(b, p.consumed + 1)
        end == find_crlf(b, hdr + 2)
    IN  IF hdr = 0 \/ end = 0 THEN Incomplete
        ELSE Ok(Append(p.argv, SubSeq(b, hdr + 2, end - 1)), end + 1)

\* One round of parse_multibulk's loop: the bulk string after what p consumed.
parse_bulk(b, p) ==
    LET hdr == find_crlf(b, p.consumed + 1)
        blen == parse_ll(SubSeq(b, p.consumed + 2, hdr - 1))
        last == hdr + 1 + Max(blen)
    IN  IF hdr = 0 THEN NoLineEnd(Len(b) - p.consumed)
        ELSE IF b[p.consumed + 1] # DOLLAR \/ blen \cap 0 .. RESP_MAX_BULK_LEN = {} THEN Error
        ELSE IF Len(b) < last + 2 THEN Incomplete
        ELSE IF SubSeq(b, last + 1, last + 2) # CRLF THEN Error
        ELSE Ok(Append(p.argv, SubSeq(b, hdr + 2, last)), last + 2)

\* What the loop has made of the arguments after the first n bytes, round by
\* round.
Bulks(b, n) ==
    LET upto[i \in Nat] ==
            IF i = 0 THEN Ok(<<>>, n)
            ELSE LET p == upto[i - 1]
                 IN  IF p.status = "ok" THEN parse_bulk(b, p) ELSE p
    IN  upto

parse_multibulk(b) ==
    LET hdr == find_crlf(b, 1)
        argc == parse_ll(SubSeq(b, 2, hdr - 1))
    IN  IF hdr = 0 THEN NoLineEnd(Len(b))
        ELSE IF argc \cap 1 .. RESP_MAX_ARGC = {} THEN Error
        ELSE Bulks(b, hdr + 1)[Max(argc)]

\* The words of a line, in order: the stretches of bytes that are not spaces.
Words(line) ==
    LET inside(i) == i \in DOMAIN line /\ ~isspace(line[i])
        starts == {i \in DOMAIN line : inside(i) /\ ~inside(i - 1)}
        start(n) == CHOOSE i \in starts : Cardinality({j \in starts : j <= i}) = n
        end(i) == Min({j \in i .. Len(line) : ~inside(j + 1)})
    IN  [n \in 1 .. Cardinality(starts) |-> SubSeq(line, start(n), end(start(n)))]

\* A line without a word is a command without arguments, which is skipped.
parse_inline(b) ==
    LET eol == find_lf(b)
        text == IF eol > 1 /\ b[eol - 1] = CR THEN eol - 2 ELSE eol - 1
    IN  IF eol = 0 THEN NoLineEnd(Len(b))
        ELSE Ok(Words(SubSeq(b, 1, text)), eol)

resp_parse(b) ==
    IF b = <<>> THEN Incomplete
    ELSE IF b[1] = STAR THEN parse_multibulk(b)
    ELSE parse_inline(b)

conn_in_append(b, data) == b \o data

\* Mutant: what follows the first command in the buffer is lost.
conn_in_consume_all(b, n) == IF n = 0 THEN b ELSE <<>>

conn_in_consume(b, n) == SubSeq(b, n + 1, Len(b))

\* One round of the servers' loop: a command is taken off the front of the
\* buffer, or the loop ends, for it is incomplete (it stays) or wrong (nothing
\* after it is looked at).
Round(p) ==
    LET r == resp_parse(p.rest)
    IN  IF r.status = "ok"
        THEN [p EXCEPT !.cmds = Append(@, r.argv), !.rest = conn_in_consume(@, r.consumed)]
        ELSE [p EXCEPT !.more = FALSE, !.failed = (r.status = "error")]

Rounds(b) ==
    LET upto[i \in Nat] ==
            IF i = 0 THEN [cmds |-> <<>>, rest |-> b, failed |-> FALSE, more |-> TRUE]
            ELSE LET p == upto[i - 1]
                 IN  IF p.more THEN Round(p) ELSE p
    IN  upto

\* A round that does not end the loop takes a byte or more.
conn_process_input(b) == Rounds(b)[Len(b) + 1]

\* Mutant: the name is copied as it is.
safe_tokenRaw(arg) == SubSeq(arg, 1, Min({Len(arg), NameCap - 1}))

\* A name fit for an error text: cut short, control bytes masked.
safe_token(arg) ==
    [i \in 1 .. Min({Len(arg), NameCap - 1}) |->
        IF arg[i] < 32 \/ arg[i] = 127 THEN QUESTION
        ELSE IF arg[i] \in 65 .. 90 THEN arg[i] + 32 ELSE arg[i]]

resp_reply_error(text) == <<MINUS>> \o text \o CRLF

\* cmd_dispatch's answer to a command whose name is not in its table.
UnknownCommand(argv) ==
    IF argv = <<>> THEN <<>> ELSE resp_reply_error(safe_token(argv[1]))

-----------------------------------------------------------------------------
Init ==
    /\ sent = <<>> /\ junk = FALSE /\ wire = <<>> /\ received = <<>>
    /\ buf = <<>> /\ taken = <<>> /\ failed = FALSE

\* The client sends a command, without waiting for anything.
Send(r) ==
    /\ Len(sent) < MaxRequests /\ ~junk
    /\ sent' = Append(sent, r)
    /\ wire' = wire \o r.bytes
    /\ UNCHANGED <<junk, received, buf, taken, failed>>

SendJunk(bytes) ==
    /\ ~junk
    /\ junk' = TRUE
    /\ wire' = wire \o bytes
    /\ UNCHANGED <<sent, received, buf, taken, failed>>

\* One read of n bytes, appended to the buffer, and the parse loop.
Read(n) ==
    /\ n <= Len(wire) /\ ~failed
    /\ LET got == SubSeq(wire, 1, n)
           r == conn_process_input(conn_in_append(buf, got))
       IN  /\ received' = received \o got
           /\ wire' = SubSeq(wire, n + 1, Len(wire))
           /\ buf' = r.rest
           /\ taken' = taken \o r.cmds
           /\ failed' = r.failed
    /\ UNCHANGED <<sent, junk>>

Next ==
    \/ \E r \in Requests : Send(r)
    \/ \E bytes \in Junk : SendJunk(bytes)
    \/ \E n \in 1 .. READ_CHUNK : Read(n)

Spec == Init /\ [][Next]_vars

-----------------------------------------------------------------------------
\* However the client's bytes are cut into reads, a command is handed on once
\* its last byte is read, not earlier and not altered, and in the order sent;
\* and no command that is whole waits in the buffer (resp_parse's contract in
\* resp.h, and the loop of conn_process_input and handle_conn).
Delivered ==
    /\ \A i \in DOMAIN taken \cap DOMAIN sent : taken[i] = sent[i].argv
    /\ ~junk => Len(taken) <= Len(sent) /\ ~failed
    /\ Len(taken) < Len(sent) => Len(buf) < Len(sent[Len(taken) + 1].bytes)

\* What has been parsed depends on the bytes read and not on how many reads
\* brought them, junk included (the servers call resp_parse again from the
\* start of the buffer after every read, without keeping any parser state).
SplitIndependent ==
    LET whole == conn_process_input(received)
    IN  taken = whole.cmds /\ buf = whole.rest /\ failed = whole.failed

\* The lines of the command at the front of b that the parser must find the
\* end of are within its limit: the line itself, or the header of the array
\* and the one of each argument.
ShortLines(b) ==
    IF b[1] # STAR THEN find_lf(b) - 1 <= RESP_MAX_INLINE_LEN
    ELSE LET hdr == find_crlf(b, 1)
             argc == Max(parse_ll(SubSeq(b, 2, hdr - 1)))
             header(n) == find_crlf(b, n + 1) - n
         IN  /\ hdr <= RESP_MAX_INLINE_LEN
             /\ \A i \in 0 .. argc - 1 :
                    header(Bulks(b, hdr + 1)[i].consumed) <= RESP_MAX_INLINE_LEN

\* The bytes of every request write its argument vector and nothing else, in
\* short lines.
RequestsFit ==
    \A r \in Requests :
        resp_parse(r.bytes) = Ok(r.argv, Len(r.bytes)) /\ ShortLines(r.bytes)

\* Every proper prefix of bytes that parse as a command is incomplete: never
\* a shorter command, never an error (resp_parse, as README.md words it).
PrefixesIncomplete ==
    LET all == buf \o wire
        r == resp_parse(all)
    IN  r.status = "ok" =>
          \A n \in 0 .. r.consumed - 1 : resp_parse(SubSeq(all, 1, n)) = Incomplete

\* The client counts its replies by their line ends: one for each command
\* that is not blank, whatever bytes the unknown names hold (cmd_dispatch and
\* safe_token in cmd.c, resp_reply_error).
OneLinePerCommand ==
    LET text == Concat([i \in DOMAIN taken |-> UnknownCommand(taken[i])])
    IN  Cardinality({i \in DOMAIN text : text[i] \in {CR, LF}})
          = 2 * Cardinality({i \in DOMAIN taken : taken[i] # <<>>})

=============================================================================
