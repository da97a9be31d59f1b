------------------------------ MODULE MCResp --------------------------------
(* Instances of Resp: arguments that hold the protocol's own bytes.         *)
EXTENDS Resp

X == 120

\* Empty, the line end itself, and the header of another argument.
MCArgs == {<<>>, CRLF, <<DOLLAR, 49>> \o CRLF}

MCMultibulk ==
    {Multibulk(<<a>>) : a \in MCArgs} \cup {Multibulk(<<a, b>>) : a, b \in MCArgs}

\* Lines ended by CR LF or LF, a blank one and one of two words among them.
MCInline ==
    {InlineLine(argv, gap, eol) :
        argv \in {<<>>, <<<<X, X>>>>, <<<<X>>, <<STAR, DOLLAR>>>>},
        gap \in {<<SP>>, <<SP, SP>>}, eol \in {CRLF, <<LF>>}}

MCRequests == MCMultibulk \cup MCInline

\* A count, a length and a terminator that are wrong, and a line without end.
MCJunk == {<<STAR, X>> \o CRLF, <<STAR, 48>> \o CRLF,
           <<STAR, 49>> \o CRLF \o <<X>> \o CRLF,
           <<STAR, 49>> \o CRLF \o <<DOLLAR, MINUS, 49>> \o CRLF,
           <<STAR, 49>> \o CRLF \o <<DOLLAR, 49>> \o CRLF \o <<X, X, X>>,
           <<X, SP, CR>>}

=============================================================================
