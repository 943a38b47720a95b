---------------------------- MODULE MCHttpParse ----------------------------
(* Requests and responses with up to two headers (also twice the same),    *)
(* either line end, a body, an unknown method and mismatched versions, cut *)
(* off at every token.                                                     *)
EXTENDS HttpParse

H(key, value) == [key |-> key, value |-> <<SP, value>>]
HeaderLists == {<< >>, <<H("Host", "a")>>, <<H("Host", "a"), H("Host", "b")>>}

Msg(line, headers, eol) == [line |-> line, headers |-> headers, eol |-> eol, body |-> <<"data">>]

Get(h, e) == Msg(<<"GET", SP, "/", SP, "HTTP/1.1">>, h, e)
MCRequests ==
    {Get(h, <<LF>>) : h \in HeaderLists} \cup
    {Get(<<H("Host", "a")>>, <<CR, LF>>),
     Msg(<<"PATCH", SP, "/", SP, "HTTP/1.1">>, << >>, <<LF>>)}

MCResponses ==
    {Msg(<<"HTTP/1.1", SP, "200", SP, "OK">>, h, <<CR, LF>>) : h \in HeaderLists} \cup
    {Msg(<<"HTTP/1.0", SP, "405", SP, "Not", SP, "Allowed">>, << >>, <<CR, LF>>),
     Msg(<<"HTTP/1.1", SP, "404", SP, "Not", SP, "Found">>, <<H("Via", "a")>>, <<CR, LF>>),
     Msg(<<"HTTP/1.1", SP, "200", SP, "OK">>, <<H("Via", "a")>>, <<LF>>),
     Msg(<<"HTTP/1.1", SP, "OK", SP, "OK">>, << >>, <<CR, LF>>)}

MCWidth(t) == CASE t \in {SP, LF, CR, COLON, "/", "a", "b"} -> 1
                [] t \in {"HTTP/1.1", "HTTP/1.0"} -> 8
                [] OTHER -> 4
=============================================================================
