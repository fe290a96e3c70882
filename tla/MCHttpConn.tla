----------------------------- MODULE MCHttpConn -----------------------------
(* HttpConn for TLC: the requests the clients send.                        *)
EXTENDS HttpConn

\* A request line and nothing else; a request as a browser sends it; one with a
\* blank behind the line and a header; and one that is too long.
MCRequests == {<<"req">>,
               <<"req", "CR", "LF", "CR", "LF">>,
               <<"req", "pad", "CR", "LF", "ka">>,
               <<"text", "LF", "len", "CR", "LF", "text", "text">>}

\* The requests a server has to answer.
MCWholeRequests == {<<"req", "CR", "LF", "CR", "LF">>}
=============================================================================
