----------------------------- MODULE HttpParser -----------------------------
(***************************************************************************)
(* How http_conn parses a request (src/src/httpConn/http_conn.cpp).  The   *)
(* bytes of a request are abstracted to pieces: CR, LF, and                *)
(*   "req"  a well-formed request line, up to the "1" of HTTP/1.1          *)
(*   "ka"   "Connection:" tab "keep-alive", the one spelling recognised    *)
(*   "len"  a Content-Length header with a body of one piece               *)
(*   "pad"  one blank                                                      *)
(*   "text" anything else                                                  *)
(* parse_line() writes "NUL" over pieces, and "cut" and "len0" are what is *)
(* left of a piece whose last byte it has overwritten.                     *)
(*                                                                         *)
(* The parser's part of an http_conn is a record; positions count from 0   *)
(* and m_read_idx is the length of m_read_buf, behind which the buffer     *)
(* holds zeroes.  When the buffer is full the string functions read on     *)
(* into the next member, m_read_idx itself: its first byte is that of      *)
(* READ_BUFFER_SIZE, 2048, and on a little-endian machine a zero, so the   *)
(* strings end there too.                                                  *)
(***************************************************************************)
EXTENDS Integers, Sequences, SequencesExt

Pieces == {"req", "ka", "len", "pad", "text", "CR", "LF"}
Bytes  == Pieces \cup {"NUL", "cut", "len0"}

\* The parser's part of an http_conn.
Parser == [m_read_buf : Seq(Bytes), m_checked_idx : Nat, m_start_line : Nat,
           m_check_state : {"REQUESTLINE", "HEADER", "CONTENT"},
           m_linger : BOOLEAN, m_content_length : {0, 1}]

\* init(), the part of it that the parser uses.
init == [m_read_buf |-> <<>>, m_checked_idx |-> 0, m_start_line |-> 0,
         m_check_state |-> "REQUESTLINE", m_linger |-> FALSE,
         m_content_length |-> 0]

m_read_idx(p) == Len(p.m_read_buf)
At(p, i) == p.m_read_buf[i + 1]

\* What is left of a piece when its last byte becomes '\0'.
Cut(piece) == CASE piece \in {"req", "ka"} -> "cut"
                [] piece = "len" -> "len0"
                [] piece \in {"text", "cut", "len0"} -> piece
                [] OTHER -> "NUL"

\* The end of a line at i: the byte before i and the one at i become '\0'.  At
\* i = 0 the former is not in the buffer.
EndLine(p, i) ==
    [p EXCEPT !.m_read_buf = [k \in DOMAIN @ |-> IF k = i + 1 THEN "NUL"
                                                 ELSE IF k = i THEN Cut(@[k]) ELSE @[k]],
              !.m_checked_idx = i + 1]

\* parse_line(): the LINE_STATUS and the record it leaves.  m_checked_idx stops
\* at the first CR or LF.
parse_line(p) ==
    LET stops == {i \in p.m_checked_idx..(m_read_idx(p) - 1) : At(p, i) \in {"CR", "LF"}}
        i == Min(stops)
        stop == [p EXCEPT !.m_checked_idx = i]
    IN  CASE stops = {} ->
               [status |-> "OPEN", p |-> [p EXCEPT !.m_checked_idx = m_read_idx(p)]]
          [] stops # {} /\ At(p, i) = "CR" /\ i + 1 = m_read_idx(p) ->
               [status |-> "OPEN", p |-> stop]
          [] stops # {} /\ At(p, i) = "CR" /\ i + 1 < m_read_idx(p) /\ At(p, i + 1) = "LF" ->
               [status |-> "OK", p |-> EndLine(p, i)]
          [] stops # {} /\ At(p, i) = "LF" /\ i > 1 /\ At(p, i - 1) = "CR" ->
               [status |-> "OK", p |-> EndLine(p, i)]
          [] OTHER ->
               [status |-> "BAD", p |-> stop]

\* get_line(): the string that starts at m_start_line.
get_line(p) ==
    LET rest == SubSeq(p.m_read_buf, p.m_start_line + 1, m_read_idx(p))
    IN  IF Contains(rest, "NUL")
        THEN SubSeq(rest, 1, Min({k \in DOMAIN rest : rest[k] = "NUL"}) - 1) ELSE rest

\* The parse_ functions: the HTTP_CODE and the record they leave.
parse_request_line(p, text) ==
    IF text = <<"req">>
    THEN [ret |-> "NO_REQUEST", p |-> [p EXCEPT !.m_check_state = "HEADER"]]
    ELSE [ret |-> "BAD_REQUEST", p |-> p]

parse_headers(p, text) ==
    CASE text = <<>> /\ p.m_content_length # 0 ->
           [ret |-> "NO_REQUEST", p |-> [p EXCEPT !.m_check_state = "CONTENT"]]
      [] text = <<>> /\ p.m_content_length = 0 ->
           [ret |-> "GET_REQUEST", p |-> p]
      [] text = <<"ka">> ->
           [ret |-> "NO_REQUEST", p |-> [p EXCEPT !.m_linger = TRUE]]
      [] text # <<>> /\ text[1] \in {"len", "len0"} ->
           [ret |-> "NO_REQUEST",
            p |-> [p EXCEPT !.m_content_length = IF text[1] = "len" THEN 1 ELSE 0]]
      [] OTHER ->
           [ret |-> "NO_REQUEST", p |-> p]

\* The byte behind the content becomes '\0', which nobody reads any more.
parse_content(p) ==
    [ret |-> IF m_read_idx(p) >= p.m_content_length + p.m_checked_idx
             THEN "GET_REQUEST" ELSE "NO_REQUEST",
     p |-> p]

\* The body of the loop in process_read(), for a text that parse_line() left or
\* the content: the code it returns, NO_REQUEST when it goes on.
LoopBody(p) ==
    LET q == [p EXCEPT !.m_start_line = p.m_checked_idx]
    IN  CASE p.m_check_state = "REQUESTLINE" -> parse_request_line(q, get_line(p))
          [] p.m_check_state = "HEADER" -> parse_headers(q, get_line(p))
          [] p.m_check_state = "CONTENT" -> parse_content(q)

\* One turn of the loop.  The condition compares line_status with what
\* parse_line() returns, and the outcome of that with LINE_OK, which is 0: the
\* loop goes on when the two differ.
LoopTurn(p, line_status) ==
    LET content == p.m_check_state = "CONTENT" /\ line_status = "OK"
        parsed == parse_line(p)
        goes == content \/ parsed.status # line_status
        body == LoopBody(IF content THEN p ELSE parsed.p)
    IN  [goes |-> goes /\ body.ret = "NO_REQUEST",
         ret |-> IF goes THEN body.ret ELSE "NO_REQUEST",
         p |-> IF goes THEN body.p ELSE parsed.p,
         line_status |-> IF goes /\ p.m_check_state = "CONTENT" THEN "OPEN"
                         ELSE line_status]
=============================================================================
