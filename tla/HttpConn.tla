------------------------------ MODULE HttpConn ------------------------------
(***************************************************************************)
(* http_conn (src/src/httpConn/http_conn.cpp) between the main thread of   *)
(* web_server.cpp, which reads, writes and accepts, and the workers of the *)
(* thread pool, which run process().                                       *)
(*                                                                         *)
(* The module follows one descriptor, the element of users[] that belongs  *)
(* to it, and the connections that get the descriptor one after another.   *)
(* As the class expects, init() is called with the accepted descriptor     *)
(* (what web_server.cpp passes instead is the subject of WebServer).       *)
(* EPOLLONESHOT disarms a descriptor with every event; modfd() arms it     *)
(* again and reports what is already there.                                *)
(*                                                                         *)
(* The response is a header of HeaderLen units and, for a file, FileLen    *)
(* more; a writev() may take any number of them.  A file keeps its size    *)
(* from stat() to the last writev().                                       *)
(***************************************************************************)
EXTENDS HttpParser, FiniteSets

CONSTANTS Workers,
          READ_BUFFER_SIZE,
          Requests,       \* what a client may send
          Files,          \* what do_request() may find
          HeaderLen, FileLen,
          MaxConns        \* bound: connections that get the descriptor

ASSUME HttpAssumption ==
    /\ IsFiniteSet(Workers)
    /\ READ_BUFFER_SIZE \in Nat \ {0}
    /\ Requests \subseteq Seq(Pieces)
    /\ Files \subseteq {"missing", "forbidden", "directory", "empty", "file", "unmappable"}
    /\ HeaderLen \in Nat \ {0} /\ FileLen \in Nat \ {0} /\ MaxConns \in Nat

VARIABLES
    \* the socket
    open,           \* the descriptor is open, and in the epoll set
    armed,          \* what the epoll set waits for: none, IN or OUT
    unsent, data,   \* what the client will send, and what it sent unread
    gone,           \* the client has closed its end
    room,           \* there is room in the send buffer
    conns,          \* connections accepted so far
    \* users[fd]
    valid,          \* m_sockfd is not -1
    http,           \* the parser's part
    m_write_idx, m_iv_count,
    mapped,         \* m_file_address: null, a mapped file, or failed (MAP_FAILED)
    \* the threads
    main,           \* idle, an event IN, OUT or HUP in hand, or write
    bytes_to_send, bytes_have_send,
    pool,           \* how often users + fd is in the pool's queue
    pc,             \* workers: wait, parse, close, forget, modfd
    line_status,    \* workers: the local variable of process_read()
    \* history
    refused,        \* append() refused the connection's request
    answered,       \* the client was sent some of the last response made for it
    late            \* a worker has touched users[fd] after closing, when the
                    \* descriptor already belonged to the next connection

socket  == <<open, armed, unsent, data, gone, room, conns>>
user    == <<valid, http, m_write_idx, m_iv_count, mapped>>
threads == <<main, bytes_to_send, bytes_have_send, pool, pc, line_status>>
history == <<refused, answered, late>>
vars    == <<socket, user, threads, history>>

Init ==
    /\ open = FALSE /\ armed = "none" /\ unsent = <<>> /\ data = <<>>
    /\ gone = FALSE /\ room = TRUE /\ conns = 0
    /\ valid = FALSE /\ http = init /\ m_write_idx = 0 /\ m_iv_count = 0
    /\ mapped = "null"
    /\ main = "idle" /\ bytes_to_send = 0 /\ bytes_have_send = 0 /\ pool = 0
    /\ pc = [w \in Workers |-> "wait"]
    /\ line_status = [w \in Workers |-> "OK"]
    /\ refused = FALSE /\ answered = FALSE /\ late = FALSE
-----------------------------------------------------------------------------
(* The client.                                                             *)

ClientSends ==
    /\ open /\ ~gone
    /\ \E k \in 1..Len(unsent) :
          /\ data' = data \o SubSeq(unsent, 1, k)
          /\ unsent' = SubSeq(unsent, k + 1, Len(unsent))
    /\ UNCHANGED <<open, armed, gone, room, conns, user, threads, history>>

ClientReads ==
    /\ open /\ ~gone /\ ~room
    /\ room' = TRUE
    /\ UNCHANGED <<open, armed, unsent, data, gone, conns, user, threads, history>>

ClientLeaves ==
    /\ open /\ ~gone
    /\ gone' = TRUE
    /\ UNCHANGED <<open, armed, unsent, data, room, conns, user, threads, history>>
-----------------------------------------------------------------------------
(* What both kinds of threads call.                                        *)

modfd(ev) == armed' = IF valid /\ open THEN ev ELSE armed

\* removefd(): the descriptor leaves the epoll set and is closed.
removefd ==
    /\ open' = FALSE /\ armed' = "none" /\ unsent' = <<>> /\ data' = <<>>
    /\ gone' = FALSE /\ room' = TRUE

close_conn ==
    IF valid THEN removefd /\ valid' = FALSE
             ELSE UNCHANGED <<open, armed, unsent, data, gone, room, valid>>
-----------------------------------------------------------------------------
(* The main thread.                                                        *)

\* accept() returns the descriptor; init() arms it and clears the buffers.
Accept ==
    /\ main = "idle" /\ ~open /\ conns < MaxConns
    /\ conns' = conns + 1
    /\ open' = TRUE /\ armed' = "IN" /\ data' = <<>> /\ gone' = FALSE /\ room' = TRUE
    /\ unsent' \in Requests
    /\ valid' = TRUE /\ http' = init /\ m_write_idx' = 0
    /\ refused' = FALSE /\ answered' = FALSE
    /\ UNCHANGED <<m_iv_count, mapped, threads, late>>

\* The bug of registering the descriptor without EPOLLONESHOT.
EpollWaitKeepsArmed ==
    /\ main = "idle" /\ armed # "none"
    /\ \/ gone /\ main' = "HUP"
       \/ ~gone /\ armed = "IN" /\ data # <<>> /\ main' = "IN"
       \/ ~gone /\ armed = "OUT" /\ room /\ main' = "OUT"
    /\ UNCHANGED <<socket, user, bytes_to_send, bytes_have_send, pool, pc,
                   line_status, history>>

\* epoll_wait() reports the descriptor and disarms it.
EpollWait ==
    /\ main = "idle" /\ armed # "none"
    /\ \/ gone /\ main' = "HUP"
       \/ ~gone /\ armed = "IN" /\ data # <<>> /\ main' = "IN"
       \/ ~gone /\ armed = "OUT" /\ room /\ main' = "OUT"
    /\ armed' = "none"
    /\ UNCHANGED <<open, unsent, data, gone, room, conns, user, bytes_to_send,
                   bytes_have_send, pool, pc, line_status, history>>

Hangup ==
    /\ main = "HUP"
    /\ main' = "idle"
    /\ close_conn
    /\ UNCHANGED <<conns, http, m_write_idx, m_iv_count, mapped, bytes_to_send,
                   bytes_have_send, pool, pc, line_status, history>>

\* read(): recv() until EAGAIN.  The stream may have ended in the meantime.  When
\* the buffer is full recv() is asked for 0 bytes: it returns 0, like at the end of
\* the stream, if there is more to read, and fails with EAGAIN if there is not.  So
\* a request that fills the buffer exactly is read with success, and the check at
\* the head of read() finds the buffer full at the next call.
ReadSucceeds ==
    /\ valid /\ ~gone
    /\ m_read_idx(http) < READ_BUFFER_SIZE
    /\ m_read_idx(http) + Len(data) <= READ_BUFFER_SIZE

\* The bytes recv() puts into the buffer, and the bug of not asking for less
\* than what is left of it.
ReceivedAll == http.m_read_buf \o data
Received == SubSeq(ReceivedAll, 1, Min({READ_BUFFER_SIZE, Len(ReceivedAll)}))

Fill == http' = [http EXCEPT !.m_read_buf = IF valid THEN Received ELSE @]

\* read() returns true: the request is appended to the pool's queue, or, when
\* that is too long, dropped without a word.
ReadAppend ==
    /\ main = "IN" /\ ReadSucceeds
    /\ main' = "idle"
    /\ Fill /\ data' = <<>>
    /\ \/ pool' = pool + 1 /\ UNCHANGED refused
       \/ UNCHANGED pool /\ refused' = TRUE
    /\ UNCHANGED <<open, armed, unsent, gone, room, conns, valid, m_write_idx,
                   m_iv_count, mapped, bytes_to_send, bytes_have_send, pc,
                   line_status, answered, late>>

ReadFails ==
    /\ main = "IN" /\ ~ReadSucceeds
    /\ main' = "idle"
    /\ Fill
    /\ close_conn
    /\ UNCHANGED <<conns, m_write_idx, m_iv_count, mapped, bytes_to_send,
                   bytes_have_send, pool, pc, line_status, history>>

\* write(): there may be nothing to write.
Write ==
    /\ main = "OUT"
    /\ bytes_to_send' = m_write_idx /\ bytes_have_send' = 0
    /\ IF m_write_idx = 0
       THEN main' = "idle" /\ modfd("IN") /\ http' = init
       ELSE main' = "write" /\ UNCHANGED <<armed, http>>
    /\ UNCHANGED <<open, unsent, data, gone, room, conns, valid, m_write_idx,
                   m_iv_count, mapped, pool, pc, line_status, history>>

\* writev() is given MAP_FAILED for the file: it fails with EFAULT and sends nothing.
BadAddress == m_iv_count = 2 /\ mapped = "failed"

ResponseLen == m_write_idx + (IF m_iv_count = 2 THEN FileLen ELSE 0)

\* writev() takes k units, always from the first one on.  The counts start with
\* the length of the header, and write() is done when no more is left than was
\* sent; without keep-alive it returns false and the connection is closed.
Writev(k) ==
    LET left == bytes_to_send - k
        have == bytes_have_send + k
    IN  /\ main = "write" /\ valid /\ room /\ ~BadAddress
        /\ answered' = TRUE
        /\ IF left > have
           THEN /\ bytes_to_send' = left /\ bytes_have_send' = have
                /\ room' \in BOOLEAN
                /\ UNCHANGED <<main, mapped, open, armed, unsent, data, gone, valid,
                               http, m_write_idx>>
           ELSE /\ bytes_to_send' = 0 /\ bytes_have_send' = 0
                /\ main' = "idle" /\ mapped' = "null"
                /\ IF http.m_linger
                   THEN /\ http' = init /\ m_write_idx' = 0 /\ modfd("IN")
                        /\ UNCHANGED <<open, unsent, data, gone, room, valid>>
                   ELSE close_conn /\ UNCHANGED <<http, m_write_idx>>
        /\ UNCHANGED <<conns, m_iv_count, pool, pc, line_status, refused, late>>

\* The bug of giving the file back before all of it was written.
WritevAgainUnmaps ==
    /\ main = "write" /\ valid /\ ~room
    /\ main' = "idle"
    /\ mapped' = "null"
    /\ modfd("OUT")
    /\ UNCHANGED <<open, unsent, data, gone, room, conns, valid, http, m_write_idx,
                   m_iv_count, bytes_to_send, bytes_have_send, pool, pc,
                   line_status, history>>

\* EAGAIN: write() is called again when there is room.
WritevAgain ==
    /\ main = "write" /\ valid /\ ~room /\ ~BadAddress
    /\ main' = "idle"
    /\ modfd("OUT")
    /\ UNCHANGED <<open, unsent, data, gone, room, conns, user, bytes_to_send,
                   bytes_have_send, pool, pc, line_status, history>>

WritevFails ==
    /\ main = "write" /\ (gone \/ ~valid \/ BadAddress)
    /\ main' = "idle"
    /\ mapped' = "null"
    /\ close_conn
    /\ UNCHANGED <<conns, http, m_write_idx, m_iv_count, bytes_to_send,
                   bytes_have_send, pool, pc, line_status, history>>
-----------------------------------------------------------------------------
(* A worker: run() takes the connection and calls process().               *)

Take(w) ==
    /\ pc[w] = "wait" /\ pool > 0
    /\ pool' = pool - 1
    /\ pc' = [pc EXCEPT ![w] = "parse"]
    /\ line_status' = [line_status EXCEPT ![w] = "OK"]
    /\ UNCHANGED <<socket, user, main, bytes_to_send, bytes_have_send, history>>

Turn(w) == LoopTurn(http, line_status[w])

\* The actions with a parameter t handle that turn t of the loop.
\* process_read() goes on.  When a turn changes nothing the loop never ends.
ParseMore(w, t) ==
    /\ t.goes
    /\ http' = t.p
    /\ line_status' = [line_status EXCEPT ![w] = t.line_status]
    /\ UNCHANGED <<socket, valid, m_write_idx, m_iv_count, mapped, main,
                   bytes_to_send, bytes_have_send, pool, pc, history>>

\* The bug of waiting for more without arming the descriptor again.
ParseOpenForgets(w, t) ==
    /\ ~t.goes /\ t.ret = "NO_REQUEST"
    /\ http' = t.p
    /\ pc' = [pc EXCEPT ![w] = "wait"]
    /\ UNCHANGED <<socket, valid, m_write_idx, m_iv_count, mapped, main,
                   bytes_to_send, bytes_have_send, pool, line_status, history>>

\* NO_REQUEST: more has to be read.
ParseOpen(w, t) ==
    /\ ~t.goes /\ t.ret = "NO_REQUEST"
    /\ http' = t.p
    /\ pc' = [pc EXCEPT ![w] = "wait"]
    /\ modfd("IN")
    /\ UNCHANGED <<open, unsent, data, gone, room, conns, valid, m_write_idx,
                   m_iv_count, mapped, main, bytes_to_send, bytes_have_send, pool,
                   line_status, history>>

\* process_write() fills the header; the second part of m_iv is the file.
Respond(w, iv_count) ==
    /\ pc' = [pc EXCEPT ![w] = "wait"]
    /\ m_write_idx' = m_write_idx + HeaderLen /\ m_iv_count' = iv_count
    /\ answered' = FALSE
    /\ modfd("OUT")

\* The request is malformed, or do_request() finds no file it may send.
AnswerError(w, t) ==
    /\ ~t.goes
    /\ \/ t.ret = "BAD_REQUEST"
       \/ t.ret = "GET_REQUEST" /\ Files \ {"empty", "file", "unmappable"} # {}
    /\ http' = t.p
    /\ Respond(w, 1)
    /\ UNCHANGED <<open, unsent, data, gone, room, conns, valid, mapped, main,
                   bytes_to_send, bytes_have_send, pool, line_status, refused, late>>

\* do_request() maps the file.  open() or mmap() may fail, at which nobody looks:
\* then m_file_address is MAP_FAILED and the response is made all the same.
AnswerFile(w, t) ==
    /\ ~t.goes
    /\ t.ret = "GET_REQUEST"
    /\ \/ "file" \in Files /\ mapped' = "file"
       \/ "unmappable" \in Files /\ mapped' = "failed"
    /\ http' = t.p
    /\ Respond(w, 2)
    /\ UNCHANGED <<open, unsent, data, gone, room, conns, valid, main,
                   bytes_to_send, bytes_have_send, pool, line_status, refused, late>>

\* A file without contents: mmap() fails with MAP_FAILED, which is not null, and
\* process_write() falls through to the default case and fails.
AnswerEmpty(w, t) ==
    /\ ~t.goes
    /\ t.ret = "GET_REQUEST" /\ "empty" \in Files
    /\ http' = t.p
    /\ mapped' = "failed"
    /\ m_write_idx' = m_write_idx + HeaderLen
    /\ pc' = [pc EXCEPT ![w] = "close"]
    /\ UNCHANGED <<socket, valid, m_iv_count, main, bytes_to_send,
                   bytes_have_send, pool, line_status, history>>

\* close_conn() in a worker: the descriptor is free before m_sockfd says so, ...
CloseFd(w) ==
    /\ pc[w] = "close"
    /\ pc' = [pc EXCEPT ![w] = IF valid THEN "forget" ELSE "modfd"]
    /\ IF valid THEN removefd ELSE UNCHANGED <<open, armed, unsent, data, gone, room>>
    /\ UNCHANGED <<conns, user, main, bytes_to_send, bytes_have_send, pool,
                   line_status, history>>

Forget(w) ==
    /\ pc[w] = "forget"
    /\ pc' = [pc EXCEPT ![w] = "modfd"]
    /\ valid' = FALSE
    /\ late' = (late \/ open)
    /\ UNCHANGED <<socket, http, m_write_idx, m_iv_count, mapped, main,
                   bytes_to_send, bytes_have_send, pool, line_status, refused,
                   answered>>

\* ... and process() arms m_sockfd after it has closed it.
ModfdClosed(w) ==
    /\ pc[w] = "modfd"
    /\ pc' = [pc EXCEPT ![w] = "wait"]
    /\ modfd("OUT")
    /\ late' = (late \/ (valid /\ open))
    /\ UNCHANGED <<open, unsent, data, gone, room, conns, user, main,
                   bytes_to_send, bytes_have_send, pool, line_status, refused,
                   answered>>
-----------------------------------------------------------------------------
MainStep ==
    \/ EpollWait \/ Hangup \/ ReadAppend \/ ReadFails
    \/ Write \/ WritevAgain \/ WritevFails
    \/ \E k \in 1..ResponseLen : Writev(k)

WorkerStep(w) ==
    \/ Take(w)
    \/ pc[w] = "parse" /\ \E t \in {Turn(w)} :
          \/ ParseMore(w, t) \/ ParseOpen(w, t)
          \/ AnswerError(w, t) \/ AnswerFile(w, t) \/ AnswerEmpty(w, t)
    \/ CloseFd(w) \/ Forget(w) \/ ModfdClosed(w)

Next ==
    \/ MainStep \/ Accept
    \/ \E w \in Workers : WorkerStep(w)
    \/ ClientSends \/ ClientReads \/ ClientLeaves

\* All threads are scheduled; nobody has to connect, to send, to read or to
\* leave.
Spec == /\ Init /\ [][Next]_vars
        /\ WF_vars(MainStep)
        /\ \A w \in Workers : WF_vars(WorkerStep(w))
-----------------------------------------------------------------------------
\* The type of the state, with the order of the buffer's positions.
TypeOK ==
    /\ open \in BOOLEAN /\ armed \in {"none", "IN", "OUT"} /\ valid \in BOOLEAN
    /\ unsent \in Seq(Pieces) /\ data \in Seq(Pieces)
    /\ http \in Parser /\ m_read_idx(http) <= READ_BUFFER_SIZE
    /\ http.m_start_line <= http.m_checked_idx
    /\ http.m_checked_idx <= m_read_idx(http)
    /\ m_write_idx \in Nat /\ m_iv_count \in 0..2 /\ mapped \in {"null", "file", "failed"}
    /\ main \in {"idle", "IN", "OUT", "HUP", "write"} /\ pool \in Nat
    /\ pc \in [Workers -> {"wait", "parse", "close", "forget", "modfd"}]

\* Every connection is in exactly one hand: armed in the epoll set, an event
\* the main thread handles, queued, or with one worker; unless append() refused
\* it.  No two threads ever work on it and it is never forgotten, as long as no
\* worker was late in closing the connection before it.
Holders ==
    (IF armed # "none" THEN 1 ELSE 0) + (IF main # "idle" THEN 1 ELSE 0)
    + pool + Cardinality({w \in Workers : pc[w] \in {"parse", "close"}})
    + (IF refused THEN 1 ELSE 0)
OneHolder == ~late /\ open => Holders = 1

\* A response with a file that is under way has the file mapped from its first
\* writev() to its last: EAGAIN, an error or another connection on the same
\* descriptor never leave write() with an address that was unmapped.  If the file
\* could not be mapped, not a byte of the response has been sent.
FileMappedWhileSent ==
    ~late /\ open /\ m_write_idx > 0 /\ m_iv_count = 2
          /\ (armed = "OUT" \/ main \in {"OUT", "write"})
       => mapped = "file" \/ (mapped = "failed" /\ ~answered)

\* A client that has left is released, except in three cases: append() refused
\* its request, a worker is caught in the loop of process_read(), or a worker
\* was late in closing the connection before.
Spins(w) == pc[w] = "parse" /\ Turn(w).goes /\ Turn(w).p = http
GoneReleased ==
    (open /\ gone) ~> (~open \/ refused \/ late \/ \E w \in Workers : Spins(w))

\* "Finite Automatic State Machine to parse http request": a client that has
\* sent its request is answered, or closed, or leaves.
RequestAnswered ==
    (open /\ unsent = <<>>) ~> (answered \/ ~open \/ gone \/ refused)
=============================================================================
