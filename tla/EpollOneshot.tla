----------------------------- MODULE EpollOneshot -----------------------------
(***************************************************************************)
(* The demonstration of EPOLLONESHOT (src/src/execution/epoll_oneshot.c):  *)
(* main starts a thread for every socket that has something to read; the   *)
(* event disarms the socket, and its worker arms it again when recv() has  *)
(* nothing more, so that a socket is never in the hands of two threads.    *)
(*                                                                         *)
(* The worker gets the ADDRESS of a variable of main's loop body, which    *)
(* main may have written again, or left, before the worker reads it.  Then *)
(* the worker reads another socket's number, or what the build keeps in    *)
(* that place by then: two threads on one socket, and none on the other.   *)
(*                                                                         *)
(* A socket is its descriptor.  epoll: an armed socket is reported while   *)
(* it has something to read (EPOLL_CTL_MOD looks at what is there), the    *)
(* listening socket once per edge.                                         *)
(***************************************************************************)
EXTENDS Naturals, FiniteSets

CONSTANTS Fds,            \* descriptors of connections
          Threads,        \* threads that can run at the same time
          Listen,         \* the listening socket
          Garbage,        \* what is no descriptor
          MaxWaiting      \* bound: the clients that wait to be accepted

ASSUME OneshotAssumption ==
    /\ Listen \notin Fds /\ Garbage \notin Fds /\ Listen # Garbage
    /\ MaxWaiting \in Nat

VARIABLES
    running,       \* main has not returned
    mbatch,        \* the events main has not handled yet
    lready,        \* an edge of the listening socket
    backlog,       \* clients that wait to be accepted
    arg,           \* fds_for_new_worker.sockfd
    open, armed,   \* the sockets that are open, and armed in epollfd
    data, eof,     \* those with unread data, and those whose peer has closed
    stage,         \* of a thread: none, created, recv, rearm
    sock,          \* its sockfd; before it has read arg, the one it is meant for
    \* history
    overwritten,   \* an argument was changed before its worker had read it
    lost           \* the open sockets whose event reached no worker

net    == <<backlog, lready, data, eof>>
vars   == <<running, mbatch, arg, open, armed, net, stage, sock, overwritten, lost>>

Init ==
    /\ running = TRUE /\ mbatch = {} /\ lready = FALSE /\ backlog = 0
    /\ arg = Garbage /\ open = {} /\ armed = {} /\ data = {} /\ eof = {}
    /\ stage = [w \in Threads |-> "none"] /\ sock = [w \in Threads |-> Garbage]
    /\ overwritten = FALSE /\ lost = {}
-----------------------------------------------------------------------------
(* The clients.                                                            *)

Connect ==
    /\ running /\ backlog < MaxWaiting
    /\ backlog' = backlog + 1 /\ lready' = TRUE
    /\ UNCHANGED <<running, mbatch, arg, open, armed, data, eof, stage, sock,
                   overwritten, lost>>

ClientSends(s) ==
    /\ running /\ s \in open \ eof
    /\ data' = data \cup {s}
    /\ UNCHANGED <<running, mbatch, lready, backlog, arg, open, armed, eof, stage, sock,
                   overwritten, lost>>

\* The client closes the connection, or resets it, which discards its data.
ClientLeaves(s) ==
    /\ running /\ s \in open \ eof
    /\ eof' = eof \cup {s}
    /\ data' \in {data, data \ {s}}
    /\ UNCHANGED <<running, mbatch, lready, backlog, arg, open, armed, stage, sock,
                   overwritten, lost>>
-----------------------------------------------------------------------------
(* main().                                                                 *)

Ready == {s \in armed : s \in data \cup eof}
         \cup {e \in {Listen} : lready /\ backlog > 0}

EpollWait ==
    /\ running /\ mbatch = {} /\ Ready # {}
    /\ mbatch' = Ready
    /\ armed' = armed \ Ready
    /\ lready' = FALSE
    /\ UNCHANGED <<running, backlog, arg, open, data, eof, stage, sock, overwritten,
                   lost>>

\* epoll_wait() fails, EINTR included: main returns, which ends the process.
EpollFails ==
    /\ running /\ mbatch = {}
    /\ running' = FALSE
    /\ open' = {} /\ armed' = {} /\ data' = {} /\ eof' = {} /\ lost' = {}
    /\ backlog' = 0 /\ lready' = FALSE
    /\ stage' = [w \in Threads |-> "none"] /\ sock' = [w \in Threads |-> Garbage]
    /\ UNCHANGED <<mbatch, arg, overwritten>>

\* main goes on to the next event; the bug is to leave the loop over them.
TakeFirst(e) == running /\ e \in mbatch /\ mbatch' = {}
Take(e) == running /\ e \in mbatch /\ mbatch' = mbatch \ {e}

Unread == {w \in Threads : stage[w] = "created"}

\* The variables of this branch may share their place with arg.
Accept(fd) ==
    /\ Take(Listen) /\ fd \notin open
    /\ backlog' = backlog - 1
    /\ open' = open \cup {fd} /\ armed' = armed \cup {fd}
    /\ arg' \in {arg, Garbage}
    /\ overwritten' = (overwritten \/ (arg' # arg /\ Unread # {}))
    /\ UNCHANGED <<running, lready, data, eof, stage, sock, lost>>

\* No descriptor is free: addfd() of -1 does nothing.
AcceptFails ==
    /\ Take(Listen) /\ Fds \subseteq open
    /\ arg' \in {arg, Garbage}
    /\ overwritten' = (overwritten \/ (arg' # arg /\ Unread # {}))
    /\ UNCHANGED <<running, lready, backlog, open, armed, data, eof, stage, sock, lost>>

\* arg is written for the new thread, read by the threads before it or not.  Its
\* other member, epollfd, gets the same value every time and is left out.
PassArg(s) ==
    /\ arg' = s
    /\ overwritten' = (overwritten \/ Unread # {})

\* The bug of not looking for the listening socket first.
CreateWorkerForAny(s) ==
    \E e \in mbatch :
        LET w == CHOOSE t \in Threads : stage[t] = "none"
        IN  /\ Take(e) /\ \E t \in Threads : stage[t] = "none"
            /\ PassArg(e)
            /\ stage' = [stage EXCEPT ![w] = "created"]
            /\ sock' = [sock EXCEPT ![w] = e]
            /\ UNCHANGED <<running, open, armed, net, lost>>

CreateWorker(s) ==
    LET w == CHOOSE t \in Threads : stage[t] = "none"
    IN  /\ Take(s) /\ \E t \in Threads : stage[t] = "none"
        /\ PassArg(s)
        /\ stage' = [stage EXCEPT ![w] = "created"]
        /\ sock' = [sock EXCEPT ![w] = s]
        /\ UNCHANGED <<running, open, armed, net, lost>>

\* pthread_create() fails, at the limit of threads or of memory, and nobody looks
\* at its result: the socket stays disarmed.
CreateFails(s) ==
    /\ Take(s)
    /\ PassArg(s)
    /\ lost' = lost \cup ({s} \cap open)
    /\ UNCHANGED <<running, open, armed, net, stage, sock>>
-----------------------------------------------------------------------------
(* worker().                                                               *)

At(w, s) == running /\ stage[w] = s
Goto(w, s) == stage' = [stage EXCEPT ![w] = s]

\* The bug of arming the socket before its data is read.
ReadArgRearms(w) ==
    /\ At(w, "created") /\ Goto(w, "recv")
    /\ sock' = [sock EXCEPT ![w] = arg]
    /\ lost' = IF arg = sock[w] THEN lost ELSE lost \cup ({sock[w]} \cap open)
    /\ armed' = armed \cup ({arg} \cap open)
    /\ UNCHANGED <<running, mbatch, arg, open, net, overwritten>>

ReadArg(w) ==
    /\ At(w, "created") /\ Goto(w, "recv")
    /\ sock' = [sock EXCEPT ![w] = arg]
    /\ lost' = IF arg = sock[w] THEN lost ELSE lost \cup ({sock[w]} \cap open)
    /\ UNCHANGED <<running, mbatch, arg, open, armed, net, overwritten>>

\* recv() of a socket that is not open fails with EBADF and is tried again for
\* ever, which is no step: the thread stays where it is until the descriptor is
\* used again.
Recv(w) ==
    /\ At(w, "recv") /\ sock[w] \in open \cap data
    /\ data' = data \ {sock[w]}
    /\ UNCHANGED <<running, mbatch, lready, backlog, arg, open, armed, eof, stage, sock,
                   overwritten, lost>>

\* The bug of taking the end of the stream for an error, which is tried again.
RecvEofAgain(w) ==
    /\ At(w, "recv") /\ sock[w] \in (open \cap eof) \ data
    /\ UNCHANGED vars

\* close() also takes the socket out of epollfd.
RecvEof(w) ==
    /\ At(w, "recv") /\ sock[w] \in (open \cap eof) \ data
    /\ open' = open \ {sock[w]} /\ armed' = armed \ {sock[w]}
    /\ eof' = eof \ {sock[w]} /\ lost' = lost \ {sock[w]}
    /\ Goto(w, "none") /\ sock' = [sock EXCEPT ![w] = Garbage]
    /\ UNCHANGED <<running, mbatch, lready, backlog, arg, data, overwritten>>

\* EAGAIN, and the bug of ending then.
RecvAgainEnds(w) ==
    /\ At(w, "recv") /\ sock[w] \in open \ (data \cup eof)
    /\ Goto(w, "none") /\ sock' = [sock EXCEPT ![w] = Garbage]
    /\ UNCHANGED <<running, mbatch, arg, open, armed, net, overwritten, lost>>

RecvAgain(w) ==
    /\ At(w, "recv") /\ sock[w] \in open \ (data \cup eof)
    /\ Goto(w, "rearm")
    /\ UNCHANGED <<running, mbatch, arg, open, armed, net, sock, overwritten, lost>>

reset_oneshot(w) ==
    /\ At(w, "rearm")
    /\ armed' = armed \cup ({sock[w]} \cap open)
    /\ Goto(w, "none") /\ sock' = [sock EXCEPT ![w] = Garbage]
    /\ UNCHANGED <<running, mbatch, arg, open, net, overwritten, lost>>
-----------------------------------------------------------------------------
MainStep ==
    \/ EpollWait \/ AcceptFails
    \/ \E s \in Fds : Accept(s) \/ CreateWorker(s) \/ CreateFails(s)

WorkerStep(w) ==
    ReadArg(w) \/ Recv(w) \/ RecvEof(w) \/ RecvAgain(w) \/ reset_oneshot(w)

WorldStep ==
    \/ Connect \/ EpollFails
    \/ \E s \in Fds : ClientSends(s) \/ ClientLeaves(s)

Next == MainStep \/ (\E w \in Threads : WorkerStep(w)) \/ WorldStep

\* Every thread is scheduled, and sleep(10) ends; clients owe nothing.
Spec == /\ Init /\ [][Next]_vars
        /\ WF_vars(MainStep)
        /\ \A w \in Threads : WF_vars(WorkerStep(w))
-----------------------------------------------------------------------------
\* The type of the state.
TypeOK ==
    /\ running \in BOOLEAN /\ lready \in BOOLEAN /\ overwritten \in BOOLEAN
    /\ backlog \in Nat
    /\ mbatch \subseteq Fds \cup {Listen}
    /\ arg \in Fds \cup {Garbage}
    /\ open \subseteq Fds
    /\ armed \subseteq open /\ data \subseteq open /\ eof \subseteq open
    /\ lost \subseteq open
    /\ stage \in [Threads -> {"none", "created", "recv", "rearm"}]
    /\ sock \in [Threads -> Fds \cup {Garbage}]

Active == {w \in Threads : stage[w] # "none"}

\* What EPOLLONESHOT is for: as long as no argument was overwritten, no socket is
\* in the hands of two threads, and while a thread has one it is open, not armed
\* and not about to be given to another thread (c:51-57, c:80, c:136-151).
OneReader ==
    ~overwritten =>
        /\ \A v, w \in Active : sock[v] = sock[w] => v = w
        /\ \A w \in Active : sock[w] \in open \ (armed \cup mbatch)

\* No socket is forgotten: whatever threads do in whatever order, an open one is
\* armed, or main is about to start a thread for it, or a thread has it; the
\* others lost their event to another thread's argument or to a failed
\* pthread_create() (c:80, c:151).
NobodyForgotten ==
    \A s \in open :
        \/ s \in armed \cup mbatch \cup lost
        \/ \E w \in Active : sock[w] = s

\* What a client sends is read, and when it has left its socket is closed, unless
\* the socket lost its event: what comes between EAGAIN and reset_oneshot() is not
\* overlooked, and no other thread's error keeps a socket waiting (c:67-90).
ClientsServed ==
    \A s \in Fds :
        /\ s \in data ~> (s \notin data \/ s \in lost)
        /\ s \in eof ~> (s \notin eof \/ s \in lost)
=============================================================================
