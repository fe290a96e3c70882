--------------------------- MODULE SubprocessChat ---------------------------
(***************************************************************************)
(* The chat room on processes and shared memory                            *)
(* (src/src/execution/subprocess_chat_room.cpp).  A handler reads its      *)
(* client's text into its segment of share_mem and sends its index to the  *)
(* main process, which sends the index to every other handler, and these   *)
(* send the segment to their clients.                                      *)
(*                                                                         *)
(* After fork() the test `else if (pid)' sends the PARENT into run_child() *)
(* and lets the CHILD go on as the main process.  So being main is handed  *)
(* on: the process that was main when user k came is handler k, and the    *)
(* main process of today has no children.  Hence                           *)
(*  - nobody tells main that a handler ended: its SIGCHLD branch is never  *)
(*    reached and user_count never goes down;                              *)
(*  - handler k is the parent of handler k + 1, whose end interrupts its   *)
(*    epoll_wait(), and of main if it is the last one;                     *)
(*  - handler k holds, besides its own, main's ends of the pipes of all    *)
(*    users before it, so handler j reads the end of its pipe only when    *)
(*    main and all handlers behind j are gone;                             *)
(*  - users[k].pid is 0, and kill(0, SIGTERM) reaches the whole process    *)
(*    group, main included, which sends it to itself for ever.             *)
(*                                                                         *)
(* All descriptors are edge-triggered, and every event is answered by one  *)
(* recv().  The pipes hold far more indices than are ever in them.         *)
(***************************************************************************)
EXTENDS Integers, Sequences, FiniteSets, SequencesExt

CONSTANTS USER_LIMIT,
          MaxWaiting,     \* bound: the clients that wait to be accepted
          MaxInputs       \* bound: texts from clients, signals from outside and failures

ASSUME SubprocessAssumption ==
    /\ USER_LIMIT \in Nat \ {0} /\ MaxWaiting \in Nat
    /\ MaxInputs \in Nat

Users == 0..(USER_LIMIT - 1)

\* In main's epoll set k stands for its end of the pipe of user k.
ListenFd == -1
SigFd    == -2

VARIABLES
    \* main
    mstage,           \* loop or ended
    mready, mbatch,   \* new edges, and the events not handled yet
    sig,              \* there is a signal in sig_pipefd
    stop_server, terminate,
    user_count,
    \* handlers, by the index of their user
    hstage,           \* none, start, tested, wait, handle, recv, stop, exited
    hready, hbatch,
    stop_child,
    share_mem,        \* the users whose segment holds a text
    c2m, m2c,         \* indices in the pipes
    \* clients
    backlog,          \* clients that wait for accept()
    inbox,            \* texts of each user not read yet
    gone,             \* the users who have left
    inputs,           \* texts, signals and failures so far
    \* history
    behind            \* the ends <<reader, k>> of user k's channels where the last
                      \* recv() has left something unread that no edge announces

main     == <<mstage, mready, mbatch, sig, stop_server, terminate, user_count>>
handlers == <<hstage, hready, hbatch, stop_child, share_mem, c2m, m2c>>
clients  == <<backlog, inbox, gone>>
vars     == <<main, handlers, clients,
                   inputs, behind>>

Init ==
    /\ mstage = "loop" /\ mready = {} /\ mbatch = {} /\ sig = FALSE
    /\ stop_server = FALSE /\ terminate = FALSE /\ user_count = 0
    /\ hstage = [k \in Users |-> "none"]
    /\ hready = [k \in Users |-> {}] /\ hbatch = [k \in Users |-> {}]
    /\ stop_child = {}
    /\ share_mem = {}
    /\ c2m = [k \in Users |-> 0] /\ m2c = [k \in Users |-> <<>>]
    /\ backlog = 0
    /\ inbox = [k \in Users |-> 0] /\ gone = {}
    /\ inputs = 0 /\ behind = {}
-----------------------------------------------------------------------------
(* The clients.                                                            *)

Connect ==
    /\ mstage = "loop" /\ backlog < MaxWaiting
    /\ backlog' = backlog + 1
    /\ mready' = mready \cup {ListenFd}
    /\ UNCHANGED <<mstage, mbatch, sig, stop_server, terminate, user_count, handlers,
                   inbox, gone, inputs, behind>>

Alive(k) == hstage[k] \notin {"none", "exited"}
Registered(k) == Alive(k) /\ hstage[k] # "start"
Edge(S, fd) == [k \in Users |-> IF k \in S /\ Registered(k) THEN hready[k] \cup {fd}
                                ELSE hready[k]]

ClientSends(k) ==
    /\ Alive(k) /\ k \notin gone /\ inputs < MaxInputs
    /\ inputs' = inputs + 1
    /\ inbox' = [inbox EXCEPT ![k] = @ + 1]
    /\ hready' = Edge({k}, "conn")
    /\ UNCHANGED <<main, hstage, hbatch, stop_child, share_mem, c2m, m2c,
                   backlog, gone, behind>>

\* The client closes the connection or resets it; a reset discards its texts.
ClientLeaves(k) ==
    /\ Alive(k) /\ k \notin gone
    /\ gone' = gone \cup {k}
    /\ inbox' \in {inbox, [inbox EXCEPT ![k] = 0]}
    /\ hready' = Edge({k}, "conn")
    /\ UNCHANGED <<main, hstage, hbatch, stop_child, share_mem, c2m, m2c,
                   backlog, inputs, behind>>
-----------------------------------------------------------------------------
(* Signals and pipes.                                                      *)

\* SIGTERM at handler k: child_term_handler() sets stop_child, and epoll_wait()
\* is interrupted if the handler is in it; between the test of stop_child and
\* epoll_wait() nothing is.  Before addsig() the signal still goes to
\* sig_handler(), whose pipe is main's until the handler has closed it.
Looped(k, stop) == IF k \in stop THEN "stop" ELSE "tested"
Interrupted(k, h, stop) == IF h[k] = "wait" THEN Looped(k, stop) ELSE h[k]
Terminated(S) ==
    /\ stop_child' = stop_child \cup {k \in S : Registered(k)}
    /\ hstage' = [k \in Users |-> IF k \in S THEN Interrupted(k, hstage, stop_child')
                                  ELSE hstage[k]]

\* Main's end of pipe k is open as long as main or a later handler lives; the
\* bug is a handler that keeps main's end of its own pipe.
HungOwnEnd(k, running, h) ==
    /\ ~running
    /\ \A n \in k..(USER_LIMIT - 1) : h[n] \in {"none", "exited"}
Hung(k, running, h) ==
    /\ ~running
    /\ \A n \in (k + 1)..(USER_LIMIT - 1) : h[n] \in {"none", "exited"}
HungNow(k) == Hung(k, mstage = "loop", hstage)

\* The edges that make the end of a process known to the handlers before it.
HangUp(running, h) ==
    Edge({k \in Users : ~HungNow(k) /\ Hung(k, running, h)}, "pipe")

\* The last handler is main's parent and gets SIGCHLD when main ends.
MainEnds ==
    /\ mstage' = "ended" /\ mbatch' = {} /\ mready' = {} /\ sig' = FALSE
    /\ hstage' = [k \in Users |-> IF k = user_count - 1
                                  THEN Interrupted(k, hstage, stop_child)
                                  ELSE hstage[k]]
    /\ hready' = HangUp(FALSE, hstage)
    /\ c2m' = [k \in Users |-> 0] /\ backlog' = 0
    /\ behind' = {b \in behind : b[1] # "main"}
    /\ UNCHANGED <<stop_server, terminate, user_count, hbatch, stop_child, share_mem,
                   m2c, inbox, gone>>

MainDies ==
    /\ mstage = "loop" /\ inputs < MaxInputs
    /\ inputs' = inputs + 1
    /\ MainEnds

sig_handler == sig' = TRUE /\ mready' = mready \cup {SigFd}

TermMain ==
    /\ mstage = "loop" /\ inputs < MaxInputs
    /\ inputs' = inputs + 1
    /\ sig_handler
    /\ UNCHANGED <<mstage, mbatch, stop_server, terminate, user_count, handlers,
                   clients, behind>>

TermHandler(k) ==
    /\ Alive(k) /\ inputs < MaxInputs
    /\ inputs' = inputs + 1
    /\ Terminated({k})
    /\ \/ hstage[k] = "start" /\ mstage = "loop" /\ sig_handler
       \/ UNCHANGED <<sig, mready>>
    /\ UNCHANGED <<mstage, mbatch, stop_server, terminate, user_count, hready, hbatch,
                   share_mem, c2m, m2c, clients, behind>>
-----------------------------------------------------------------------------
(* The main process.                                                       *)

Readable(e) ==
    \/ e = ListenFd /\ backlog > 0
    \/ e = SigFd /\ sig
    \/ e \in Users /\ (c2m[e] > 0 \/ hstage[e] = "exited")

EpollWait ==
    /\ mstage = "loop" /\ mbatch = {} /\ ~stop_server
    /\ mbatch' = {e \in mready : Readable(e)} /\ mbatch' # {}
    /\ mready' = {}
    /\ UNCHANGED <<mstage, sig, stop_server, terminate, user_count, handlers, clients,
                   inputs, behind>>

Take(e) == mstage = "loop" /\ e \in mbatch /\ mbatch' = mbatch \ {e}

Full == user_count >= USER_LIMIT

\* What one recv() at the end b of a channel leaves: rest tells that there is
\* more, edge that an event for it is still to come.
LeftBehind(b, rest, edge) ==
    behind' = IF rest /\ ~edge THEN behind \cup {b} ELSE behind \ {b}

\* fork(): the parent becomes the handler, the child closes its end of the
\* connection and of the pipe, and goes on as main.
Accept ==
    /\ Take(ListenFd) /\ ~Full
    /\ backlog' = backlog - 1
    /\ hstage' = [hstage EXCEPT ![user_count] = "start"]
    /\ user_count' = user_count + 1
    /\ UNCHANGED <<mstage, mready, sig, stop_server, terminate, hready, hbatch,
                   stop_child, share_mem, c2m, m2c, inbox, gone,
                   inputs, behind>>

\* fork() fails, or there are too many users; in the latter case the connection
\* is not even closed.
Refuse ==
    /\ Take(ListenFd)
    /\ backlog' = backlog - 1
    /\ UNCHANGED <<mstage, mready, sig, stop_server, terminate, user_count, handlers,
                   inbox, gone, inputs, behind>>

\* SIGTERM or SIGINT.
StopEmpty ==
    /\ Take(SigFd) /\ user_count = 0
    /\ sig' = FALSE
    /\ stop_server' = TRUE
    /\ UNCHANGED <<mstage, mready, terminate, user_count, handlers, clients,
                   inputs, behind>>

\* The bug of signalling every handler once and not oneself.
KillAllOnce ==
    /\ Take(SigFd) /\ user_count > 0
    /\ sig' = FALSE
    /\ terminate' = TRUE
    /\ Terminated(Users)
    /\ UNCHANGED <<mstage, mready, stop_server, user_count, hready, hbatch, share_mem,
                   c2m, m2c, clients,
                   inputs, behind>>

\* kill(0, SIGTERM): main gets the signal as well, in the pipe just read.
KillAll ==
    /\ Take(SigFd) /\ user_count > 0
    /\ sig_handler
    /\ terminate' = TRUE
    /\ Terminated(Users)
    /\ UNCHANGED <<mstage, stop_server, user_count, hready, hbatch, share_mem, c2m,
                   m2c, clients, inputs, behind>>

\* The users an index from pipe k is sent to, and the bug of sending it back.
TargetsAll(k) == 0..(user_count - 1)
Targets(k) == (0..(user_count - 1)) \ {k}

\* One index is read and sent on; it is lost where the handler has ended.
Forward(k) ==
    LET to == {j \in Targets(k) : Alive(j)}
    IN  /\ Take(k) /\ c2m[k] > 0
        /\ c2m' = [c2m EXCEPT ![k] = @ - 1]
        /\ m2c' = [j \in Users |-> IF j \in to THEN Append(m2c[j], k) ELSE m2c[j]]
        /\ hready' = Edge(to, "pipe")
        /\ LeftBehind(<<"main", k>>, c2m[k] > 1, k \in mready)
        /\ UNCHANGED <<mstage, mready, sig, stop_server, terminate, user_count, hstage,
                       hbatch, stop_child, share_mem, clients, inputs>>

PipeEnded(k) ==
    /\ Take(k) /\ c2m[k] = 0
    /\ UNCHANGED <<mstage, mready, sig, stop_server, terminate, user_count, handlers,
                   clients, inputs, behind>>

Stop ==
    /\ mstage = "loop" /\ mbatch = {} /\ stop_server
    /\ MainEnds
    /\ UNCHANGED inputs
-----------------------------------------------------------------------------
(* run_child() of handler k.                                               *)

At(k, s) == hstage[k] = s
Goto(k, s) == hstage' = [hstage EXCEPT ![k] = s]

\* What a recv() of handler k would return at once.
CanRead(k, e) ==
    \/ e = "conn" /\ (inbox[k] > 0 \/ k \in gone)
    \/ e = "pipe" /\ (m2c[k] # <<>> \/ HungNow(k))

\* addfd() and addsig(); what is there by then makes an edge.
Start(k) ==
    /\ At(k, "start") /\ Goto(k, "tested")
    /\ hready' = [hready EXCEPT ![k] = {e \in {"conn", "pipe"} : CanRead(k, e)}]
    /\ UNCHANGED <<main, hbatch, stop_child, share_mem, c2m, m2c, clients,
                   inputs, behind>>

EnterWait(k) ==
    /\ At(k, "tested")
    /\ Goto(k, "wait")
    /\ UNCHANGED <<main, hready, hbatch, stop_child, share_mem, c2m, m2c, clients,
                   inputs, behind>>

Wake(k) ==
    /\ At(k, "wait")
    /\ \E e \in hready[k] : CanRead(k, e)
    /\ Goto(k, "handle")
    /\ hbatch' = [hbatch EXCEPT ![k] = {e \in hready[k] : CanRead(k, e)}]
    /\ hready' = [hready EXCEPT ![k] = {}]
    /\ UNCHANGED <<main, stop_child, share_mem, c2m, m2c, clients,
                   inputs, behind>>

\* epoll_wait() fails.
WaitFails(k) ==
    /\ At(k, "wait") /\ inputs < MaxInputs
    /\ inputs' = inputs + 1
    /\ Goto(k, "stop")
    /\ UNCHANGED <<main, hready, hbatch, stop_child, share_mem, c2m, m2c, clients,
                   behind>>

\* The event e of handler k has been handled, and stop_child is stop.  The bug
\* is to leave the loop over the events.
HandledFirst(k, e, stop) ==
    /\ stop_child' = stop
    /\ hbatch' = [hbatch EXCEPT ![k] = {}]
    /\ Goto(k, Looped(k, stop))

Handled(k, e, stop) ==
    /\ stop_child' = stop
    /\ hbatch' = [hbatch EXCEPT ![k] = @ \ {e}]
    /\ Goto(k, IF hbatch[k] = {e} THEN Looped(k, stop) ELSE "handle")

\* memset() of the segment, which other handlers may send at any time.
Clear(k) ==
    /\ At(k, "handle") /\ "conn" \in hbatch[k]
    /\ Goto(k, "recv")
    /\ share_mem' = share_mem \ {k}
    /\ UNCHANGED <<main, hready, hbatch, stop_child, c2m, m2c, clients,
                   inputs, behind>>

\* recv() takes one text or more, as far as they fit, and main is told.
RecvText(k) ==
    /\ At(k, "recv")
    /\ Handled(k, "conn", stop_child)
    /\ share_mem' = share_mem \cup {k}
    /\ \E n \in 1..inbox[k] : inbox' = [inbox EXCEPT ![k] = @ - n]
    /\ IF mstage = "loop"
       THEN c2m' = [c2m EXCEPT ![k] = @ + 1] /\ mready' = mready \cup {k}
       ELSE UNCHANGED <<c2m, mready>>
    /\ LeftBehind(<<"conn", k>>, inbox'[k] > 0 \/ k \in gone, "conn" \in hready[k])
    /\ UNCHANGED <<mstage, mbatch, sig, stop_server, terminate, user_count, hready,
                   m2c, backlog, gone, inputs>>

\* The end of the stream, or an error.  The bug is to go on.
RecvEndGoesOn(k) ==
    /\ At(k, "recv") /\ inbox[k] = 0
    /\ Handled(k, "conn", stop_child)
    /\ UNCHANGED <<main, hready, share_mem, c2m, m2c, clients,
                   inputs, behind>>

RecvEnd(k) ==
    /\ At(k, "recv") /\ inbox[k] = 0
    /\ Handled(k, "conn", stop_child \cup {k})
    /\ UNCHANGED <<main, hready, share_mem, c2m, m2c, clients,
                   inputs, behind>>

\* One index is read and that segment sent to the client.  The bug is to clear
\* the segment then.
DeliverClears(k) ==
    /\ At(k, "handle") /\ "pipe" \in hbatch[k] /\ m2c[k] # <<>>
    /\ Handled(k, "pipe", stop_child)
    /\ m2c' = [m2c EXCEPT ![k] = Tail(@)]
    /\ share_mem' = share_mem \ {Head(m2c[k])}
    /\ LeftBehind(<<"pipe", k>>, Len(m2c[k]) > 1 \/ HungNow(k), "pipe" \in hready[k])
    /\ UNCHANGED <<main, hready, c2m, clients, inputs>>

Deliver(k) ==
    /\ At(k, "handle") /\ "pipe" \in hbatch[k] /\ m2c[k] # <<>>
    /\ Handled(k, "pipe", stop_child)
    /\ m2c' = [m2c EXCEPT ![k] = Tail(@)]
    /\ LeftBehind(<<"pipe", k>>, Len(m2c[k]) > 1 \/ HungNow(k), "pipe" \in hready[k])
    /\ UNCHANGED <<main, hready, share_mem, c2m, clients, inputs>>

PipeClosed(k) ==
    /\ At(k, "handle") /\ "pipe" \in hbatch[k] /\ m2c[k] = <<>>
    /\ Handled(k, "pipe", stop_child \cup {k})
    /\ UNCHANGED <<main, hready, share_mem, c2m, m2c, clients,
                   inputs, behind>>

\* The descriptors are closed, which main and earlier handlers notice, and the
\* handler before gets SIGCHLD.
Exit(k) ==
    LET h == [hstage EXCEPT ![k] = "exited"]
    IN  /\ At(k, "stop")
        /\ hstage' = [j \in Users |-> IF j = k - 1 THEN Interrupted(j, h, stop_child)
                                      ELSE h[j]]
        /\ hready' = [HangUp(mstage = "loop", h) EXCEPT ![k] = {}]
        /\ mready' = IF mstage = "loop" THEN mready \cup {k} ELSE mready
        /\ m2c' = [m2c EXCEPT ![k] = <<>>]
        /\ inbox' = [inbox EXCEPT ![k] = 0] /\ gone' = gone \ {k}
        /\ stop_child' = stop_child \ {k}
        /\ behind' = behind \ {<<"conn", k>>, <<"pipe", k>>}
        /\ UNCHANGED <<mstage, mbatch, sig, stop_server, terminate, user_count, hbatch,
                       share_mem, c2m, backlog, inputs>>
-----------------------------------------------------------------------------
MainStep ==
    \/ EpollWait \/ Accept \/ Refuse \/ StopEmpty \/ KillAll \/ Stop
    \/ \E k \in Users : Forward(k) \/ PipeEnded(k)

HandlerStep(k) ==
    \/ Start(k) \/ EnterWait(k) \/ Wake(k) \/ Clear(k)
    \/ RecvText(k) \/ RecvEnd(k) \/ Deliver(k) \/ PipeClosed(k)
    \/ Exit(k)

WorldStep ==
    \/ Connect \/ MainDies \/ TermMain
    \/ \E k \in Users : ClientSends(k) \/ ClientLeaves(k) \/ TermHandler(k)
                          \/ WaitFails(k)

Next == MainStep \/ (\E k \in Users : HandlerStep(k)) \/ WorldStep

\* Every process is scheduled; clients and operators owe nothing.
Spec == /\ Init /\ [][Next]_vars
        /\ WF_vars(MainStep)
        /\ \A k \in Users : WF_vars(HandlerStep(k))
-----------------------------------------------------------------------------
\* The type of the state.
TypeOK ==
    /\ mstage \in {"loop", "ended"} /\ user_count \in 0..USER_LIMIT
    /\ mready \cup mbatch \subseteq Users \cup {ListenFd, SigFd}
    /\ hstage \in [Users -> {"none", "start", "tested", "wait", "handle",
                             "recv", "stop", "exited"}]
    /\ hready \in [Users -> SUBSET {"conn", "pipe"}]
    /\ stop_child \subseteq Users
    /\ c2m \in [Users -> 0..MaxInputs]
    /\ m2c \in [Users -> Seq(Users)]

\* No text comes back to the client who sent it, and none is somebody's who never
\* came: the index of user k is never on its way to handler k, whatever pipes main
\* has by then (cpp:437-443).
NoOwnText ==
    /\ TypeOK
    /\ \A k \in Users : ToSet(m2c[k]) \subseteq (0..(user_count - 1)) \ {k}

\* An index that is on its way stands for a text that is there.  It is missing
\* only where the code clears the segment under its readers: between memset()
\* and recv() of the next text, and after the last memset() of a leaver
\* (cpp:138-151 against cpp:182).
AnnouncedTextThere ==
    \A k \in Users :
        (c2m[k] > 0 \/ \E j \in Users : k \in ToSet(m2c[j]))
            => \/ k \in share_mem \/ hstage[k] = "recv"
               \/ k \in stop_child \/ hstage[k] = "exited"

\* Every index main is sent is sent on, and every index a handler is sent is
\* delivered, unless the one recv() per edge has left it behind (cpp:163, 423)
\* or the reader has ended.
MessagesForwarded ==
    \A k \in Users :
        /\ c2m[k] > 0 ~> (c2m[k] = 0 \/ <<"main", k>> \in behind)
        /\ m2c[k] # <<>> ~> (m2c[k] = <<>> \/ <<"pipe", k>> \in behind)

\* The handler of a client who has left ends, unless the end of the stream came
\* in the same edge as a text and was left behind (cpp:141-158).
LeaverStopsHandler ==
    \A k \in Users : k \in gone ~> (~Alive(k) \/ <<"conn", k>> \in behind)

\* When main has ended, the handlers end one after the other from the last to
\* the first, for each holds its predecessors' pipes open (cpp:325); one that
\* left the end of its pipe behind holds up all before it.
HandlersFollowMain ==
    \A k \in Users : (mstage = "ended" /\ Alive(k)) ~>
        (~Alive(k) \/ \E n \in k..(USER_LIMIT - 1) : <<"pipe", n>> \in behind)

\* Once main has got SIGTERM every handler ends, although a signal between the
\* test of stop_child and epoll_wait() wakes nobody (cpp:121-123): main's own
\* copy of the signal makes it send another (cpp:403-407).  It holds as long as
\* main is not killed.
TermStopsHandlers ==
    \A k \in Users : (terminate /\ Registered(k)) ~> (~Alive(k) \/ mstage = "ended")
=============================================================================
