--------------------------- MODULE TimeoutServer ---------------------------
(***************************************************************************)
(* The server that closes idle connections                                 *)
(* (src/src/execution/timeout_server.cpp): one thread, one edge-triggered  *)
(* epoll set holding the listening socket, the read end of the signal pipe *)
(* and the accepted sockets, and one sort_timer_lst with a timer for every *)
(* connection.                                                             *)
(*                                                                         *)
(* Time is relative: ttl[t] is expire - time(NULL), cut off at 0, and the  *)
(* Clock takes one second off every timer.  Only a timer that has just     *)
(* been set to 3 * TIMESLOT is ever compared with others, so nothing the   *)
(* list does depends on how long ago a timer expired.  The bytes in a      *)
(* socket are counted in units of what one recv() takes.  epoll_wait() has *)
(* valid arguments and fails only with EINTR: then no event is handled and *)
(* it is called again, which is no step.                                   *)
(***************************************************************************)
EXTENDS SortTimerLst

CONSTANTS Conns,        \* the descriptors accept() may return
          TIMESLOT,     \* seconds between two alarms
          MaxBacklog,   \* length of the queue of listen()
          MaxData,      \* bound: unread units of data in a socket
          ListenFd, PipeFd

ASSUME ServerAssumption ==
    /\ Conns \subseteq Nat /\ IsFiniteSet(Conns)
    /\ TIMESLOT \in Nat \ {0} /\ MaxBacklog \in Nat /\ MaxData \in Nat
    /\ Cardinality(Timers) >= Cardinality(Conns)
    /\ ListenFd # PipeFd /\ {ListenFd, PipeFd} \cap Conns = {}

VARIABLES
    stage,         \* main(): wait (in epoll_wait), batch, exited, aborted
    batch,         \* the descriptors of events[] that are not handled yet
    ready,         \* the kernel's list of descriptors with a new edge
    backlog,       \* connections waiting for accept()
    open,          \* the open connections
    data,          \* unread data of each connection
    gone,          \* the connections whose client has closed or reset
    pipe,          \* the signals written to the pipe
    alarm,         \* seconds until SIGALRM, 0 when no alarm is set
    timeout, stop_server,
    lst, ttl,      \* timer_lst, and the time left of every timer
    live,          \* the addresses of allocated timers
    owner,         \* user_data of every timer
    timer,         \* users[fd].timer
    idle           \* history: seconds since a connection was accepted or read

net   == <<backlog, open, data, gone>>
sigs  == <<pipe, alarm, timeout, stop_server>>
lists == <<lst, ttl, live, owner, timer>>
vars  == <<stage, batch, ready, net, sigs, lists, idle>>

Lifetime == 3 * TIMESLOT
Running  == stage \in {"wait", "batch"}
Less(n)  == IF n > 0 THEN n - 1 ELSE 0

Init ==
    /\ stage = "wait" /\ batch = {} /\ ready = {}
    /\ backlog = 0 /\ open = {} /\ data = [c \in Conns |-> 0] /\ gone = {}
    /\ pipe = {} /\ alarm = TIMESLOT /\ timeout = FALSE /\ stop_server = FALSE
    /\ lst = EmptyList /\ ttl = [t \in Timers |-> 0] /\ live = {}
    /\ owner = [t \in Timers |-> Null] /\ timer = [c \in Conns |-> Null]
    /\ idle = [c \in Conns |-> 0]
-----------------------------------------------------------------------------
(* The world: clients, the clock, and the signal handler it runs.          *)

Connect ==
    /\ backlog < MaxBacklog
    /\ backlog' = backlog + 1
    /\ ready' = ready \cup {ListenFd}
    /\ UNCHANGED <<stage, batch, open, data, gone, sigs, lists, idle>>

ClientSends(c) ==
    /\ c \in open \ gone /\ data[c] < MaxData
    /\ data' = [data EXCEPT ![c] = @ + 1]
    /\ ready' = ready \cup {c}
    /\ UNCHANGED <<stage, batch, backlog, open, gone, sigs, lists, idle>>

ClientLeaves(c) ==
    /\ c \in open \ gone
    /\ gone' = gone \cup {c}
    /\ ready' = ready \cup {c}
    /\ UNCHANGED <<stage, batch, backlog, open, data, sigs, lists, idle>>

\* sig_handler() writes the signal to the pipe.
sig_handler(S) ==
    /\ pipe' = pipe \cup S
    /\ ready' = ready \cup {PipeFd : s \in S}

\* SIGTERM; one more after it changes nothing.
Terminate ==
    /\ "TERM" \notin pipe /\ ~stop_server
    /\ sig_handler({"TERM"})
    /\ UNCHANGED <<stage, batch, net, alarm, timeout, stop_server, lists, idle>>

\* A second passes; the alarm goes off when its time is over.
Clock ==
    /\ alarm' = Less(alarm)
    /\ sig_handler(IF alarm = 1 THEN {"ALRM"} ELSE {})
    /\ ttl' = [t \in Timers |-> Less(ttl[t])]
    /\ idle' = [c \in Conns |-> IF c \in open /\ idle[c] < Lifetime
                                THEN idle[c] + 1 ELSE idle[c]]
    /\ UNCHANGED <<stage, batch, net, timeout, stop_server,
                   lst, live, owner, timer>>
-----------------------------------------------------------------------------
(* main().                                                                 *)

Readable(fd) ==
    \/ fd = ListenFd /\ backlog > 0
    \/ fd = PipeFd /\ pipe # {}
    \/ fd \in open /\ (data[fd] > 0 \/ fd \in gone)

\* epoll_wait() returns the new edges that can still be read.
EpollWait ==
    /\ stage = "wait"
    /\ \E fd \in ready : Readable(fd)
    /\ stage' = "batch"
    /\ batch' = {fd \in ready : Readable(fd)}
    /\ ready' = {}
    /\ UNCHANGED <<net, sigs, lists, idle>>

Take(fd) == stage = "batch" /\ fd \in batch /\ batch' = batch \ {fd}

LowestFd(S) == CHOOSE c \in S : \A d \in S : c <= d

\* The bug of creating the timer without adding it to the list.
AcceptNoAdd ==
    /\ Take(ListenFd)
    /\ backlog' = backlog - 1
    /\ open # Conns
    /\ \E t \in Timers \ live :
       LET c == LowestFd(Conns \ open)
       IN /\ open' = open \cup {c}
          /\ idle' = [idle EXCEPT ![c] = 0]
          /\ live' = live \cup {t}
          /\ owner' = [owner EXCEPT ![t] = c]
          /\ ttl' = [ttl EXCEPT ![t] = Lifetime]
          /\ timer' = [timer EXCEPT ![c] = t]
    /\ UNCHANGED <<stage, ready, data, gone, sigs, lst>>

\* A connection is accepted, registered and given a new timer.  What its client
\* sent before is as if it were sent right after: the registration reports it.
Accept ==
    /\ Take(ListenFd)
    /\ backlog' = backlog - 1
    /\ open # Conns
    /\ \E t \in Timers \ live :
       LET c == LowestFd(Conns \ open)
       IN /\ open' = open \cup {c}
          /\ idle' = [idle EXCEPT ![c] = 0]
          /\ live' = live \cup {t}
          /\ owner' = [owner EXCEPT ![t] = c]
          /\ ttl' = [ttl EXCEPT ![t] = Lifetime]
          /\ timer' = [timer EXCEPT ![c] = t]
          /\ lst' = add_timer(NewTimer(lst, t), ttl', t)
    /\ UNCHANGED <<stage, ready, data, gone, sigs>>

\* accept() finds no free descriptor: assert(connfd != -1) aborts.
AcceptFails ==
    /\ Take(ListenFd)
    /\ open = Conns
    /\ stage' = "aborted"
    /\ UNCHANGED <<ready, net, sigs, lists, idle>>

\* The bug of reacting to the first of the signals read.
ReadSignalsFirst ==
    /\ Take(PipeFd)
    /\ pipe' = {}
    /\ timeout' = (timeout \/ "ALRM" \in pipe)
    /\ stop_server' = (stop_server \/ pipe = {"TERM"})
    /\ UNCHANGED <<stage, ready, net, alarm, lists, idle>>

\* The pipe is read to its end and every signal in it is noted.
ReadSignals ==
    /\ Take(PipeFd)
    /\ pipe' = {}
    /\ timeout' = (timeout \/ "ALRM" \in pipe)
    /\ stop_server' = (stop_server \/ "TERM" \in pipe)
    /\ UNCHANGED <<stage, ready, net, alarm, lists, idle>>

\* The bug of moving the expiry of a timer and not the timer.
ReadDataNoAdjust(c) ==
    /\ Take(c)
    /\ data[c] > 0
    /\ data' = [data EXCEPT ![c] = @ - 1]
    /\ ttl' = [ttl EXCEPT ![timer[c]] = Lifetime]
    /\ idle' = [idle EXCEPT ![c] = 0]
    /\ UNCHANGED <<stage, ready, backlog, open, gone, sigs,
                   lst, live, owner, timer>>

\* recv() returns data, one buffer of it: the timer is postponed.
ReadData(c) ==
    /\ Take(c)
    /\ data[c] > 0
    /\ data' = [data EXCEPT ![c] = @ - 1]
    /\ ttl' = [ttl EXCEPT ![timer[c]] = Lifetime]
    /\ lst' = adjust_timer(lst, ttl', timer[c])
    /\ idle' = [idle EXCEPT ![c] = 0]
    /\ UNCHANGED <<stage, ready, backlog, open, gone, sigs, live, owner, timer>>

\* cb_func(): the descriptors in C are closed, and so leave the epoll set.
cb_func(C) ==
    /\ open' = open \ C
    /\ gone' = gone \ C
    /\ data' = [c \in Conns |-> IF c \in C THEN 0 ELSE data[c]]
    /\ ready' = ready \ C
    /\ idle' = [c \in Conns |-> IF c \in C THEN 0 ELSE idle[c]]
    /\ UNCHANGED backlog

\* delete: the fields of the timers in T are cleared, for nobody reads them
\* before new util_timer() sets them again (TimersMatchConnections).
delete(l, T) ==
    /\ lst' = [l EXCEPT !.prev = [t \in Timers |-> IF t \in T THEN Null ELSE @[t]],
                        !.next = [t \in Timers |-> IF t \in T THEN Null ELSE @[t]]]
    /\ ttl' = [t \in Timers |-> IF t \in T THEN 0 ELSE ttl[t]]
    /\ owner' = [t \in Timers |-> IF t \in T THEN Null ELSE owner[t]]
    /\ live' = live \ T

\* The bug of closing the connection and leaving its timer in the list.
ReadEndKeepsTimer(c) ==
    /\ Take(c)
    /\ data[c] = 0 /\ c \in gone
    /\ cb_func({c})
    /\ UNCHANGED <<stage, sigs, lists>>

\* recv() returns 0 or fails: the connection and its timer are disposed of.
ReadEnd(c) ==
    /\ Take(c)
    /\ data[c] = 0 /\ c \in gone
    /\ cb_func({c})
    /\ delete(del_timer(lst, timer[c]), {timer[c]})
    /\ UNCHANGED <<stage, sigs, timer>>

\* timer_handler(): tick() closes the connections of the timers that expired
\* and deletes these; the next alarm is set.
timer_handler ==
    LET fired == Fired(lst, ttl, 0)
    IN  /\ cb_func({owner[t] : t \in fired})
        /\ delete(tick(lst, ttl, 0), fired)
        /\ alarm' = TIMESLOT
        /\ UNCHANGED timer

\* The bug of leaving the flag set.
EndBatchKeepsFlag ==
    /\ stage = "batch" /\ batch = {}
    /\ IF timeout THEN timer_handler
                  ELSE UNCHANGED <<ready, net, alarm, lists, idle>>
    /\ stage' = IF stop_server THEN "exited" ELSE "wait"
    /\ UNCHANGED <<batch, pipe, timeout, stop_server>>

\* After the last event: the timers if SIGALRM was among the signals, then the
\* loop's condition.
EndBatch ==
    /\ stage = "batch" /\ batch = {}
    /\ IF timeout THEN timer_handler
                  ELSE UNCHANGED <<ready, net, alarm, lists, idle>>
    /\ timeout' = FALSE
    /\ stage' = IF stop_server THEN "exited" ELSE "wait"
    /\ UNCHANGED <<batch, pipe, stop_server>>

MainStep ==
    \/ EpollWait
    \/ Accept \/ AcceptFails \/ ReadSignals
    \/ \E c \in Conns : ReadData(c) \/ ReadEnd(c)
    \/ EndBatch

WorldStep ==
    \/ Connect
    \/ \E c \in Conns : ClientSends(c) \/ ClientLeaves(c)
    \/ Terminate
    \/ Clock

Next ==
    \/ MainStep
    \/ Running /\ WorldStep
    \/ ~Running /\ UNCHANGED vars        \* the process has ended

\* The process is scheduled and time passes; clients and operators owe the
\* server nothing.
Spec == /\ Init /\ [][Next]_vars
        /\ WF_vars(MainStep)
        /\ WF_vars(Running /\ Clock)
-----------------------------------------------------------------------------
\* The type of the state.
TypeOK ==
    /\ stage \in {"wait", "batch", "exited", "aborted"}
    /\ batch \subseteq Conns \cup {ListenFd, PipeFd}
    /\ ready \subseteq Conns \cup {ListenFd, PipeFd}
    /\ backlog \in 0..MaxBacklog
    /\ open \subseteq Conns /\ gone \subseteq open
    /\ data \in [Conns -> 0..MaxData]
    /\ pipe \subseteq {"ALRM", "TERM"} /\ alarm \in 0..TIMESLOT
    /\ timeout \in BOOLEAN /\ stop_server \in BOOLEAN
    /\ ttl \in [Timers -> 0..Lifetime] /\ live \subseteq Timers
    /\ owner \in [Timers -> Conns \cup {Null}]
    /\ timer \in [Conns -> Timers \cup {Null}]
    /\ idle \in [Conns -> 0..Lifetime]

\* The list holds one timer for every open connection and nothing else, in
\* order and with sound pointers, although users[fd].timer is never cleared
\* and descriptors and addresses are used again: a stale users[fd].timer is
\* never followed and no deleted timer is in the list.
TimersMatchConnections ==
    /\ TypeOK
    /\ LinksOK(lst) /\ Ascending(lst, ttl)
    /\ Nodes(lst) = live
    /\ live = {timer[c] : c \in open}
    /\ \A c \in open : owner[timer[c]] = c

\* The alarm is never lost: as long as the server runs, the next tick() is
\* announced in exactly one way, an alarm that is set, a SIGALRM in the pipe
\* that a new edge will report, or the flag main() tests after the batch.
AlarmChain ==
    Running =>
       /\ Cardinality({k \in {"alarm", "pipe", "flag"} :
                          \/ k = "alarm" /\ alarm > 0
                          \/ k = "pipe" /\ "ALRM" \in pipe
                          \/ k = "flag" /\ timeout}) = 1
       /\ pipe # {} => PipeFd \in ready \cup batch

\* tick() closes just the connections that were idle for their lifetime: one
\* that was read later, in the same batch too, is spared, and no idle one is
\* passed over because of its place in the list.
TickExact ==
    [][(stage = "batch" /\ stage' \in {"wait", "exited"} /\ timeout) =>
          open' = {c \in open : idle[c] < Lifetime}]_vars

\* A connection whose client has left is closed in the end, even when its last
\* data and the end of the stream were reported by one edge and recv() took
\* only the data.
GoneClientReleased ==
    \A c \in Conns : (c \in gone) ~> (c \notin open \/ ~Running)

\* SIGTERM ends the server whatever else keeps arriving.
TermStops == ("TERM" \in pipe) ~> ~Running
=============================================================================
