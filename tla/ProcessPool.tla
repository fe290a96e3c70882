---------------------------- MODULE ProcessPool ----------------------------
(***************************************************************************)
(* processpool<T> (src/src/include/process_pool.hpp) serving echo_conn     *)
(* (src/src/execution/echo_processpool_server.cpp): a parent that watches  *)
(* the listening socket and tells a child, through the child's p2c pipe,   *)
(* to accept; children that serve the connections they accepted and tell   *)
(* the parent, through their c2p pipe, when one is closed.                 *)
(*                                                                         *)
(* Both have an edge-triggered epoll set.  The parent's is a sequence, in  *)
(* the order of the edges, because the parent looks at positions of        *)
(* events[]; events keeps what earlier calls of epoll_wait() left there.   *)
(* events[] starts as fresh, zeroed stack: descriptor 0 is none of those   *)
(* compared with.  m_used_process is heap that nobody initialises.         *)
(* epoll_wait() interrupted by a signal is called again: that is no step.  *)
(*                                                                         *)
(* Init is the state in which every process has been through               *)
(* setup_sig_pipe().  Between fork() and that call a signal still has its  *)
(* default effect; what it does in that window is left out.                *)
(***************************************************************************)
EXTENDS Integers, Sequences, FiniteSets, SequencesExt

CONSTANTS m_process_number,
          Clients,        \* the connections that are made, in this order
          Talkers,        \* bound: the clients that send data
          Garbage,        \* what m_used_process may hold at first
          PipeCap,        \* messages a c2p pipe holds before send() blocks
          MaxCrashes      \* bound: children that die by themselves

ASSUME PoolAssumption ==
    /\ m_process_number \in Nat \ {0}
    /\ IsFiniteSet(Clients) /\ Clients \subseteq Nat /\ Talkers \subseteq Clients
    /\ Garbage # {} /\ Garbage \subseteq SUBSET (0..(m_process_number - 1))
    /\ PipeCap \in Nat /\ MaxCrashes \in Nat

Children == 0..(m_process_number - 1)

\* Descriptors.  In the parent's set i stands for m_c2p_pipefd[1] of child i,
\* in a child's set c stands for the socket of client c.
ListenFd == -1
SigFd    == -2
PipeFd   == -3
NoFd     == -4

VARIABLES
    \* parent
    stage,            \* loop, reap (inside wait()), ended
    ready,            \* the new edges, oldest first
    events,           \* the first entries of events[]
    batch,            \* the events of this turn that are not handled yet
    pipe,             \* signals in sig_pipefd
    termed,           \* bound: SIGTERM is sent once
    m_pid,            \* the children whose m_pid is not -1
    m_used_process,   \* the children marked as used
    sub_process_count,
    watched,          \* the children whose c2p pipe is in the epoll set
    \* children
    cstage,           \* loop, blocked (in send()), exiting, zombie, joined
    cready, cbatch,   \* new edges, and events that are not handled yet
    told,             \* the children with SIGTERM in their sig_pipefd
    cstop,            \* the children whose m_stop is set
    p2c, c2p,         \* messages in the pipes of each child
    crashes,
    \* connections
    fresh,            \* clients that have not connected yet
    backlog,          \* connections waiting for accept()
    owner,            \* the child that serves a connection, or NoFd
    data, gone        \* connections with unread data, and with a client that left

parent == <<stage, events, batch, m_pid, m_used_process,
            sub_process_count, watched>>
net    == <<fresh, backlog, owner, data, gone>>
kids   == <<cstage, cready, cbatch, told, cstop, p2c, c2p, crashes>>
vars   == <<parent, ready, pipe, termed, kids, net>>

Up(i) == cstage[i] \in {"loop", "blocked"}
Put(s, x) == IF x \in ToSet(s) THEN s ELSE Append(s, x)
Init ==
    /\ stage = "loop" /\ ready = <<>> /\ events = [k \in Children |-> NoFd]
    /\ batch = <<>> /\ pipe = <<>> /\ termed = FALSE
    /\ m_pid = Children
    /\ m_used_process \in Garbage
    /\ sub_process_count = 0 /\ watched = {}
    /\ cstage = [i \in Children |-> "loop"]
    /\ cready = [i \in Children |-> {}] /\ cbatch = [i \in Children |-> {}]
    /\ told = {} /\ cstop = {}
    /\ p2c = [i \in Children |-> 0] /\ c2p = [i \in Children |-> 0]
    /\ crashes = 0
    /\ fresh = Clients /\ backlog = <<>>
    /\ owner = [c \in Clients |-> NoFd] /\ data = {} /\ gone = {}
-----------------------------------------------------------------------------
(* The world.                                                              *)

Connect(c) ==
    /\ c \in fresh /\ \A d \in fresh : c <= d
    /\ fresh' = fresh \ {c}
    /\ backlog' = Append(backlog, c)
    /\ ready' = Put(ready, ListenFd)
    /\ UNCHANGED <<parent, pipe, termed, kids, owner, data, gone>>

\* Data or the end of the stream makes an edge in the child that serves it.
Edge(c) == cready' = [i \in Children |-> IF i = owner[c] THEN cready[i] \cup {c}
                                         ELSE cready[i]]

Connected(c) == c \notin gone /\ (owner[c] # NoFd \/ c \in ToSet(backlog))

ClientSends(c) ==
    /\ Connected(c) /\ c \in Talkers \ data
    /\ data' = data \cup {c}
    /\ Edge(c)
    /\ UNCHANGED <<parent, ready, pipe, termed, cstage, cbatch, told, cstop, p2c,
                   c2p, crashes, fresh, backlog, owner, gone>>

ClientLeaves(c) ==
    /\ Connected(c)
    /\ gone' = gone \cup {c}
    /\ Edge(c)
    /\ UNCHANGED <<parent, ready, pipe, termed, cstage, cbatch, told, cstop, p2c,
                   c2p, crashes, fresh, backlog, owner, data>>

\* sig_handler() in the parent.  The signals already in the pipe are not
\* repeated: the parent treats a second one like the first.
sig_handler(sig) ==
    /\ pipe' = Put(pipe, sig)
    /\ ready' = Put(ready, SigFd)

Terminate ==
    /\ ~termed
    /\ termed' = TRUE
    /\ sig_handler("TERM")
    /\ UNCHANGED <<parent, kids, net>>

\* A child ends: its descriptors are closed, which hangs up its c2p pipe and
\* the connections it serves.
ChildEnds(i) ==
    /\ cstage' = [cstage EXCEPT ![i] = "exiting"]
    /\ cready' = [cready EXCEPT ![i] = {}]
    /\ cbatch' = [cbatch EXCEPT ![i] = {}]
    /\ told' = told \ {i} /\ cstop' = cstop \ {i}
    /\ p2c' = [p2c EXCEPT ![i] = 0]
    /\ owner' = [c \in Clients |-> IF owner[c] = i THEN NoFd ELSE owner[c]]
    /\ data' = {c \in data : owner[c] # i}
    /\ gone' = {c \in gone : owner[c] # i}
    /\ ready' = IF i \in watched THEN Put(ready, i) ELSE ready
    /\ UNCHANGED <<parent, pipe, termed, c2p, fresh, backlog>>

Crash(i) ==
    /\ Up(i) /\ crashes < MaxCrashes
    /\ crashes' = crashes + 1
    /\ ChildEnds(i)

\* The kernel sends SIGCHLD once the child is a zombie.
ChildSignal(i) ==
    /\ cstage[i] = "exiting"
    /\ cstage' = [cstage EXCEPT ![i] = "zombie"]
    /\ sig_handler("CHLD")
    /\ UNCHANGED <<parent, termed, cready, cbatch, told, cstop, p2c, c2p, crashes,
                   net>>
-----------------------------------------------------------------------------
(* run_parent().                                                           *)

HasEvent(fd) ==
    \/ fd = ListenFd /\ backlog # <<>>
    \/ fd = SigFd /\ pipe # <<>>
    \/ fd \in Children

\* Set when no m_pid is left: only SIGCHLD changes either.
m_stop == m_pid = {}

\* The places of ready that epoll_wait() reports, and the one way to list them: in
\* the order of their edges.
Places == {k \in DOMAIN ready : HasEvent(ready[k])}
InOrder == {at \in [1..Cardinality(Places) -> Places] :
                \A j, k \in DOMAIN at : j < k => at[j] < at[k]}

\* epoll_wait() fills the front of events[] and leaves the rest alone.
ParentWait ==
    /\ stage = "loop" /\ batch = <<>> /\ ~m_stop
    /\ Places # {}
    /\ \E at \in InOrder : batch' = [k \in DOMAIN at |-> ready[at[k]]]
    /\ events' = [k \in Children |-> IF k < Len(batch') THEN batch'[k + 1] ELSE events[k]]
    /\ ready' = <<>>
    /\ UNCHANGED <<stage, pipe, termed, m_pid, m_used_process,
                   sub_process_count, watched, kids, net>>

Take(fd) == stage = "loop" /\ batch # <<>> /\ Head(batch) = fd /\ batch' = Tail(batch)
Free(i)  == i \in m_pid /\ i \notin m_used_process

\* The first free child from sub_process_count on.
Turn(k)  == (sub_process_count + k) % m_process_number
Chosen(i) == \E k \in Children : /\ i = Turn(k) /\ Free(i)
                                 /\ \A j \in 0..(k - 1) : ~Free(Turn(j))

\* The child to start from next time, and the bug of not going round.
NextTurnNoWrap(i) == i + 1
NextTurn(i) == (i + 1) % m_process_number

\* The bug of telling the child twice.
AssignTwice(i) ==
    /\ Take(ListenFd)
    /\ Chosen(i)
    /\ sub_process_count' = NextTurn(i)
    /\ m_used_process' = m_used_process \cup {i}
    /\ watched' = watched \cup {i}
    /\ p2c' = [p2c EXCEPT ![i] = @ + 2]
    /\ cready' = [cready EXCEPT ![i] = @ \cup {PipeFd}]
    /\ UNCHANGED <<stage, ready, events, pipe, termed, m_pid,
                   cstage, cbatch, told, cstop, c2p, crashes, net>>

\* A new connection is assigned to a free child, which may be dead already:
\* then the message is lost.  The child's c2p pipe is watched from now on; what
\* it holds by then makes an edge.
Assign(i) ==
    /\ Take(ListenFd)
    /\ Chosen(i)
    /\ sub_process_count' = NextTurn(i)
    /\ m_used_process' = m_used_process \cup {i}
    /\ watched' = watched \cup {i}
    /\ ready' = IF i \notin watched /\ (c2p[i] > 0 \/ ~Up(i)) THEN Put(ready, i) ELSE ready
    /\ p2c' = [p2c EXCEPT ![i] = IF Up(i) THEN @ + 1 ELSE @]
    /\ cready' = [cready EXCEPT ![i] = IF Up(i) THEN @ \cup {PipeFd} ELSE @]
    /\ UNCHANGED <<stage, events, pipe, termed, m_pid,
                   cstage, cbatch, told, cstop, c2p, crashes, net>>

\* No child is free: the oldest connection that waits is told so and closed.  The
\* news of the listening socket has a connection of its own, so accept() finds one
\* (EveryMessageHasConnection); that it fails for want of descriptors is left out.
Refuse ==
    /\ Take(ListenFd)
    /\ \A i \in Children : ~Free(i)
    /\ backlog' = Tail(backlog)
    /\ data' = data \ {Head(backlog)}
    /\ gone' = gone \ {Head(backlog)}
    /\ UNCHANGED <<stage, events, ready, pipe, termed, m_pid, m_used_process,
                   sub_process_count, watched, kids, fresh, owner>>

\* The signals are read and handled in turn.  SIGTERM and SIGINT kill every
\* child that is not known to be dead; SIGCHLD makes the parent call wait()
\* until there is no child left, and a SIGTERM behind it finds none to kill.
ReadSignals ==
    LET killed == IF pipe[1] = "TERM" THEN {i \in m_pid : Up(i)} ELSE {}
    IN  /\ Take(SigFd)
        /\ pipe' = <<>>
        /\ told' = told \cup killed
        /\ cready' = [i \in Children |-> IF i \in killed THEN cready[i] \cup {SigFd}
                                         ELSE cready[i]]
        /\ stage' = IF "CHLD" \in ToSet(pipe) THEN "reap" ELSE stage
        /\ UNCHANGED <<events, ready, termed, m_pid, m_used_process,
                       sub_process_count, watched, cstage, cbatch, cstop, p2c,
                       c2p, crashes, net>>

\* wait() returns a child; it blocks as long as there is none to return.
Reap(i) ==
    /\ stage = "reap" /\ cstage[i] = "zombie"
    /\ cstage' = [cstage EXCEPT ![i] = "joined"]
    /\ m_pid' = m_pid \ {i}
    /\ UNCHANGED <<stage, ready, events, batch, pipe, termed, m_used_process,
                   sub_process_count, watched, cready, cbatch, told, cstop,
                   p2c, c2p, crashes, net>>

\* The bug of a wait() that does not block, and of m_stop set whether or not
\* there is a child left.
ReapedSome ==
    /\ stage = "reap" /\ \A i \in Children : cstage[i] # "zombie"
    /\ m_pid' = {}
    /\ stage' = "loop"
    /\ UNCHANGED <<ready, events, batch, pipe, termed, m_used_process,
                   sub_process_count, watched, kids, net>>

\* wait() has no child left and returns -1.
Reaped ==
    /\ stage = "reap" /\ \A i \in Children : cstage[i] = "joined"
    /\ stage' = "loop"
    /\ UNCHANGED <<ready, events, batch, pipe, termed, m_pid, m_used_process,
                   sub_process_count, watched, kids, net>>

\* A c2p pipe has news.  The loop that looks for the child compares the pipe of
\* child j with entry j of events[], not with the entry being handled.
Release(i) ==
    LET match == {j \in Children : events[j] = j}
    IN  /\ Take(i)
        /\ m_used_process' = IF match = {} THEN m_used_process
                             ELSE m_used_process \ {CHOOSE j \in match : \A k \in match : j <= k}
        /\ UNCHANGED <<stage, ready, events, pipe, termed, m_pid,
                       sub_process_count, watched, kids, net>>

ParentEnds ==
    /\ stage = "loop" /\ batch = <<>> /\ m_stop
    /\ stage' = "ended"
    /\ UNCHANGED <<ready, events, batch, pipe, termed, m_pid, m_used_process,
                   sub_process_count, watched, kids, net>>
-----------------------------------------------------------------------------
(* run_child() of child i.                                                 *)

CanRead(i, fd) ==
    \/ fd = PipeFd /\ p2c[i] > 0
    \/ fd = SigFd /\ i \in told
    \/ fd \in data \cup gone

ChildWait(i) ==
    LET new == {fd \in cready[i] : CanRead(i, fd)}
    IN  /\ cstage[i] = "loop" /\ cbatch[i] = {} /\ i \notin cstop
        /\ new # {}
        /\ cbatch' = [cbatch EXCEPT ![i] = new]
        /\ cready' = [cready EXCEPT ![i] = {}]
        /\ UNCHANGED <<parent, ready, pipe, termed, cstage, told, cstop, p2c, c2p,
                       crashes, net>>

ChildTake(i, fd) ==
    /\ cstage[i] = "loop" /\ fd \in cbatch[i]
    /\ cbatch' = [cbatch EXCEPT ![i] = @ \ {fd}]

\* One message is read and one connection accepted; accept() may find none.
\* What its client has sent by then makes an edge.
AcceptConn(i) ==
    /\ ChildTake(i, PipeFd)
    /\ p2c' = [p2c EXCEPT ![i] = @ - 1]
    /\ IF backlog = <<>> THEN UNCHANGED <<backlog, owner, cready>>
       ELSE LET c == Head(backlog)
            IN  /\ backlog' = Tail(backlog)
                /\ owner' = [owner EXCEPT ![c] = i]
                /\ cready' = IF c \in data \cup gone
                             THEN [cready EXCEPT ![i] = @ \cup {c}] ELSE cready
    /\ UNCHANGED <<parent, ready, pipe, termed, cstage, told, cstop, c2p, crashes,
                   fresh, data, gone>>

\* The bug of looking at signals only when there was nothing else to do.
ChildSignalsIfIdle(i) ==
    /\ ChildTake(i, SigFd)
    /\ told' = told \ {i}
    /\ cstop' = IF cbatch[i] = {SigFd} THEN cstop \cup {i} ELSE cstop
    /\ UNCHANGED <<parent, ready, pipe, termed, cstage, cready, p2c, c2p, crashes,
                   net>>

ChildSignals(i) ==
    /\ ChildTake(i, SigFd)
    /\ told' = told \ {i}
    /\ cstop' = cstop \cup {i}
    /\ UNCHANGED <<parent, ready, pipe, termed, cstage, cready, p2c, c2p, crashes,
                   net>>

\* echo_conn::process(): recv() returns data, which is echoed.
Echo(i, c) ==
    /\ ChildTake(i, c)
    /\ c \in data
    /\ data' = data \ {c}
    /\ UNCHANGED <<parent, ready, pipe, termed, cstage, cready, told, cstop, p2c,
                   c2p, crashes, fresh, backlog, owner, gone>>

\* process() finds the stream ended, closes the socket and returns 0, and the
\* child reports to the parent.  The parent never reads the pipe: when it is
\* full, send() blocks.
CloseConn(i, c) ==
    /\ ChildTake(i, c)
    /\ c \in gone \ data
    /\ gone' = gone \ {c}
    /\ owner' = [owner EXCEPT ![c] = NoFd]
    /\ cready' = [cready EXCEPT ![i] = @ \ {c}]
    /\ IF c2p[i] < PipeCap
       THEN /\ c2p' = [c2p EXCEPT ![i] = @ + 1]
            /\ ready' = IF i \in watched THEN Put(ready, i) ELSE ready
            /\ UNCHANGED cstage
       ELSE /\ cstage' = [cstage EXCEPT ![i] = "blocked"]
            /\ UNCHANGED <<c2p, ready>>
    /\ UNCHANGED <<parent, pipe, termed, told, cstop, p2c, crashes, fresh, backlog,
                   data>>

ChildExits(i) ==
    /\ cstage[i] = "loop" /\ cbatch[i] = {} /\ i \in cstop
    /\ ChildEnds(i)
    /\ UNCHANGED crashes
-----------------------------------------------------------------------------
ParentStep ==
    \/ ParentWait \/ ParentEnds
    \/ \E i \in Children : Assign(i) \/ Release(i) \/ Reap(i)
    \/ Refuse
    \/ ReadSignals \/ Reaped

ChildStep(i) ==
    \/ ChildWait(i) \/ AcceptConn(i) \/ ChildSignals(i) \/ ChildExits(i)
    \/ \E c \in Clients : Echo(i, c) \/ CloseConn(i, c)
    \/ ChildSignal(i)

WorldStep ==
    \/ \E c \in Clients : Connect(c) \/ ClientSends(c) \/ ClientLeaves(c)
    \/ Terminate
    \/ \E i \in Children : Crash(i)

Next ==
    \/ ParentStep
    \/ \E i \in Children : ChildStep(i)
    \/ stage # "ended" /\ WorldStep
    \/ stage = "ended" /\ UNCHANGED vars

\* Every process is scheduled; clients and operators owe nothing.
Spec == /\ Init /\ [][Next]_vars
        /\ WF_vars(ParentStep)
        /\ \A i \in Children : WF_vars(ChildStep(i))
-----------------------------------------------------------------------------
\* The type of the state.
TypeOK ==
    /\ stage \in {"loop", "reap", "ended"} /\ termed \in BOOLEAN
    /\ ready \in Seq(Children \cup {ListenFd, SigFd})
    /\ batch \in Seq(Children \cup {ListenFd, SigFd})
    /\ events \in [Children -> Children \cup {ListenFd, SigFd, NoFd}]
    /\ pipe \in Seq({"TERM", "CHLD"})
    /\ m_pid \subseteq Children /\ m_used_process \subseteq Children
    /\ watched \subseteq Children /\ sub_process_count \in Children
    /\ cstage \in [Children -> {"loop", "blocked", "exiting", "zombie", "joined"}]
    /\ cready \in [Children -> SUBSET (Clients \cup {PipeFd, SigFd})]
    /\ cbatch \in [Children -> SUBSET (Clients \cup {PipeFd, SigFd})]
    /\ told \subseteq Children /\ cstop \subseteq Children
    /\ p2c \in [Children -> Nat] /\ c2p \in [Children -> 0..PipeCap]
    /\ fresh \subseteq Clients /\ backlog \in Seq(Clients)
    /\ owner \in [Clients -> Children \cup {NoFd}]
    /\ data \subseteq Clients /\ gone \subseteq Clients

\* The messages in the p2c pipes, and whether a sequence of events has news of the
\* listening socket.
Messages == UNION {{i} \X (1..p2c[i]) : i \in Children}
News(s) == IF ListenFd \in ToSet(s) THEN 1 ELSE 0

\* Whoever is told to accept finds a connection: the messages on their way to
\* children, and the news of the listening socket the parent has not handled,
\* never outnumber the connections that wait, though parent and children
\* accept from one queue.  So no accept() fails for want of a connection.  It
\* does not follow that a child marked as used serves anybody.
EveryMessageHasConnection ==
    Cardinality(Messages) + News(ready) + News(batch) <= Len(backlog)

\* The parent ends after all of its children: no child is left behind, and all
\* of them have been waited for.
NoOrphans == stage = "ended" => \A i \in Children : cstage[i] = "joined"

\* SIGTERM ends the parent and all of its children, but for two cases: a child
\* that is blocked sending to the pipe nobody reads, and a SIGCHLD that came
\* first, with which the parent waits for children nobody has told to stop.
DeafParent == stage = "reap" /\ \E i \in Children : Up(i) /\ i \notin told \cup cstop
ShutdownCompletes ==
    ("TERM" \in ToSet(pipe)) ~>
       \/ stage = "ended"
       \/ \E i \in Children : cstage[i] = "blocked"
       \/ DeafParent

\* What the child's report is for ("this process can be add another
\* connection") and what the parent announces ("Process %d can be used
\* again"): once the parent has handled the news of a child's c2p pipe, that
\* child is free.
ReportFreesChild ==
    [][\A i \in Children :
          (stage = "loop" /\ batch # <<>> /\ Head(batch) = i /\ batch' = Tail(batch))
             => i \notin m_used_process']_vars
=============================================================================
