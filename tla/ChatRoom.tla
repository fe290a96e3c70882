------------------------------ MODULE ChatRoom ------------------------------
(***************************************************************************)
(* The chat room on poll() (src/src/execution/chatroom_server.c): one      *)
(* thread that accepts, reads a message into the sender's buffer, points   *)
(* every other user's write_buf at that buffer, and sends what write_buf   *)
(* points at when the user's socket is reported for output.                *)
(*                                                                         *)
(* fds holds the elements 1..user_counter of fds[]; element 0, the         *)
(* listening socket, has only the flag listening.  users is indexed by     *)
(* descriptor and descriptors are used again, the lowest free one first.   *)
(* A text is a sequence of pieces <<client, number>>, and the empty one is *)
(* the cleared buffer.  `events |= ~POLLIN' sets every flag, and nothing   *)
(* ever clears one, so out stays set once it is.  Output is reported when  *)
(* far more than a message fits, so send() is never short.                 *)
(*                                                                         *)
(* peer is the server's view of a client: reset means an error is pending  *)
(* after which the socket is dead, and broken the same for a client that   *)
(* had ended its stream before, whose error is EPIPE.  SIGPIPE is not      *)
(* ignored here: it kills the server.                                      *)
(***************************************************************************)
EXTENDS Integers, Sequences, FiniteSets, SequencesExt, FiniteSetsExt

CONSTANTS USER_LIMIT,
          BUFFER_SIZE,    \* in pieces, with the one for the final '\0'
          Fds,            \* the descriptors there are
          Clients,        \* the clients that come, in this order
          MaxSends        \* bound: the pieces all clients send

ASSUME ChatAssumption ==
    /\ USER_LIMIT \in Nat \ {0} /\ BUFFER_SIZE \in Nat \ {0, 1} /\ MaxSends \in Nat
    /\ IsFiniteSet(Fds) /\ Fds \subseteq Nat \ {0} /\ Cardinality(Fds) > USER_LIMIT
    /\ IsFiniteSet(Clients) /\ Clients \subseteq Nat \ {0}

NULL == 0

VARIABLES
    fds,          \* [fd, out: POLLOUT is asked for, revents] of each user
    listening,    \* POLLIN in the listening socket's revents
    i,            \* the loop's position; behind the last one poll() is next
    users,        \* by descriptor: buf, and write_buf as the owner of a buf
    who,          \* the client behind a descriptor, NULL when it is free
    ended,        \* by SIGPIPE, or when poll() failed
    \* the clients
    fresh, backlog, peer,
    sends, inbox, \* pieces a client has sent, and those not read yet
    \* history
    todo,         \* the descriptors poll() reported that are not handled yet
    got,          \* what was sent to each client
    stale         \* a buffer was overwritten that somebody's write_buf pointed at,
                  \* when its owner left

server == <<fds, listening, i, users, who, ended>>
world  == <<fresh, backlog, peer, sends, inbox>>
vars   == <<server, world, todo, got, stale>>

user_counter == Len(fds)
Present == {fds[k].fd : k \in DOMAIN fds}
Client(fd) == who[fd]

Init ==
    /\ fds = <<>> /\ listening = FALSE /\ i = 1 /\ ended = FALSE
    /\ users = [fd \in Fds |-> [buf |-> <<>>, write_buf |-> NULL]]
    /\ who = [fd \in Fds |-> NULL]
    /\ fresh = Clients /\ backlog = <<>> /\ peer = [c \in Clients |-> "up"]
    /\ sends = [c \in Clients |-> 0] /\ inbox = [c \in Clients |-> <<>>]
    /\ todo = {} /\ got = [c \in Clients |-> <<>>] /\ stale = FALSE
-----------------------------------------------------------------------------
(* The clients.                                                            *)

Connect(c) ==
    /\ ~ended /\ c \in fresh /\ \A d \in fresh : c <= d
    /\ fresh' = fresh \ {c} /\ backlog' = Append(backlog, c)
    /\ UNCHANGED <<server, peer, sends, inbox, todo, got, stale>>

Connected(c) == ~ended /\ (c \in ToSet(backlog) \/ \E fd \in Fds : who[fd] = c)

MoreToSend == FoldFunction(+, 0, sends) < MaxSends

ClientSends(c) ==
    /\ Connected(c) /\ peer[c] = "up" /\ MoreToSend
    /\ sends' = [sends EXCEPT ![c] = @ + 1]
    /\ inbox' = [inbox EXCEPT ![c] = Append(@, <<c, sends[c] + 1>>)]
    /\ UNCHANGED <<server, fresh, backlog, peer, todo, got, stale>>

ClientLeaves(c) ==
    /\ Connected(c) /\ peer[c] = "up"
    /\ peer' = [peer EXCEPT ![c] = "fin"]
    /\ UNCHANGED <<server, fresh, backlog, sends, inbox, todo, got, stale>>

\* What was sent to a client that does not read it any more comes back as RST,
\* with which recv() may fail.
ClientResets(c) ==
    /\ Connected(c) /\ peer[c] \in {"up", "fin"} /\ got[c] # <<>>
    /\ peer' = [peer EXCEPT ![c] = IF @ = "up" THEN "reset" ELSE "broken"]
    /\ inbox' = [inbox EXCEPT ![c] = IF peer[c] = "up" THEN <<>> ELSE @]
    /\ UNCHANGED <<server, fresh, backlog, sends, todo, got, stale>>
-----------------------------------------------------------------------------
(* The server.                                                             *)

Events == {"ERR", "RDHUP", "IN", "OUT"}

\* What poll() reports for an element.
Revents(e) ==
    LET c == Client(e.fd)
    IN  {f \in Events :
            \/ f = "ERR" /\ peer[c] \in {"reset", "broken"}
            \/ f = "RDHUP" /\ peer[c] # "up"
            \/ f = "IN" /\ (inbox[c] # <<>> \/ peer[c] # "up")
            \/ f = "OUT" /\ e.out}

Poll ==
    LET new == [k \in DOMAIN fds |-> [fds[k] EXCEPT !.revents = Revents(fds[k])]]
    IN  /\ i > user_counter /\ ~ended
        /\ backlog # <<>> \/ \E k \in DOMAIN new : new[k].revents # {}
        /\ fds' = new
        /\ listening' = (backlog # <<>>)
        /\ i' = 0
        /\ todo' = {new[k].fd : k \in {j \in DOMAIN new : new[j].revents # {}}}
        /\ UNCHANGED <<users, who, ended, world, got, stale>>

PollFails ==
    /\ i > user_counter /\ ~ended
    /\ ended' = TRUE
    /\ UNCHANGED <<fds, listening, i, users, who, world, todo, got, stale>>

\* The loop's body for the listening socket.
AtListen == ~ended /\ i = 0 /\ i' = 1 /\ listening' = FALSE

AcceptFails ==
    /\ AtListen /\ listening
    /\ peer[Head(backlog)] # "up" /\ backlog' = Tail(backlog)
    /\ UNCHANGED <<fds, users, who, ended, fresh, peer, sends, inbox,
                   todo, got, stale>>

Full == user_counter >= USER_LIMIT

\* "too many users"
Refuse ==
    /\ AtListen /\ listening /\ Full
    /\ backlog' = Tail(backlog)
    /\ UNCHANGED <<fds, users, who, ended, fresh, peer, sends, inbox,
                   todo, got, stale>>

Accept ==
    LET connfd == Min({fd \in Fds : who[fd] = NULL})
    IN  /\ AtListen /\ listening /\ ~Full
        /\ backlog' = Tail(backlog)
        /\ who' = [who EXCEPT ![connfd] = Head(backlog)]
        /\ fds' = Append(fds, [fd |-> connfd, out |-> FALSE, revents |-> {}])
        /\ UNCHANGED <<users, ended, fresh, peer, sends, inbox, todo, got, stale>>

NoConnection ==
    /\ AtListen /\ ~listening
    /\ UNCHANGED <<fds, users, who, ended, world, todo, got, stale>>

\* The loop's body for a user: the first of the tests that holds decides.
At(fd) == ~ended /\ i \in DOMAIN fds /\ fds[i].fd = fd
\* The bug is to test for input before the end of the stream.
TestsInputFirst == <<"ERR", "IN", "RDHUP", "OUT">>
Tests == <<"ERR", "RDHUP", "IN", "OUT">>
FirstTest(f, revents) ==
    \E n \in DOMAIN Tests : /\ Tests[n] = f /\ f \in revents
                            /\ \A m \in 1..(n - 1) : Tests[m] \notin revents
Takes(fd, f) == At(fd) /\ FirstTest(f, fds[i].revents) /\ todo' = todo \ {fd}

\* getsockopt() fetches the error; the socket is closed one turn later.
FetchError(fd) ==
    /\ Takes(fd, "ERR")
    /\ i' = i + 1
    /\ peer' = [peer EXCEPT ![Client(fd)] = "dead"]
    /\ UNCHANGED <<fds, listening, users, who, ended, fresh, backlog, sends, inbox,
                   got, stale>>

\* The last element takes the place of the one that left, which the loop looks
\* at again, and the record of its user overwrites the record of the other.  The
\* bugs are to forget user_counter-- and i--.
MoveLastKeeps(k) == [fds EXCEPT ![k] = Last(fds)]
MoveLast(k) == Front([fds EXCEPT ![k] = Last(fds)])

DropSkips(fd) ==
    /\ users' = [users EXCEPT ![fd] = users[Last(fds).fd]]
    /\ fds' = MoveLast(i)
    /\ i' = i + 1
    /\ who' = [who EXCEPT ![fd] = NULL]
    /\ inbox' = [inbox EXCEPT ![Client(fd)] = <<>>]
    /\ got' = [got EXCEPT ![Client(fd)] = <<>>]
    /\ stale' = (stale \/ \E g \in Present \ {fd} : users[g].write_buf = fd)

Drop(fd) ==
    /\ users' = [users EXCEPT ![fd] = users[Last(fds).fd]]
    /\ fds' = MoveLast(i)
    /\ i' = i
    /\ who' = [who EXCEPT ![fd] = NULL]
    /\ inbox' = [inbox EXCEPT ![Client(fd)] = <<>>]
    /\ got' = [got EXCEPT ![Client(fd)] = <<>>]
    /\ stale' = (stale \/ \E g \in Present \ {fd} : users[g].write_buf = fd)

Leave(fd) ==
    /\ Takes(fd, "RDHUP")
    /\ Drop(fd)
    /\ UNCHANGED <<listening, ended, fresh, backlog, peer, sends>>

\* recv() fails: the client was reset since poll().
Fails(c) == peer[c] = "reset" /\ inbox[c] = <<>>
RecvFails(fd) ==
    /\ Takes(fd, "IN") /\ Fails(Client(fd))
    /\ Drop(fd)
    /\ UNCHANGED <<listening, ended, fresh, backlog, peer, sends>>

\* The bug of sending to the sender as well.
BroadcastToAll(fd, text) ==
    /\ users' = [g \in Fds |-> [buf |-> IF g = fd THEN text ELSE users[g].buf,
                                write_buf |-> IF g \in Present THEN fd ELSE users[g].write_buf]]
    /\ fds' = [k \in DOMAIN fds |-> [fds[k] EXCEPT !.out = TRUE]]

Broadcast(fd, text) ==
    /\ users' = [g \in Fds |->
                   IF g = fd THEN [users[g] EXCEPT !.buf = text]
                   ELSE IF g \in Present THEN [users[g] EXCEPT !.write_buf = fd]
                   ELSE users[g]]
    /\ fds' = [k \in DOMAIN fds |-> [fds[k] EXCEPT !.out = @ \/ fds[k].fd # fd]]

\* `ret = 0' is an assignment: the end of the stream would be broadcast as well,
\* had the test before not caught it.
Receive(fd) ==
    LET c == Client(fd)
        n == Min({BUFFER_SIZE - 1, Len(inbox[c])})
    IN  /\ Takes(fd, "IN") /\ ~Fails(c)
        /\ i' = i + 1
        /\ inbox' = [inbox EXCEPT ![c] = SubSeq(@, n + 1, Len(@))]
        /\ Broadcast(fd, SubSeq(inbox[c], 1, n))
        /\ UNCHANGED <<listening, who, ended, fresh, backlog, peer, sends, got, stale>>

\* send() to a socket with an error fetches it; the error EPIPE, and a dead
\* socket, come with SIGPIPE.
Send(fd) ==
    LET c == Client(fd)
    IN  /\ Takes(fd, "OUT") /\ users[fd].write_buf # NULL
        /\ i' = i + 1
        /\ users' = [users EXCEPT ![fd].write_buf = NULL]
        /\ got' = IF peer[c] = "up"
                  THEN [got EXCEPT ![c] = @ \o users[users[fd].write_buf].buf] ELSE got
        /\ ended' = (peer[c] \in {"broken", "dead"})
        /\ peer' = [peer EXCEPT ![c] = IF @ = "reset" THEN "dead" ELSE @]
        /\ UNCHANGED <<fds, listening, who, fresh, backlog, sends, inbox, stale>>

NothingToSend(fd) ==
    /\ Takes(fd, "OUT") /\ users[fd].write_buf = NULL
    /\ i' = i + 1
    /\ UNCHANGED <<fds, listening, users, who, ended, world, got, stale>>

NoEvent(fd) ==
    /\ At(fd) /\ fds[i].revents = {}
    /\ i' = i + 1
    /\ UNCHANGED <<fds, listening, users, who, ended, world, todo, got, stale>>
-----------------------------------------------------------------------------
ServerStep ==
    \/ Poll \/ AcceptFails \/ Refuse \/ Accept \/ NoConnection
    \/ \E fd \in Fds : \/ FetchError(fd) \/ Leave(fd) \/ RecvFails(fd)
                       \/ Receive(fd) \/ Send(fd) \/ NothingToSend(fd)
                       \/ NoEvent(fd)

WorldStep ==
    \/ PollFails
    \/ \E c \in Clients : \/ Connect(c) \/ ClientSends(c) \/ ClientLeaves(c)
                          \/ ClientResets(c)

Next == ServerStep \/ WorldStep

\* The server runs whenever it can; the clients do as they please.
Spec == Init /\ [][Next]_vars /\ WF_vars(ServerStep)
-----------------------------------------------------------------------------
\* The type of the state.
Text == Seq(Clients \X Nat)
TypeOK ==
    /\ fds \in Seq([fd : Fds, out : BOOLEAN, revents : SUBSET Events])
    /\ user_counter <= USER_LIMIT /\ i \in 0..(USER_LIMIT + 1)
    /\ users \in [Fds -> [buf : {b \in Text : Len(b) < BUFFER_SIZE},
                          write_buf : Fds \cup {NULL}]]
    /\ who \in [Fds -> Clients \cup {NULL}]
    /\ fresh \subseteq Clients /\ backlog \in Seq(Clients)
    /\ peer \in [Clients -> {"up", "fin", "reset", "broken", "dead"}]
    /\ sends \in [Clients -> Nat]
    /\ inbox \in [Clients -> Text] /\ got \in [Clients -> Text]
    /\ todo \subseteq Fds

\* The table is the open connections: moving the last element to the place of one
\* that left, while the loop goes on, neither loses a connection nor keeps one
\* twice or one that is closed.
TableExact ==
    /\ TypeOK
    /\ Present = {fd \in Fds : who[fd] # NULL}
    /\ Cardinality(Present) = user_counter

\* When the loop is through, every event poll() reported has been handled, those
\* of the elements moved to another place included.
TurnComplete == i > user_counter /\ ~ended => todo = {}

\* Clients get messages as if each were copied to them, as long as no user leaves
\* while another's write_buf points at his buffer: nobody gets his own messages,
\* and those of any other client come in the order they were sent in and none
\* comes twice.  (Some do not come at all: a pending write_buf is replaced, and
\* the buffer it points at filled again.)
TextsInOrder ==
    ~stale => \A c \in Clients : \A k \in DOMAIN got[c] :
                 /\ got[c][k][1] # c
                 /\ \A j \in 1..(k - 1) : got[c][j][1] = got[c][k][1]
                                           => got[c][j][2] < got[c][k][2]

\* A client that has left is dropped: by the end of its stream, or by an error in
\* two turns; unless the server ends.
GoneDropped ==
    \A c \in Clients :
       (\E fd \in Fds : who[fd] = c /\ peer[c] # "up")
          ~> (ended \/ \A fd \in Fds : who[fd] # c)
=============================================================================
