----------------------------- MODULE WebServer -----------------------------
(***************************************************************************)
(* main() of src/src/httpConn/web_server.cpp, as far as it gets: the       *)
(* branch of the listening socket.  Every connection is initialised with   *)
(* the descriptor of the event, the listening one, which is registered     *)
(* already: EPOLL_CTL_ADD fails, and the accepted descriptor never enters  *)
(* the epoll set.  So no event ever reaches the other branches, which are  *)
(* modelled in HttpConn for a connection that is registered.               *)
(***************************************************************************)
EXTENDS Integers, FiniteSets

CONSTANTS Fds,          \* the descriptors accept() may return
          MAX_FD,       \* connections the server agrees to
          MaxBacklog,   \* length of the queue of listen()
          listenfd

VARIABLES backlog,        \* connections waiting for accept()
          edge,           \* the listening socket has a new event
          epollset,       \* the registered descriptors
          open,           \* the open descriptors of connections
          m_sockfd,       \* users[fd].m_sockfd of the initialised elements
          m_user_count

vars == <<backlog, edge, epollset, open, m_sockfd, m_user_count>>

Init ==
    /\ backlog = 0 /\ edge = FALSE
    /\ epollset = {listenfd}
    /\ open = {} /\ m_sockfd = [fd \in {} |-> listenfd] /\ m_user_count = 0

Connect ==
    /\ backlog < MaxBacklog
    /\ backlog' = backlog + 1 /\ edge' = TRUE
    /\ UNCHANGED <<epollset, open, m_sockfd, m_user_count>>

\* http_conn::init(): an element gets the descriptor sockfd and registers it.
init(fd, sockfd) ==
    /\ m_sockfd' = [f \in DOMAIN m_sockfd \cup {fd} |-> IF f = fd THEN sockfd
                                                        ELSE m_sockfd[f]]
    /\ epollset' = epollset \cup {sockfd}
    /\ m_user_count' = m_user_count + 1

\* One connection is accepted for each event of the edge-triggered socket.
Accept(connfd) ==
    /\ edge /\ backlog > 0
    /\ edge' = FALSE /\ backlog' = backlog - 1
    /\ connfd \in Fds \ open
    /\ IF m_user_count >= MAX_FD
       THEN UNCHANGED <<open, m_sockfd, epollset, m_user_count>>
       ELSE open' = open \cup {connfd} /\ init(connfd, listenfd)

AcceptFails ==
    /\ edge /\ backlog > 0 /\ open = Fds
    /\ edge' = FALSE
    /\ UNCHANGED <<backlog, epollset, open, m_sockfd, m_user_count>>

Next == Connect \/ AcceptFails \/ \E fd \in Fds : Accept(fd)

Spec == Init /\ [][Next]_vars
-----------------------------------------------------------------------------
\* "Main thread registers EPOLLIN sockfd in epollfd": the descriptor of every
\* connection the server has accepted is in the epoll set.
ConnectionRegistered == open \subseteq epollset
=============================================================================
