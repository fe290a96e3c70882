-------------------------- MODULE EpollOneshotProofs --------------------------
(***************************************************************************)
(* Proofs about EpollOneshot, for any set of descriptors and of threads.   *)
(***************************************************************************)
EXTENDS EpollOneshot, TLAPS

\* main accepts only what waits to be accepted.
ClientWaits == Listen \in mbatch => backlog > 0

\* The strengthening of OneReader: the sockets main is about to give to a thread
\* are open and disarmed, and what a thread is about to read is what was written
\* for it.
HandOver ==
    /\ mbatch \ {Listen} \subseteq open \ armed
    /\ \A v, w \in Active : sock[v] = sock[w] => v = w
    /\ \A w \in Active : sock[w] \in open \ (armed \cup mbatch)
    /\ \A w \in Unread : sock[w] = arg

IInv ==
    /\ TypeOK
    /\ ClientWaits
    /\ (~overwritten => HandOver)
    /\ NobodyForgotten

\* No socket is open in the beginning.
LEMMA InitInv == Init => IInv
  <1> SUFFICES ASSUME Init PROVE IInv
    OBVIOUS
  <1> USE OneshotAssumption DEF Init
  <1>1. TypeOK
    BY DEF TypeOK
  <1>2. ClientWaits /\ NobodyForgotten
    BY DEF ClientWaits, NobodyForgotten
  <1>3. Active = {} /\ Unread = {}
    BY DEF Active, Unread
  <1>4. HandOver
    BY <1>3 DEF HandOver
  <1> QED
    BY <1>1, <1>2, <1>4 DEF IInv

\* The state keeps its type, whatever the threads do.
LEMMA TypeStep == TypeOK /\ ClientWaits /\ [Next]_vars => TypeOK' /\ ClientWaits'
  <1> SUFFICES ASSUME TypeOK, ClientWaits, [Next]_vars PROVE TypeOK' /\ ClientWaits'
    OBVIOUS
  <1> USE OneshotAssumption
  <1>1. CASE UNCHANGED vars
    BY <1>1 DEF TypeOK, ClientWaits, vars, net
  <1>2. CASE EpollWait
    BY <1>2 DEF EpollWait, Ready, TypeOK, ClientWaits
  <1>3. CASE AcceptFails
    <2>1. TypeOK'
      BY <1>3 DEF AcceptFails, Take, TypeOK
    <2>2. ClientWaits'
      BY <1>3 DEF AcceptFails, Take, ClientWaits
    <2> QED BY <2>1, <2>2
  <1>4. ASSUME NEW s \in Fds, Accept(s) PROVE TypeOK' /\ ClientWaits'
    <2>1. TypeOK'
      BY <1>4 DEF Accept, Take, TypeOK, ClientWaits
    <2>2. ClientWaits'
      BY <1>4 DEF Accept, Take, ClientWaits
    <2> QED BY <2>1, <2>2
  <1>5. ASSUME NEW s \in Fds, CreateWorker(s) PROVE TypeOK' /\ ClientWaits'
    <2>1. TypeOK'
      BY <1>5 DEF CreateWorker, PassArg, Take, TypeOK, net
    <2>2. ClientWaits'
      BY <1>5 DEF CreateWorker, Take, ClientWaits, net
    <2> QED BY <2>1, <2>2
  <1>6. ASSUME NEW s \in Fds, CreateFails(s) PROVE TypeOK' /\ ClientWaits'
    <2>1. TypeOK'
      BY <1>6 DEF CreateFails, PassArg, Take, TypeOK, net
    <2>2. ClientWaits'
      BY <1>6 DEF CreateFails, Take, ClientWaits, net
    <2> QED BY <2>1, <2>2
  <1>7. ASSUME NEW w \in Threads, WorkerStep(w) PROVE TypeOK' /\ ClientWaits'
    <2>1. CASE ReadArg(w)
      BY <2>1 DEF ReadArg, At, Goto, TypeOK, ClientWaits, net
    <2>2. CASE Recv(w)
      BY <2>2 DEF Recv, At, TypeOK, ClientWaits
    <2>3. CASE RecvEof(w)
      BY <2>3 DEF RecvEof, At, Goto, TypeOK, ClientWaits
    <2>4. CASE RecvAgain(w)
      BY <2>4 DEF RecvAgain, At, Goto, TypeOK, ClientWaits, net
    <2>5. CASE reset_oneshot(w)
      BY <2>5 DEF reset_oneshot, At, Goto, TypeOK, ClientWaits, net
    <2> QED BY <1>7, <2>1, <2>2, <2>3, <2>4, <2>5 DEF WorkerStep
  <1>8. CASE WorldStep
    <2>1. CASE Connect
      BY <2>1 DEF Connect, TypeOK, ClientWaits
    <2>2. CASE EpollFails
      BY <2>2 DEF EpollFails, TypeOK, ClientWaits
    <2>3. ASSUME NEW s \in Fds, ClientSends(s) PROVE TypeOK' /\ ClientWaits'
      BY <2>3 DEF ClientSends, TypeOK, ClientWaits
    <2>4. ASSUME NEW s \in Fds, ClientLeaves(s) PROVE TypeOK' /\ ClientWaits'
      BY <2>4 DEF ClientLeaves, TypeOK, ClientWaits
    <2> QED BY <1>8, <2>1, <2>2, <2>3, <2>4 DEF WorldStep
  <1> QED
    BY <1>1, <1>2, <1>3, <1>4, <1>5, <1>6, <1>7, <1>8 DEF Next, MainStep
-----------------------------------------------------------------------------
\* What an action that leaves the threads and their sockets alone cannot disturb.
LEMMA HandOverFrame ==
    ASSUME HandOver, UNCHANGED <<arg, stage, sock>>,
           open \subseteq open',
           mbatch' \ {Listen} \subseteq open' \ armed',
           armed' \cup mbatch' \subseteq armed \cup mbatch \cup {Listen} \cup (open' \ open),
           TypeOK
    PROVE  HandOver'
  <1>1. Active' = Active /\ Unread' = Unread
    BY DEF Active, Unread
  <1>2. \A w \in Active : sock[w] \in open /\ sock[w] # Listen
    BY OneshotAssumption DEF HandOver, TypeOK
  <1> QED
    BY <1>1, <1>2 DEF HandOver

\* As long as no argument is overwritten, a socket is given to one thread at a time.
LEMMA HandOverStep ==
    ASSUME TypeOK, ~overwritten => HandOver, [Next]_vars, ~overwritten'
    PROVE  HandOver'
  <1> USE OneshotAssumption
  <1>0. ~overwritten
    <2>1. CASE UNCHANGED vars BY <2>1, Zenon DEF vars
    <2>2. CASE MainStep
      BY <2>2, Zenon DEF MainStep, EpollWait, AcceptFails, Accept, CreateWorker,
                         CreateFails, PassArg
    <2>3. ASSUME NEW w \in Threads, WorkerStep(w) PROVE ~overwritten
      BY <2>3, Zenon DEF WorkerStep, ReadArg, Recv, RecvEof, RecvAgain, reset_oneshot
    <2>4. CASE WorldStep
      BY <2>4, Zenon DEF WorldStep, Connect, EpollFails, ClientSends, ClientLeaves
    <2> QED BY <2>1, <2>2, <2>3, <2>4 DEF Next
  <1>h. HandOver
    BY <1>0
  <1>1. CASE UNCHANGED vars
    BY <1>1, <1>h DEF HandOver, Active, Unread, vars
  <1>2. CASE EpollWait
    <2>1. UNCHANGED <<arg, stage, sock, open>>
      BY <1>2 DEF EpollWait
    <2>2. mbatch' \ {Listen} \subseteq armed /\ armed' = armed \ mbatch'
      BY <1>2 DEF EpollWait, Ready
    <2> QED BY <1>h, <2>1, <2>2, HandOverFrame DEF TypeOK
  <1>3. CASE AcceptFails
    <2>1. (arg' # arg /\ Unread # {}) => overwritten'
      BY <1>3, Zenon DEF AcceptFails
    <2>2. UNCHANGED <<open, armed, stage, sock>> /\ mbatch' \subseteq mbatch
      BY <1>3 DEF AcceptFails, Take
    <2>3. Active' = Active /\ Unread' = Unread
      BY <2>2 DEF Active, Unread
    <2>4. \A w \in Unread' : sock'[w] = arg'
      BY <1>h, <2>1, <2>2, <2>3 DEF HandOver
    <2> QED BY <1>h, <2>2, <2>3, <2>4 DEF HandOver
  <1>4. ASSUME NEW s \in Fds, Accept(s) PROVE HandOver'
    <2>1. (arg' # arg /\ Unread # {}) => overwritten'
      BY <1>4, Zenon DEF Accept
    <2>2. /\ UNCHANGED <<stage, sock>> /\ mbatch' \subseteq mbatch /\ s \notin open
          /\ open' = open \cup {s} /\ armed' = armed \cup {s}
      BY <1>4 DEF Accept, Take
    <2>3. Active' = Active /\ Unread' = Unread
      BY <2>2 DEF Active, Unread
    <2>4. \A w \in Unread' : sock'[w] = arg'
      BY <1>h, <2>1, <2>2, <2>3 DEF HandOver
    <2> QED BY <1>h, <2>2, <2>3, <2>4 DEF HandOver
  <1>5. ASSUME NEW s \in Fds, CreateWorker(s) PROVE HandOver'
    <2>1. Unread = {}
      BY <1>5, Zenon DEF CreateWorker, PassArg
    <2>2. PICK w \in Threads : /\ stage[w] = "none"
                               /\ stage' = [stage EXCEPT ![w] = "created"]
                               /\ sock' = [sock EXCEPT ![w] = s]
      BY <1>5 DEF CreateWorker
    <2>3. /\ UNCHANGED <<open, armed>> /\ mbatch' = mbatch \ {s} /\ s \in mbatch
          /\ arg' = s
      BY <1>5 DEF CreateWorker, Take, PassArg
    <2>4. Active' = Active \cup {w} /\ w \notin Active /\ Unread' = {w}
      BY <2>1, <2>2 DEF Active, Unread, TypeOK
    <2>5. sock'[w] = s /\ \A v \in Active : sock'[v] = sock[v] /\ sock[v] # s
      BY <1>h, <2>2, <2>3, <2>4 DEF HandOver, TypeOK, Active
    <2>6. s \in open \ (armed \cup mbatch')
      BY <1>h, <2>3 DEF HandOver
    <2>7. \A v, u \in Active' : sock'[v] = sock'[u] => v = u
      BY <1>h, <2>4, <2>5 DEF HandOver
    <2>8. \A v \in Active' : sock'[v] \in open' \ (armed' \cup mbatch')
      BY <1>h, <2>3, <2>4, <2>5, <2>6 DEF HandOver
    <2> QED BY <1>h, <2>3, <2>4, <2>5, <2>7, <2>8 DEF HandOver
  <1>6. ASSUME NEW s \in Fds, CreateFails(s) PROVE HandOver'
    <2>1. Unread = {}
      BY <1>6, Zenon DEF CreateFails, PassArg
    <2>2. UNCHANGED <<stage, sock, open, armed>> /\ mbatch' \subseteq mbatch
      BY <1>6 DEF CreateFails, Take
    <2>3. Active' = Active /\ Unread' = {}
      BY <2>1, <2>2 DEF Active, Unread
    <2> QED BY <1>h, <2>2, <2>3 DEF HandOver
  <1>7. ASSUME NEW w \in Threads, WorkerStep(w) PROVE HandOver'
    <2>1. CASE ReadArg(w)
      <3>1. sock[w] = arg
        BY <1>h, <2>1 DEF HandOver, ReadArg, At, Unread
      <3>2. sock' = sock /\ UNCHANGED <<mbatch, arg, open, armed>>
        BY <2>1, <3>1 DEF ReadArg, TypeOK
      <3>3. Active' = Active /\ Unread' \subseteq Unread
        BY <2>1 DEF ReadArg, At, Goto, Active, Unread, TypeOK
      <3> QED BY <1>h, <3>2, <3>3 DEF HandOver
    <2>2. CASE Recv(w)
      BY <2>2, <1>h DEF Recv, HandOver, Active, Unread
    <2>3. CASE RecvEof(w)
      <3>1. /\ UNCHANGED <<mbatch, arg>>
            /\ open' = open \ {sock[w]} /\ armed' = armed \ {sock[w]}
        BY <2>3 DEF RecvEof
      <3>2. /\ Active' = Active \ {w} /\ Unread' \subseteq Unread \cap Active' /\ w \in Active
            /\ \A v \in Active' : sock'[v] = sock[v]
        BY <2>3 DEF RecvEof, At, Goto, Active, Unread, TypeOK
      <3>3. sock[w] \notin mbatch
        BY <1>h, <3>2 DEF HandOver
      <3> QED BY <1>h, <3>1, <3>2, <3>3 DEF HandOver
    <2>4. CASE RecvAgain(w)
      <3>1. Active' = Active /\ Unread' = Unread
        BY <2>4 DEF RecvAgain, At, Goto, Active, Unread, TypeOK
      <3> QED BY <1>h, <2>4, <3>1 DEF RecvAgain, HandOver
    <2>5. CASE reset_oneshot(w)
      <3>1. UNCHANGED <<mbatch, arg, open>> /\ armed' \subseteq armed \cup {sock[w]}
        BY <2>5 DEF reset_oneshot
      <3>2. /\ Active' = Active \ {w} /\ Unread' \subseteq Unread \cap Active' /\ w \in Active
            /\ \A v \in Active' : sock'[v] = sock[v]
        BY <2>5 DEF reset_oneshot, At, Goto, Active, Unread, TypeOK
      <3>3. sock[w] \notin mbatch /\ \A v \in Active' : sock[v] # sock[w]
        BY <1>h, <3>2 DEF HandOver
      <3> QED BY <1>h, <3>1, <3>2, <3>3 DEF HandOver
    <2> QED BY <1>7, <2>1, <2>2, <2>3, <2>4, <2>5 DEF WorkerStep
  <1>8. CASE WorldStep
    <2>1. CASE EpollFails
      <3>1. Active' = {} /\ Unread' = {}
        BY <2>1 DEF EpollFails, Active, Unread
      <3>2. mbatch' = {}
        BY <2>1 DEF EpollFails
      <3> QED BY <3>1, <3>2 DEF HandOver
    <2>2. ASSUME Connect \/ \E s \in Fds : ClientSends(s) \/ ClientLeaves(s)
          PROVE  HandOver'
      <3>1. UNCHANGED <<mbatch, arg, open, armed, stage, sock>>
        BY <2>2 DEF Connect, ClientSends, ClientLeaves
      <3> QED BY <1>h, <3>1 DEF HandOver, Active, Unread
    <2> QED BY <1>8, <2>1, <2>2 DEF WorldStep
  <1> QED
    BY <1>1, <1>2, <1>3, <1>4, <1>5, <1>6, <1>7, <1>8 DEF Next, MainStep
-----------------------------------------------------------------------------
\* Whatever the threads read, an open socket is armed, in main's hands or a
\* thread's, or known to be lost.
LEMMA NobodyForgottenStep ==
    ASSUME TypeOK, NobodyForgotten, [Next]_vars
    PROVE  NobodyForgotten'
  <1> DEFINE Kept(s) == s \in armed \cup mbatch \cup lost \/ \E w \in Active : sock[w] = s
  <1>k. \A s \in open : Kept(s)
    BY DEF NobodyForgotten
  <1> SUFFICES ASSUME NEW f \in open' PROVE Kept(f)'
    BY DEF NobodyForgotten
  <1> USE OneshotAssumption
  <1>1. CASE UNCHANGED vars
    BY <1>1, <1>k DEF Active, vars
  <1>2. CASE EpollWait
    BY <1>2, <1>k DEF EpollWait, Active
  <1>3. CASE AcceptFails
    <2>1. f \in open /\ f # Listen
      BY <1>3 DEF AcceptFails, TypeOK
    <2> QED BY <1>3, <1>k, <2>1 DEF AcceptFails, Take, Active
  <1>4. ASSUME NEW s \in Fds, Accept(s) PROVE Kept(f)'
    <2>1. f # Listen /\ (f \in open \/ f = s)
      BY <1>4 DEF Accept, TypeOK
    <2> QED BY <1>4, <1>k, <2>1 DEF Accept, Take, Active
  <1>5. ASSUME NEW s \in Fds, CreateWorker(s) PROVE Kept(f)'
    <2>1. PICK w \in Threads : /\ stage[w] = "none"
                               /\ stage' = [stage EXCEPT ![w] = "created"]
                               /\ sock' = [sock EXCEPT ![w] = s]
      BY <1>5 DEF CreateWorker
    <2>2. UNCHANGED <<open, armed, lost>> /\ mbatch' = mbatch \ {s}
      BY <1>5 DEF CreateWorker, Take
    <2>3. /\ w \in Active' /\ sock'[w] = s
          /\ \A v \in Active : v \in Active' /\ sock'[v] = sock[v]
      BY <2>1 DEF Active, TypeOK
    <2> QED BY <1>k, <2>2, <2>3
  <1>6. ASSUME NEW s \in Fds, CreateFails(s) PROVE Kept(f)'
    BY <1>6, <1>k DEF CreateFails, Take, Active
  <1>7. ASSUME NEW w \in Threads, WorkerStep(w) PROVE Kept(f)'
    <2>1. CASE ReadArg(w)
      <3>1. /\ UNCHANGED <<open, armed, mbatch>> /\ lost \subseteq lost'
            /\ sock'[w] = sock[w] \/ {sock[w]} \cap open \subseteq lost'
        BY <2>1 DEF ReadArg, TypeOK
      <3>2. Active' = Active /\ \A v \in Active \ {w} : sock'[v] = sock[v]
        BY <2>1 DEF ReadArg, At, Goto, Active, TypeOK
      <3> QED BY <1>k, <3>1, <3>2
    <2>2. CASE Recv(w)
      BY <1>k, <2>2 DEF Recv, Active
    <2>3. CASE RecvEof(w)
      <3>1. /\ UNCHANGED mbatch /\ open' = open \ {sock[w]}
            /\ armed' = armed \ {sock[w]} /\ lost' = lost \ {sock[w]}
        BY <2>3 DEF RecvEof
      <3>2. Active' = Active \ {w} /\ \A v \in Active' : sock'[v] = sock[v]
        BY <2>3 DEF RecvEof, At, Goto, Active, TypeOK
      <3> QED BY <1>k, <3>1, <3>2
    <2>4. CASE RecvAgain(w)
      <3>1. Active' = Active
        BY <2>4 DEF RecvAgain, At, Goto, Active, TypeOK
      <3> QED BY <1>k, <2>4, <3>1 DEF RecvAgain
    <2>5. CASE reset_oneshot(w)
      <3>1. /\ UNCHANGED <<mbatch, open, lost>>
            /\ armed' = armed \cup ({sock[w]} \cap open)
        BY <2>5 DEF reset_oneshot
      <3>2. Active' = Active \ {w} /\ \A v \in Active' : sock'[v] = sock[v]
        BY <2>5 DEF reset_oneshot, At, Goto, Active, TypeOK
      <3> QED BY <1>k, <3>1, <3>2
    <2> QED BY <1>7, <2>1, <2>2, <2>3, <2>4, <2>5 DEF WorkerStep
  <1>8. CASE WorldStep
    <2>1. CASE EpollFails
      BY <2>1 DEF EpollFails
    <2>2. ASSUME Connect \/ \E s \in Fds : ClientSends(s) \/ ClientLeaves(s)
          PROVE  Kept(f)'
      <3>1. UNCHANGED <<mbatch, open, armed, lost, stage, sock>>
        BY <2>2 DEF Connect, ClientSends, ClientLeaves
      <3> QED BY <1>k, <3>1 DEF Active
    <2> QED BY <1>8, <2>1, <2>2 DEF WorldStep
  <1> QED
    BY <1>1, <1>2, <1>3, <1>4, <1>5, <1>6, <1>7, <1>8 DEF Next, MainStep
-----------------------------------------------------------------------------
\* The inductive invariant holds in every reachable state.
LEMMA Invariance == Spec => []IInv
  <1>1. IInv /\ [Next]_vars => IInv'
    <2> SUFFICES ASSUME IInv, [Next]_vars PROVE IInv'
      OBVIOUS
    <2>1. TypeOK' /\ ClientWaits'
      BY TypeStep DEF IInv
    <2>2. ~overwritten' => HandOver'
      BY HandOverStep DEF IInv
    <2>3. NobodyForgotten'
      BY NobodyForgottenStep DEF IInv
    <2> QED BY <2>1, <2>2, <2>3 DEF IInv
  <1> QED
    BY InitInv, <1>1, PTL DEF Spec

\* The variables of the program keep their types: an armed socket is an open one,
\* and so is one with data or with a peer who has left.
THEOREM TypeCorrect == Spec => []TypeOK
  <1>1. IInv => TypeOK
    BY DEF IInv
  <1> QED
    BY Invariance, <1>1, PTL

\* EPOLLONESHOT and reset_oneshot() keep a socket in the hands of one thread, for
\* any number of sockets and threads, until main overwrites an argument that has
\* not been read.
THEOREM OneReaderPerSocket == Spec => []OneReader
  <1>1. IInv => OneReader
    BY DEF IInv, HandOver, OneReader
  <1> QED
    BY Invariance, <1>1, PTL

\* No open socket is forgotten except the ones that lost their event to an
\* overwritten argument or a failed pthread_create().
THEOREM NoSocketForgotten == Spec => []NobodyForgotten
  <1>1. IInv => NobodyForgotten
    BY DEF IInv
  <1> QED
    BY Invariance, <1>1, PTL
=============================================================================
