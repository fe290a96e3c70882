-------------------------- MODULE ProcessPoolProofs --------------------------
(***************************************************************************)
(* Proofs about ProcessPool, for any number of children and clients, any   *)
(* size of the pipes and any number of crashes.                            *)
(***************************************************************************)
EXTENDS ProcessPool, FiniteSetTheorems, TLAPS

Fds == Children \cup {ListenFd, SigFd}

\* A child that is about to read its p2c pipe finds a message there.
MessageThere == \A i \in Children : PipeFd \in cbatch[i] => p2c[i] > 0

\* News of the listening socket is at one place of a sequence of events at most.
Once(s) == \A j, k \in DOMAIN s : s[j] = ListenFd /\ s[k] = ListenFd => j = k

\* The parent knows which children it has not waited for.
Unjoined ==
    /\ \A i \in Children : cstage[i] = "joined" <=> i \notin m_pid
    /\ stage = "ended" => m_pid = {}

IInv ==
    /\ TypeOK
    /\ MessageThere
    /\ Once(ready) /\ Once(batch)
    /\ IsFiniteSet(Messages)
    /\ EveryMessageHasConnection
    /\ Unjoined

\* Children, clients and the other descriptors differ.
LEMMA FdFacts ==
    /\ IsFiniteSet(Children) /\ Children \subseteq Nat /\ 0 \in Children
    /\ ListenFd \notin Children /\ SigFd \notin Children /\ NoFd \notin Children
    /\ ListenFd # SigFd /\ PipeFd # SigFd
    /\ PipeFd \notin Clients /\ SigFd \notin Clients /\ NoFd \notin Clients
  <1>1. IsFiniteSet(Children) /\ Children \subseteq Nat /\ 0 \in Children
    BY PoolAssumption, FS_Interval DEF Children
  <1> QED
    BY <1>1, PoolAssumption DEF ListenFd, SigFd, PipeFd, NoFd

\* Put() adds an element that is not there yet.
LEMMA PutFacts ==
    ASSUME NEW S, NEW s \in Seq(S), NEW x \in S
    PROVE  /\ Put(s, x) \in Seq(S)
           /\ Once(s) => Once(Put(s, x))
           /\ x # ListenFd => News(Put(s, x)) = News(s)
           /\ News(Put(s, x)) <= News(s) + 1
  <1>1. CASE x \in ToSet(s)
    BY <1>1 DEF Put, News
  <1>2. CASE x \notin ToSet(s)
    <2> DEFINE t == Append(s, x)
    <2>1. /\ t \in Seq(S) /\ Len(s) \in Nat
          /\ DOMAIN t = 1..(Len(s) + 1) /\ DOMAIN s = 1..Len(s)
      OBVIOUS
    <2>2. /\ \A i \in 1..Len(s) : t[i] = s[i]
          /\ t[Len(s) + 1] = x
      OBVIOUS
    <2>3. 1..(Len(s) + 1) = (1..Len(s)) \cup {Len(s) + 1}
      BY <2>1
    <2>4. Put(s, x) = t
      BY <1>2 DEF Put
    <2>5. ToSet(t) = ToSet(s) \cup {x}
      BY <2>1, <2>2, <2>3 DEF ToSet
    <2>6. Once(s) => Once(t)
      BY <1>2, <2>1, <2>2, <2>3 DEF Once, ToSet
    <2> QED BY <2>1, <2>4, <2>5, <2>6 DEF News
  <1> QED BY <1>1, <1>2

\* What is known of a batch when its first event has been handled.
LEMMA TailFacts ==
    ASSUME NEW S, NEW s \in Seq(S), s # <<>>
    PROVE  /\ Head(s) \in S /\ Tail(s) \in Seq(S)
           /\ Len(Tail(s)) = Len(s) - 1 /\ Len(s) > 0
           /\ Once(s) => Once(Tail(s))
           /\ News(Tail(s)) <= News(s)
           /\ Head(s) = ListenFd => News(s) = 1
           /\ Head(s) = ListenFd /\ Once(s) => News(Tail(s)) = 0
  <1>1. /\ Head(s) = s[1] /\ Head(s) \in S /\ Tail(s) \in Seq(S)
        /\ Len(s) \in Nat /\ Len(s) > 0 /\ Len(Tail(s)) = Len(s) - 1
        /\ DOMAIN s = 1..Len(s) /\ DOMAIN Tail(s) = 1..(Len(s) - 1)
    OBVIOUS
  <1>2. \A i \in 1..(Len(s) - 1) : Tail(s)[i] = s[i + 1] /\ i + 1 \in 1..Len(s)
    BY <1>1
  <1>3. Once(s) => Once(Tail(s))
    <2> SUFFICES ASSUME Once(s), NEW j \in DOMAIN Tail(s), NEW k \in DOMAIN Tail(s),
                        Tail(s)[j] = ListenFd, Tail(s)[k] = ListenFd
                 PROVE  j = k
      BY DEF Once
    <2>1. j + 1 = k + 1
      BY <1>1, <1>2 DEF Once
    <2> QED BY <1>1, <2>1
  <1>4. ToSet(Tail(s)) \subseteq ToSet(s) /\ Head(s) \in ToSet(s)
    BY <1>1, <1>2 DEF ToSet
  <1>5. ASSUME Head(s) = ListenFd, Once(s) PROVE ListenFd \notin ToSet(Tail(s))
    <2> SUFFICES ASSUME NEW j \in DOMAIN Tail(s), Tail(s)[j] = ListenFd PROVE FALSE
      BY DEF ToSet
    <2>1. j + 1 = 1
      BY <1>1, <1>2, <1>5 DEF Once
    <2> QED BY <1>1, <2>1
  <1> QED BY <1>1, <1>3, <1>4, <1>5 DEF News

\* The two ways the messages change: one more or less in a pipe, or a pipe closed.
LEMMA MessageAdded ==
    ASSUME NEW i \in Children, p2c \in [Children -> Nat], IsFiniteSet(Messages),
           p2c' = [p2c EXCEPT ![i] = @ + 1]
    PROVE  /\ IsFiniteSet(Messages')
           /\ Cardinality(Messages') = Cardinality(Messages) + 1
  <1>1. 1..(p2c[i] + 1) = (1..p2c[i]) \cup {p2c[i] + 1} /\ p2c[i] + 1 \notin 1..p2c[i]
    OBVIOUS
  <1>2. p2c'[i] = p2c[i] + 1 /\ \A j \in Children \ {i} : p2c'[j] = p2c[j]
    OBVIOUS
  <1>3. <<i, p2c[i] + 1>> \notin Messages
    BY <1>1 DEF Messages
  <1>4. Messages' = Messages \cup {<<i, p2c[i] + 1>>}
    BY <1>1, <1>2 DEF Messages
  <1> QED BY <1>3, <1>4, FS_AddElement, FS_CardinalityType

\* A child that reads a message takes one off the pipes.
LEMMA MessageTaken ==
    ASSUME NEW i \in Children, p2c \in [Children -> Nat], IsFiniteSet(Messages),
           p2c[i] > 0, p2c' = [p2c EXCEPT ![i] = @ - 1]
    PROVE  /\ IsFiniteSet(Messages')
           /\ Cardinality(Messages') = Cardinality(Messages) - 1
  <1>1. 1..(p2c[i] - 1) = (1..p2c[i]) \ {p2c[i]} /\ p2c[i] \in 1..p2c[i]
    OBVIOUS
  <1>2. p2c'[i] = p2c[i] - 1 /\ \A j \in Children \ {i} : p2c'[j] = p2c[j]
    OBVIOUS
  <1>3. <<i, p2c[i]>> \in Messages
    BY <1>1 DEF Messages
  <1>4. Messages' = Messages \ {<<i, p2c[i]>>}
    BY <1>1, <1>2 DEF Messages
  <1> QED BY <1>3, <1>4, FS_RemoveElement

\* A pipe that is closed takes its messages with it.
LEMMA PipeClosed ==
    ASSUME NEW i \in Children, p2c \in [Children -> Nat], IsFiniteSet(Messages),
           p2c' = [p2c EXCEPT ![i] = 0]
    PROVE  /\ IsFiniteSet(Messages')
           /\ Cardinality(Messages') <= Cardinality(Messages)
  <1>1. 1..0 = {} /\ p2c'[i] = 0 /\ \A j \in Children \ {i} : p2c'[j] = p2c[j]
    OBVIOUS
  <1>2. Messages' \subseteq Messages
    BY <1>1 DEF Messages
  <1> QED BY <1>2, FS_Subset

\* All children run and no message is under way.
LEMMA InitInv == Init => IInv
  <1> SUFFICES ASSUME Init PROVE IInv
    OBVIOUS
  <1> USE PoolAssumption, FdFacts
  <1>0. m_used_process \subseteq Children
    BY DEF Init, Children
  <1>1. TypeOK
    BY <1>0 DEF Init, TypeOK
  <1>2. MessageThere /\ Unjoined
    BY DEF Init, MessageThere, Unjoined
  <1>3. ToSet(<<>>) = {}
    BY DEF ToSet
  <1>4. Once(ready) /\ Once(batch) /\ News(ready) = 0 /\ News(batch) = 0
    BY <1>3 DEF Init, Once, News
  <1>5. Messages = {}
    BY DEF Init, Messages
  <1>6. IsFiniteSet(Messages) /\ EveryMessageHasConnection
    BY <1>4, <1>5, FS_EmptySet DEF Init, EveryMessageHasConnection
  <1> QED BY <1>1, <1>2, <1>4, <1>6 DEF IInv
-----------------------------------------------------------------------------
\* A step of the specification is a step of one of its actions.
LEMMA Steps ==
    ASSUME [Next]_vars
    PROVE  \/ UNCHANGED vars
           \/ ParentWait \/ ParentEnds \/ Refuse \/ ReadSignals \/ Reaped \/ Terminate
           \/ \E i \in Children :
                \/ Assign(i) \/ Release(i) \/ Reap(i) \/ ChildWait(i) \/ AcceptConn(i)
                \/ ChildSignals(i) \/ ChildExits(i) \/ ChildSignal(i) \/ Crash(i)
                \/ \E c \in Clients : Echo(i, c) \/ CloseConn(i, c)
           \/ \E c \in Clients : Connect(c) \/ ClientSends(c) \/ ClientLeaves(c)
  BY DEF Next, ParentStep, ChildStep, WorldStep

\* What epoll_wait() gives the parent is a part of ready, in its order.
LEMMA Waited ==
    ASSUME TypeOK, ParentWait
    PROVE  /\ batch' \in Seq(Fds)
           /\ events' \in [Children -> Fds \cup {NoFd}]
           /\ Once(ready) => Once(batch')
           /\ News(batch') <= News(ready)
  <1>1. PICK at \in InOrder : batch' = [k \in DOMAIN at |-> ready[at[k]]]
    BY DEF ParentWait
  <1> DEFINE n == Cardinality(Places)
  <1>2. ready \in Seq(Fds) /\ DOMAIN ready = 1..Len(ready) /\ Len(ready) \in Nat
    BY DEF TypeOK, Fds
  <1>3. n \in Nat
    <2>1. IsFiniteSet(1..Len(ready))
      BY <1>2, FS_Interval
    <2>2. Places \subseteq 1..Len(ready)
      BY <1>2 DEF Places
    <2>3. IsFiniteSet(Places)
      BY <2>1, <2>2, FS_Subset
    <2> QED BY <2>3, FS_CardinalityType
  <1>4. /\ at \in [1..n -> Places] /\ DOMAIN at = 1..n
        /\ \A j, k \in DOMAIN at : j < k => at[j] < at[k]
    BY DEF InOrder
  <1>5. \A k \in 1..n : at[k] \in DOMAIN ready /\ ready[at[k]] \in Fds
    BY <1>2, <1>4 DEF Places
  <1>6. batch' = [k \in 1..n |-> ready[at[k]]]
    BY <1>1, <1>4
  <1>7. batch' \in Seq(Fds) /\ DOMAIN batch' = 1..n /\ Len(batch') = n
    <2> HIDE DEF n
    <2> QED BY <1>3, <1>5, <1>6
  <1>8. events' \in [Children -> Fds \cup {NoFd}]
    <2>1. \A k \in Children : k < n => k + 1 \in 1..n
      BY <1>3, FdFacts
    <2>2. \A k \in Children : k < n => batch'[k + 1] \in Fds
      BY <1>5, <1>6, <2>1
    <2>3. events' = [k \in Children |-> IF k < n THEN batch'[k + 1] ELSE events[k]]
      BY <1>7 DEF ParentWait
    <2>4. events \in [Children -> Fds \cup {NoFd}]
      BY DEF TypeOK, Fds
    <2> HIDE DEF n
    <2> QED BY <2>2, <2>3, <2>4
  <1>9. ASSUME Once(ready), NEW j \in 1..n, NEW k \in 1..n,
               batch'[j] = ListenFd, batch'[k] = ListenFd
        PROVE  j = k
    <2>1. at[j] = at[k]
      BY <1>5, <1>6, <1>9 DEF Once
    <2>2. at[j] \in Nat /\ at[k] \in Nat
      BY <1>2, <1>5
    <2>3. ~(at[j] < at[k]) /\ ~(at[k] < at[j])
      BY <2>1, <2>2
    <2>4. ~(j < k) /\ ~(k < j)
      BY <1>4, <2>3
    <2> QED BY <1>3, <2>4
  <1>10. ToSet(batch') \subseteq ToSet(ready)
    BY <1>5, <1>6, <1>7 DEF ToSet
  <1> QED BY <1>7, <1>8, <1>9, <1>10 DEF Once, News

\* The state keeps its type: no message is read that is not there, and Tail is
\* taken of no empty sequence.
LEMMA TypeStep ==
    ASSUME TypeOK, MessageThere, EveryMessageHasConnection, IsFiniteSet(Messages),
           [Next]_vars
    PROVE  TypeOK' /\ MessageThere'
  <1> USE FdFacts
  <1>1. CASE UNCHANGED vars
    BY <1>1 DEF TypeOK, MessageThere, vars, parent, kids, net
  <1>2. CASE ParentWait
    <2>1. batch' \in Seq(Fds) /\ events' \in [Children -> Fds \cup {NoFd}]
          /\ ready' \in Seq(Fds)
      BY <1>2, Waited DEF ParentWait
    <2>2. UNCHANGED <<stage, pipe, termed, m_pid, m_used_process,
                   sub_process_count, watched, kids, net>>
      BY <1>2 DEF ParentWait
    <2>3. TypeOK'
      BY <2>1, <2>2 DEF TypeOK, kids, net, Fds
    <2>4. MessageThere'
      BY <2>2 DEF MessageThere, kids
    <2> QED BY <2>3, <2>4
  <1>3. CASE ParentEnds
    BY <1>3 DEF ParentEnds, TypeOK, MessageThere, kids, net
  <1>4. CASE Refuse
    <2>1. backlog # <<>>
      <3>1. Cardinality(Messages) \in Nat
        BY FS_CardinalityType
      <3>2. News(batch) = 1
        BY <1>4, TailFacts DEF Refuse, Take, TypeOK
      <3>3. News(ready) \in {0, 1}
        BY DEF News
      <3> QED BY <3>1, <3>2, <3>3 DEF EveryMessageHasConnection
    <2>2. /\ batch # <<>> /\ batch' = Tail(batch) /\ backlog' = Tail(backlog)
          /\ data' \subseteq data /\ gone' \subseteq gone
          /\ UNCHANGED <<stage, events, ready, pipe, termed, m_pid, m_used_process,
                         sub_process_count, watched, kids, fresh, owner>>
      BY <1>4 DEF Refuse, Take
    <2> QED BY <2>1, <2>2, TailFacts DEF TypeOK, MessageThere, kids
  <1>5. CASE ReadSignals
    <2>1. /\ batch # <<>> /\ batch' = Tail(batch) /\ pipe' = <<>>
          /\ told' \subseteq told \cup m_pid
          /\ stage' \in {"reap", stage}
          /\ UNCHANGED <<events, ready, termed, m_pid, m_used_process,
                         sub_process_count, watched, cstage, cbatch, cstop, p2c,
                         c2p, crashes, net>>
      BY <1>5 DEF ReadSignals, Take
    <2>2. cready' \in [Children -> SUBSET (Clients \cup {PipeFd, SigFd})]
      BY <1>5 DEF ReadSignals, TypeOK
    <2>3. batch' \in Seq(Fds)
      BY <2>1, TailFacts DEF TypeOK, Fds
    <2>4. pipe' \in Seq({"TERM", "CHLD"})
      BY <2>1
    <2>5. told' \subseteq Children /\ stage' \in {"loop", "reap", "ended"}
      BY <2>1 DEF TypeOK
    <2>6. UNCHANGED <<events, ready, termed, m_pid, m_used_process, sub_process_count,
                      watched, cstage, cbatch, cstop, p2c, c2p, crashes, net>>
      BY <2>1
    <2>7. TypeOK'
      BY <2>2, <2>3, <2>4, <2>5, <2>6 DEF TypeOK, net, Fds
    <2>8. MessageThere'
      BY <2>1 DEF MessageThere
    <2> QED BY <2>7, <2>8
  <1>6. CASE Reaped
    BY <1>6 DEF Reaped, TypeOK, MessageThere, kids, net
  <1>7. CASE Terminate
    BY <1>7, PutFacts DEF Terminate, sig_handler, TypeOK, MessageThere, parent, kids, net
  <1>8. ASSUME NEW i \in Children, Assign(i) PROVE TypeOK' /\ MessageThere'
    <2>1. NextTurn(i) \in Children
      BY PoolAssumption DEF NextTurn, Children
    <2>2. ready' \in Seq(Fds)
      BY <1>8, PutFacts DEF Assign, TypeOK, Fds
    <2>3. /\ batch # <<>> /\ batch' = Tail(batch)
          /\ p2c' \in {p2c, [p2c EXCEPT ![i] = @ + 1]}
          /\ cready' \in {cready, [cready EXCEPT ![i] = @ \cup {PipeFd}]}
          /\ sub_process_count' = NextTurn(i)
          /\ m_used_process' = m_used_process \cup {i} /\ watched' = watched \cup {i}
          /\ UNCHANGED <<stage, events, pipe, termed, m_pid,
                   cstage, cbatch, told, cstop, c2p, crashes, net>>
      BY <1>8 DEF Assign, Take, TypeOK
    <2>4. p2c' \in [Children -> Nat] /\ \A j \in Children : p2c'[j] >= p2c[j]
      <3>0. p2c \in [Children -> Nat]
        BY DEF TypeOK
      <3>1. CASE p2c' = p2c
        BY <3>0, <3>1
      <3>2. CASE p2c' = [p2c EXCEPT ![i] = @ + 1]
        BY <3>0, <3>2
      <3> QED BY <2>3, <3>1, <3>2
    <2>5. cready' \in [Children -> SUBSET (Clients \cup {PipeFd, SigFd})]
      BY <2>3, SMTT(30) DEF TypeOK
    <2>6. batch' \in Seq(Fds)
      BY <2>3, TailFacts DEF TypeOK, Fds
    <2>7. TypeOK'
      BY <2>1, <2>2, <2>3, <2>4, <2>5, <2>6 DEF TypeOK, net, Fds
    <2>8. MessageThere'
      BY <2>3, <2>4, SMTT(30) DEF MessageThere, TypeOK
    <2> QED BY <2>7, <2>8
  <1>9. ASSUME NEW i \in Children, Release(i) PROVE TypeOK' /\ MessageThere'
    <2>1. /\ batch # <<>> /\ batch' = Tail(batch)
          /\ m_used_process' \subseteq m_used_process
          /\ UNCHANGED <<stage, ready, events, pipe, termed, m_pid,
                       sub_process_count, watched, kids, net>>
      BY <1>9 DEF Release, Take
    <2> QED BY <2>1, TailFacts DEF TypeOK, MessageThere, kids, net
  <1>10. ASSUME NEW i \in Children, Reap(i) PROVE TypeOK' /\ MessageThere'
    BY <1>10 DEF Reap, TypeOK, MessageThere, net
  <1>11. ASSUME NEW i \in Children, ChildWait(i) PROVE TypeOK' /\ MessageThere'
    <2> DEFINE new == {fd \in cready[i] : CanRead(i, fd)}
    <2>1. /\ cbatch' = [cbatch EXCEPT ![i] = new] /\ cready' = [cready EXCEPT ![i] = {}]
          /\ UNCHANGED <<parent, ready, pipe, termed, cstage, told, cstop, p2c, c2p,
                         crashes, net>>
      BY <1>11 DEF ChildWait
    <2>2. PipeFd \in new => p2c[i] > 0
      BY DEF CanRead, TypeOK
    <2>3. TypeOK'
      BY <2>1 DEF TypeOK, parent, net
    <2>4. MessageThere'
      BY <2>1, <2>2 DEF MessageThere, TypeOK
    <2> QED BY <2>3, <2>4
  <1>12. ASSUME NEW i \in Children, AcceptConn(i) PROVE TypeOK' /\ MessageThere'
    <2>1. /\ PipeFd \in cbatch[i] /\ cbatch' = [cbatch EXCEPT ![i] = @ \ {PipeFd}]
          /\ p2c' = [p2c EXCEPT ![i] = @ - 1]
          /\ UNCHANGED <<parent, ready, pipe, termed, cstage, told, cstop, c2p, crashes,
                         fresh, data, gone>>
      BY <1>12 DEF AcceptConn, ChildTake
    <2>2. /\ backlog' \in Seq(Clients) /\ owner' \in [Clients -> Children \cup {NoFd}]
          /\ cready' \in [Children -> SUBSET (Clients \cup {PipeFd, SigFd})]
      <3>1. CASE backlog = <<>>
        BY <1>12, <3>1 DEF AcceptConn, TypeOK
      <3>2. CASE backlog # <<>>
        <4>1. /\ backlog' = Tail(backlog) /\ owner' = [owner EXCEPT ![Head(backlog)] = i]
              /\ cready' \in {cready, [cready EXCEPT ![i] = @ \cup {Head(backlog)}]}
          BY <1>12, <3>2 DEF AcceptConn
        <4>2. Head(backlog) \in Clients /\ Tail(backlog) \in Seq(Clients)
          BY <3>2, TailFacts DEF TypeOK
        <4>3. owner' \in [Clients -> Children \cup {NoFd}]
          BY <4>1, <4>2 DEF TypeOK
        <4>4. cready' \in [Children -> SUBSET (Clients \cup {PipeFd, SigFd})]
          <5>1. CASE cready' = cready
            BY <5>1 DEF TypeOK
          <5>2. CASE cready' = [cready EXCEPT ![i] = @ \cup {Head(backlog)}]
            BY <4>2, <5>2 DEF TypeOK
          <5> QED BY <4>1, <5>1, <5>2
        <4> QED BY <4>1, <4>2, <4>3, <4>4
      <3> QED BY <3>1, <3>2
    <2>3. p2c' \in [Children -> Nat]
      BY <2>1, SMTT(30) DEF MessageThere, TypeOK
    <2>4. cbatch' \in [Children -> SUBSET (Clients \cup {PipeFd, SigFd})]
      BY <2>1 DEF TypeOK
    <2>5. TypeOK'
      BY <2>1, <2>2, <2>3, <2>4 DEF TypeOK, parent
    <2>6. MessageThere'
      BY <2>1 DEF MessageThere, TypeOK
    <2> QED BY <2>5, <2>6
  <1>13. ASSUME NEW i \in Children, ChildSignals(i) PROVE TypeOK' /\ MessageThere'
    BY <1>13 DEF ChildSignals, ChildTake, TypeOK, MessageThere, parent, net
  <1>14. ASSUME NEW i \in Children, ChildEnds(i) PROVE TypeOK' /\ MessageThere'
    <2>1. ready' \in Seq(Fds)
      BY <1>14, PutFacts DEF ChildEnds, TypeOK, Fds
    <2>2. owner' \in [Clients -> Children \cup {NoFd}]
      BY <1>14 DEF ChildEnds, TypeOK
    <2>3. TypeOK'
      BY <1>14, <2>1, <2>2 DEF ChildEnds, TypeOK, parent, Fds
    <2>4. MessageThere'
      BY <1>14 DEF ChildEnds, MessageThere, TypeOK
    <2> QED BY <2>3, <2>4
  <1>15. ASSUME NEW i \in Children, ChildSignal(i) PROVE TypeOK' /\ MessageThere'
    BY <1>15, PutFacts DEF ChildSignal, sig_handler, TypeOK, MessageThere, parent, net
  <1>16. ASSUME NEW i \in Children, NEW c \in Clients, Echo(i, c)
         PROVE  TypeOK' /\ MessageThere'
    BY <1>16 DEF Echo, ChildTake, TypeOK, MessageThere, parent
  <1>17. ASSUME NEW i \in Children, NEW c \in Clients, CloseConn(i, c)
         PROVE  TypeOK' /\ MessageThere'
    <2>1. /\ cbatch' = [cbatch EXCEPT ![i] = @ \ {c}] /\ gone' = gone \ {c}
          /\ owner' = [owner EXCEPT ![c] = NoFd]
          /\ cready' = [cready EXCEPT ![i] = @ \ {c}]
          /\ UNCHANGED <<parent, pipe, termed, told, cstop, p2c, crashes, fresh, backlog,
                         data>>
      BY <1>17 DEF CloseConn, ChildTake
    <2>2. c2p' \in [Children -> 0..PipeCap]
      <3>0. c2p \in [Children -> 0..PipeCap] /\ PipeCap \in Nat
        BY PoolAssumption DEF TypeOK
      <3>1. CASE c2p[i] < PipeCap
        <4>1. c2p' = [c2p EXCEPT ![i] = c2p[i] + 1]
          BY <1>17, <3>1 DEF CloseConn
        <4>2. c2p[i] + 1 \in 0..PipeCap
          BY <3>0, <3>1
        <4> QED BY <3>0, <4>1, <4>2
      <3>2. CASE ~(c2p[i] < PipeCap)
        BY <1>17, <3>0, <3>2 DEF CloseConn
      <3> QED BY <3>1, <3>2
    <2>3. cstage' \in [Children -> {"loop", "blocked", "exiting", "zombie", "joined"}]
      BY <1>17 DEF CloseConn, TypeOK
    <2>4. ready' \in Seq(Fds)
      BY <1>17, PutFacts, SMTT(30) DEF CloseConn, TypeOK, Fds
    <2>5. TypeOK'
      BY <2>1, <2>2, <2>3, <2>4 DEF TypeOK, parent, Fds
    <2>6. MessageThere'
      BY <2>1 DEF MessageThere, TypeOK
    <2> QED BY <2>5, <2>6
  <1>18. ASSUME NEW c \in Clients, Connect(c) PROVE TypeOK' /\ MessageThere'
    <2>1. ready' \in Seq(Fds)
      BY <1>18, PutFacts DEF Connect, TypeOK, Fds
    <2>2. fresh' \subseteq Clients /\ backlog' \in Seq(Clients)
      BY <1>18 DEF Connect, TypeOK
    <2>3. UNCHANGED <<parent, pipe, termed, kids, owner, data, gone>>
      BY <1>18 DEF Connect
    <2>4. TypeOK'
      BY <2>1, <2>2, <2>3 DEF TypeOK, parent, kids, Fds
    <2>5. MessageThere'
      BY <2>3 DEF MessageThere, kids
    <2> QED BY <2>4, <2>5
  <1>19. ASSUME NEW c \in Clients, ClientSends(c) PROVE TypeOK' /\ MessageThere'
    BY <1>19 DEF ClientSends, Edge, TypeOK, MessageThere, parent
  <1>20. ASSUME NEW c \in Clients, ClientLeaves(c) PROVE TypeOK' /\ MessageThere'
    BY <1>20 DEF ClientLeaves, Edge, TypeOK, MessageThere, parent
  <1> QED
    BY <1>1, <1>2, <1>3, <1>4, <1>5, <1>6, <1>7, <1>8, <1>9, <1>10, <1>11, <1>12,
       <1>13, <1>14, <1>15, <1>16, <1>17, <1>18, <1>19, <1>20, Steps
       DEF ChildExits, Crash
-----------------------------------------------------------------------------
\* The part of the invariant that counts, in the state after a step.
CountedNext ==
    /\ Once(ready') /\ Once(batch')
    /\ IsFiniteSet(Messages')
    /\ Cardinality(Messages') + News(ready') + News(batch') <= Len(backlog')

\* What the counting uses of the state before.
LEMMA CountFacts ==
    ASSUME IInv
    PROVE  /\ ready \in Seq(Fds) /\ batch \in Seq(Fds) /\ backlog \in Seq(Clients)
           /\ p2c \in [Children -> Nat]
           /\ Once(ready) /\ Once(batch) /\ IsFiniteSet(Messages)
           /\ Cardinality(Messages) \in Nat /\ Len(backlog) \in Nat
           /\ News(ready) \in {0, 1} /\ News(batch) \in {0, 1}
           /\ Cardinality(Messages) + News(ready) + News(batch) <= Len(backlog)
  <1>1. Cardinality(Messages) \in Nat
    BY FS_CardinalityType DEF IInv
  <1>2. News(ready) \in {0, 1} /\ News(batch) \in {0, 1}
    BY DEF News
  <1>3. ready \in Seq(Fds) /\ batch \in Seq(Fds) /\ backlog \in Seq(Clients)
        /\ p2c \in [Children -> Nat]
    BY DEF IInv, TypeOK, Fds
  <1> QED BY <1>1, <1>2, <1>3 DEF IInv, EveryMessageHasConnection

\* An event that is not news of the listening socket comes, or an event is taken
\* from batch: nothing that counts is added.
LEMMA NoNews ==
    ASSUME IInv, p2c' = p2c, backlog' = backlog,
           ready' = ready \/ \E x \in Fds \ {ListenFd} : ready' = Put(ready, x),
           batch' = batch \/ (batch # <<>> /\ batch' = Tail(batch))
    PROVE  CountedNext
  <1>1. Once(ready') /\ News(ready') = News(ready)
    <2>1. CASE ready' = ready
      BY <2>1, CountFacts
    <2>2. ASSUME NEW x \in Fds \ {ListenFd}, ready' = Put(ready, x)
          PROVE  Once(ready') /\ News(ready') = News(ready)
      BY <2>2, CountFacts, PutFacts
    <2> QED BY <2>1, <2>2
  <1>2. Once(batch') /\ News(batch') <= News(batch)
    <2>1. CASE batch' = batch
      BY <2>1, CountFacts
    <2>2. CASE batch # <<>> /\ batch' = Tail(batch)
      BY <2>2, CountFacts, TailFacts
    <2> QED BY <2>1, <2>2
  <1>3. Messages' = Messages
    BY DEF Messages
  <1>4. News(batch') \in {0, 1}
    BY DEF News
  <1> QED BY <1>1, <1>2, <1>3, <1>4, CountFacts DEF CountedNext

\* The message to a child that has ended is lost, and its pipe with it.
LEMMA EndCounts ==
    ASSUME IInv, NEW i \in Children, ChildEnds(i)
    PROVE  CountedNext
  <1>1. Once(ready') /\ News(ready') = News(ready)
    <2>1. i \in Fds /\ i # ListenFd
      BY FdFacts DEF Fds
    <2> QED BY <2>1, CountFacts, PutFacts DEF ChildEnds
  <1>2. batch' = batch /\ backlog' = backlog
    BY DEF ChildEnds, parent
  <1>3. IsFiniteSet(Messages') /\ Cardinality(Messages') <= Cardinality(Messages)
    BY CountFacts, PipeClosed DEF ChildEnds
  <1>4. Cardinality(Messages') \in Nat
    BY <1>3, FS_CardinalityType
  <1> QED BY <1>1, <1>2, <1>3, <1>4, CountFacts DEF CountedNext

\* News of the listening socket becomes a message: the parent takes the news it
\* has, and there is no second one in this turn.
LEMMA AssignCounts ==
    ASSUME IInv, NEW i \in Children, Assign(i)
    PROVE  CountedNext
  <1>1. Once(ready') /\ News(ready') = News(ready)
    <2>1. i \in Fds /\ i # ListenFd
      BY FdFacts DEF Fds
    <2> QED BY <2>1, CountFacts, PutFacts DEF Assign
  <1>2. batch # <<>> /\ Head(batch) = ListenFd /\ batch' = Tail(batch) /\ backlog' = backlog
    BY DEF Assign, Take, net
  <1>3. Once(batch') /\ News(batch) = 1 /\ News(batch') = 0
    BY <1>2, CountFacts, TailFacts
  <1>4. CASE p2c' = p2c
    <2>1. Messages' = Messages
      BY <1>4 DEF Messages
    <2> QED BY <1>1, <1>2, <1>3, <2>1, CountFacts DEF CountedNext
  <1>5. CASE p2c' = [p2c EXCEPT ![i] = @ + 1]
    <2>1. IsFiniteSet(Messages') /\ Cardinality(Messages') = Cardinality(Messages) + 1
      BY <1>5, CountFacts, MessageAdded
    <2> QED BY <1>1, <1>2, <1>3, <2>1, CountFacts DEF CountedNext
  <1>6. p2c' \in {p2c, [p2c EXCEPT ![i] = @ + 1]}
    BY CountFacts DEF Assign
  <1> QED BY <1>4, <1>5, <1>6

\* No action makes the news and the messages outnumber the connections.
LEMMA CountStep ==
    ASSUME IInv, [Next]_vars
    PROVE  CountedNext
  <1>0. SigFd \in Fds \ {ListenFd} /\ Children \subseteq Fds \ {ListenFd}
    BY FdFacts DEF Fds
  <1>1. CASE UNCHANGED vars
    BY <1>1, NoNews DEF vars, parent, kids, net
  <1>2. CASE ParentWait
    <2>1. Once(batch') /\ News(batch') <= News(ready)
      BY <1>2, Waited, CountFacts DEF IInv
    <2>2. ready' = <<>> /\ batch = <<>> /\ p2c' = p2c /\ backlog' = backlog
      BY <1>2 DEF ParentWait, kids, net
    <2>3. Once(ready') /\ News(ready') = 0
      BY <2>2 DEF Once, News, ToSet
    <2>4. Messages' = Messages
      BY <2>2 DEF Messages
    <2>5. News(batch') \in {0, 1}
      BY DEF News
    <2> QED BY <2>1, <2>2, <2>3, <2>4, <2>5, CountFacts DEF CountedNext
  <1>3. CASE ParentEnds \/ Reaped
    BY <1>3, NoNews DEF ParentEnds, Reaped, kids, net
  <1>4. CASE Refuse
    <2>1. /\ batch # <<>> /\ Head(batch) = ListenFd /\ batch' = Tail(batch)
          /\ backlog' = Tail(backlog) /\ ready' = ready /\ p2c' = p2c
      BY <1>4 DEF Refuse, Take, kids
    <2>2. Once(batch') /\ News(batch) = 1 /\ News(batch') = 0
      BY <2>1, CountFacts, TailFacts
    <2>3. backlog # <<>>
      BY <2>2, CountFacts
    <2>4. Len(backlog') = Len(backlog) - 1
      BY <2>1, <2>3, CountFacts, TailFacts
    <2>5. Messages' = Messages
      BY <2>1 DEF Messages
    <2> QED BY <2>1, <2>2, <2>4, <2>5, CountFacts DEF CountedNext
  <1>5. CASE ReadSignals
    BY <1>5, NoNews DEF ReadSignals, Take, net
  <1>6. CASE Terminate
    BY <1>0, <1>6, NoNews DEF Terminate, sig_handler, parent, kids, net
  <1>7. ASSUME NEW i \in Children, Release(i) \/ Reap(i) PROVE CountedNext
    BY <1>7, NoNews DEF Release, Reap, Take, kids, net
  <1>8. ASSUME NEW i \in Children, ChildWait(i) \/ ChildSignals(i) PROVE CountedNext
    BY <1>8, NoNews DEF ChildWait, ChildSignals, parent, net
  <1>9. ASSUME NEW i \in Children, ChildSignal(i) PROVE CountedNext
    BY <1>0, <1>9, NoNews DEF ChildSignal, sig_handler, parent, net
  <1>10. ASSUME NEW i \in Children, AcceptConn(i) PROVE CountedNext
    <2>1. /\ PipeFd \in cbatch[i] /\ p2c' = [p2c EXCEPT ![i] = @ - 1]
          /\ ready' = ready /\ batch' = batch
      BY <1>10 DEF AcceptConn, ChildTake, parent
    <2>2. p2c[i] > 0
      BY <2>1 DEF IInv, MessageThere
    <2>3. IsFiniteSet(Messages') /\ Cardinality(Messages') = Cardinality(Messages) - 1
      BY <2>1, <2>2, CountFacts, MessageTaken
    <2>4. CASE backlog = <<>>
      <3>1. backlog' = backlog
        BY <1>10, <2>4 DEF AcceptConn
      <3> QED BY <2>1, <2>3, <3>1, CountFacts DEF CountedNext
    <2>5. CASE backlog # <<>>
      <3>1. backlog' = Tail(backlog)
        BY <1>10, <2>5 DEF AcceptConn
      <3>2. Len(backlog') = Len(backlog) - 1
        BY <2>5, <3>1, CountFacts, TailFacts
      <3> QED BY <2>1, <2>3, <3>2, CountFacts DEF CountedNext
    <2> QED BY <2>4, <2>5
  <1>11. ASSUME NEW i \in Children, NEW c \in Clients, Echo(i, c) PROVE CountedNext
    BY <1>11, NoNews DEF Echo, parent
  <1>12. ASSUME NEW i \in Children, NEW c \in Clients, CloseConn(i, c)
         PROVE  CountedNext
    <2>1. ready' = ready \/ ready' = Put(ready, i)
      BY <1>12 DEF CloseConn
    <2>2. p2c' = p2c /\ backlog' = backlog /\ batch' = batch
      BY <1>12 DEF CloseConn, parent
    <2> QED BY <1>0, <2>1, <2>2, NoNews
  <1>13. ASSUME NEW c \in Clients, Connect(c) PROVE CountedNext
    <2>1. /\ backlog' = Append(backlog, c) /\ ready' = Put(ready, ListenFd)
          /\ p2c' = p2c /\ batch' = batch
      BY <1>13 DEF Connect, parent, kids
    <2>2. Once(ready') /\ News(ready') <= News(ready) + 1
      BY <2>1, CountFacts, PutFacts DEF Fds
    <2>3. Len(backlog') = Len(backlog) + 1
      BY <2>1, CountFacts
    <2>4. News(ready') \in {0, 1}
      BY DEF News
    <2>5. Messages' = Messages
      BY <2>1 DEF Messages
    <2> QED BY <2>1, <2>2, <2>3, <2>4, <2>5, CountFacts DEF CountedNext
  <1>14. ASSUME NEW c \in Clients, ClientSends(c) \/ ClientLeaves(c)
         PROVE  CountedNext
    BY <1>14, NoNews DEF ClientSends, ClientLeaves, parent
  <1> QED
    BY <1>1, <1>2, <1>3, <1>4, <1>5, <1>6, <1>7, <1>8, <1>9, <1>10, <1>11, <1>12,
       <1>13, <1>14, AssignCounts, EndCounts, Steps DEF ChildExits, Crash
-----------------------------------------------------------------------------
\* m_pid forgets a child exactly when wait() returns it.
LEMMA UnjoinedStep ==
    ASSUME TypeOK, Unjoined, [Next]_vars
    PROVE  Unjoined'
  <1>1. CASE UNCHANGED vars
    BY <1>1 DEF Unjoined, vars, parent, kids
  <1>2. CASE ParentWait \/ Refuse \/ Terminate \/ ParentEnds
    BY <1>2 DEF Unjoined, ParentWait, Refuse, Take, Terminate, ParentEnds, m_stop, parent, kids
  <1>3. CASE ReadSignals
    BY <1>3 DEF Unjoined, ReadSignals, Take
  <1>4. CASE Reaped
    BY <1>4 DEF Unjoined, Reaped, kids
  <1>5. ASSUME NEW i \in Children, Reap(i) PROVE Unjoined'
    <2>1. /\ stage' = "reap" /\ m_pid' = m_pid \ {i}
          /\ cstage' = [cstage EXCEPT ![i] = "joined"]
      BY <1>5 DEF Reap
    <2> QED BY <2>1 DEF Unjoined, TypeOK
  <1>6. ASSUME NEW i \in Children, Assign(i) \/ Release(i) PROVE Unjoined'
    BY <1>6 DEF Unjoined, Assign, Release, Take, kids
  <1>7. ASSUME NEW i \in Children, ChildWait(i) \/ ChildSignals(i) \/ AcceptConn(i)
        PROVE  Unjoined'
    BY <1>7 DEF Unjoined, ChildWait, ChildSignals, AcceptConn, parent
  <1>8. ASSUME NEW i \in Children, cstage[i] # "joined", stage' = stage, m_pid' = m_pid,
               NEW s \in {"blocked", "exiting", "zombie"},
               cstage' = [cstage EXCEPT ![i] = s]
        PROVE  Unjoined'
    BY <1>8 DEF Unjoined, TypeOK
  <1>9. ASSUME NEW i \in Children, ChildExits(i) \/ Crash(i) PROVE Unjoined'
    BY <1>8, <1>9 DEF ChildExits, Crash, Up, ChildEnds, parent
  <1>10. ASSUME NEW i \in Children, ChildSignal(i) PROVE Unjoined'
    BY <1>8, <1>10 DEF ChildSignal, parent
  <1>11. ASSUME NEW i \in Children, NEW c \in Clients, Echo(i, c) PROVE Unjoined'
    BY <1>11 DEF Unjoined, Echo, parent
  <1>12. ASSUME NEW i \in Children, NEW c \in Clients, CloseConn(i, c) PROVE Unjoined'
    <2>1. /\ stage' = stage /\ m_pid' = m_pid /\ cstage[i] = "loop"
          /\ cstage' = cstage \/ cstage' = [cstage EXCEPT ![i] = "blocked"]
      BY <1>12 DEF CloseConn, ChildTake, parent
    <2>2. CASE cstage' = cstage
      BY <2>1, <2>2 DEF Unjoined
    <2>3. CASE cstage' = [cstage EXCEPT ![i] = "blocked"]
      BY <1>8, <2>1, <2>3
    <2> QED BY <2>1, <2>2, <2>3
  <1>13. ASSUME NEW c \in Clients, Connect(c) \/ ClientSends(c) \/ ClientLeaves(c)
         PROVE  Unjoined'
    BY <1>13 DEF Unjoined, Connect, ClientSends, ClientLeaves, parent, kids
  <1> QED
    BY <1>1, <1>2, <1>3, <1>4, <1>5, <1>6, <1>7, <1>9, <1>10, <1>11, <1>12, <1>13, Steps

\* The inductive invariant holds in every state, for any number of children
\* and clients.
THEOREM Inductive == Spec => []IInv
  <1>1. IInv /\ [Next]_vars => IInv'
    <2> SUFFICES ASSUME IInv, [Next]_vars PROVE IInv'
      OBVIOUS
    <2>1. TypeOK' /\ MessageThere'
      BY TypeStep DEF IInv
    <2>2. Unjoined'
      BY UnjoinedStep DEF IInv
    <2>3. CountedNext
      BY CountStep
    <2> QED BY <2>1, <2>2, <2>3 DEF IInv, CountedNext, EveryMessageHasConnection
  <1> QED BY <1>1, InitInv, PTL DEF Spec
-----------------------------------------------------------------------------
\* Type correctness: every queue, pipe and table of process_pool.hpp keeps its
\* type, so accept() in the parent never finds an empty backlog, no p2c pipe is
\* read that is empty, and the turn counter stays a child's number.
THEOREM TypeCorrect == Spec => []TypeOK
  BY Inductive, PTL DEF IInv

\* Whoever is told to accept finds a connection, however the accept() calls of
\* the parent and of the children interleave and whoever crashes.
THEOREM AcceptFindsConnection == Spec => []EveryMessageHasConnection
  BY Inductive, PTL DEF IInv

\* run_parent() leaves its loop only when wait() has returned every child.
THEOREM ParentEndsLast == Spec => []NoOrphans
  <1>1. IInv => NoOrphans
    BY DEF IInv, Unjoined, NoOrphans
  <1> QED BY <1>1, Inductive, PTL
=============================================================================
