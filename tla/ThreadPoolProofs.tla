-------------------------- MODULE ThreadPoolProofs --------------------------
(***************************************************************************)
(* The safety of threadpool<T> for any number of workers and callers, any  *)
(* value of the uninitialised limit and any number of requests.            *)
(*                                                                         *)
(* The inductive invariant adds to the properties what the code relies on  *)
(* while it holds the mutex: only one thread is between lock() and         *)
(* unlock(), a caller that passed the size check may still push, and a     *)
(* worker that read the front of the queue finds it there when it pops.    *)
(***************************************************************************)
EXTENDS ThreadPool, FiniteSetTheorems, TLAPS

Inside == {"check", "push", "front", "pop"}

\* A thread between lock() and unlock() is the one that holds the mutex.
LockInv == \A t \in Threads : pc[t] \in Inside => m_queuelocker = t

\* What was seen under the mutex still holds when it is used.
PopInv  == \A w \in Workers :
              pc[w] = "pop" => /\ m_workqueue # <<>>
                               /\ request[w] = Head(m_workqueue)
PushInv == \A c \in Callers :
              pc[c] = "push" => Len(m_workqueue) <= m_max_requests

BaseInv == TypeOK /\ LockInv /\ PopInv /\ PushInv

-----------------------------------------------------------------------------
\* The steps of Next without the guard Alive, one case for each operation.
LEMMA NextCases ==
    ASSUME Next
    PROVE  \/ \E w \in Workers : CreateThread(w)
           \/ ConstructorThrows
           \/ Destroy
           \/ \E c \in Callers : Call(c)
           \/ \E t \in Threads : Lock(t, "check") /\ t \in Callers
           \/ \E t \in Threads : Lock(t, "front") /\ t \in Workers
           \/ \E c \in Callers : CheckSize(c)
           \/ \E c \in Callers : Push(c)
           \/ \E c \in Callers : Post(c)
           \/ \E w \in Workers : Wait(w)
           \/ \E w \in Workers : WaitInterrupted(w)
           \/ \E w \in Workers : Front(w)
           \/ \E w \in Workers : Pop(w)
           \/ \E w \in Workers : Process(w)
           \/ UNCHANGED vars
  BY DEF Next, CallerStep, WorkerStep, Ended, Threads

\* The initial state satisfies the inductive invariant.
LEMMA InitBase == Init => BaseInv
<1> SUFFICES ASSUME Init PROVE BaseInv
    OBVIOUS
<1> USE PoolAssumption DEF Init, Threads
<1>1. TypeOK
  <2>1. m_workqueue \in Seq(Nat) /\ m_max_requests \in Int
        BY DEF PoolAssumption
  <2>2. /\ pc \in [Threads -> {"unborn", "idle"}]
        /\ \A w \in Workers : pc[w] = "unborn"
        /\ \A c \in Callers : pc[c] = "idle"
        BY DEF PoolAssumption
  <2> QED
      BY <2>1, <2>2 DEF TypeOK
<1>2. LockInv
      BY DEF LockInv, Inside
<1>3. PopInv /\ PushInv
      BY DEF PopInv, PushInv, PoolAssumption
<1> QED
    BY <1>1, <1>2, <1>3 DEF BaseInv

\* Every step keeps the state typed.  Pop needs PopInv: the tail of an empty
\* queue is not a queue.
LEMMA TypeStep == BaseInv /\ [Next]_vars => TypeOK'
<1> SUFFICES ASSUME BaseInv, [Next]_vars PROVE TypeOK'
    OBVIOUS
<1> USE PoolAssumption DEF BaseInv, TypeOK, Threads, Goto, Unlock
<1>1. ASSUME NEW w \in Workers, CreateThread(w) PROVE TypeOK'
      BY <1>1 DEF CreateThread
<1>2. CASE ConstructorThrows
      BY <1>2 DEF ConstructorThrows
<1>3. CASE Destroy
      BY <1>3 DEF Destroy
<1>4. ASSUME NEW c \in Callers, Call(c) PROVE TypeOK'
      BY <1>4 DEF Call
<1>5. ASSUME NEW c \in Callers, Lock(c, "check") PROVE TypeOK'
      BY <1>5 DEF Lock
<1>6. ASSUME NEW w \in Workers, Lock(w, "front") PROVE TypeOK'
      BY <1>6 DEF Lock
<1>7. ASSUME NEW c \in Callers, CheckSize(c) PROVE TypeOK'
      BY <1>7 DEF CheckSize
<1>8. ASSUME NEW c \in Callers, Push(c) PROVE TypeOK'
      BY <1>8 DEF Push
<1>9. ASSUME NEW c \in Callers, Post(c) PROVE TypeOK'
      BY <1>9 DEF Post
<1>10. ASSUME NEW w \in Workers, Wait(w) PROVE TypeOK'
      BY <1>10 DEF Wait
<1>11. ASSUME NEW w \in Workers, WaitInterrupted(w) PROVE TypeOK'
      BY <1>11 DEF WaitInterrupted
<1>12. ASSUME NEW w \in Workers, Front(w) PROVE TypeOK'
      BY <1>12 DEF Front
<1>13. ASSUME NEW w \in Workers, Pop(w) PROVE TypeOK'
      BY <1>13 DEF Pop, PopInv
<1>14. ASSUME NEW w \in Workers, Process(w) PROVE TypeOK'
      BY <1>14 DEF Process
<1>15. CASE UNCHANGED vars
      BY <1>15 DEF vars
<1> QED
    BY <1>1, <1>2, <1>3, <1>4, <1>5, <1>6, <1>7, <1>8, <1>9, <1>10, <1>11,
       <1>12, <1>13, <1>14, <1>15, NextCases

\* Every step keeps what the code relies on under the mutex: a thread gets it
\* only when no other is inside, and only the holder changes the queue.
LEMMA BaseStep == BaseInv /\ [Next]_vars => BaseInv'
<1> SUFFICES ASSUME BaseInv, [Next]_vars PROVE BaseInv'
    OBVIOUS
<1>0. TypeOK'
      BY TypeStep
<1> SUFFICES (LockInv /\ PopInv /\ PushInv)'
    BY <1>0 DEF BaseInv
<1> USE PoolAssumption DEF PoolAssumption, BaseInv, TypeOK, LockInv, PopInv, PushInv,
                           Threads, Inside, Goto, Unlock
<1>1. ASSUME NEW w \in Workers, CreateThread(w) PROVE (LockInv /\ PopInv /\ PushInv)'
      BY <1>1 DEF CreateThread
<1>2. CASE ConstructorThrows
      BY <1>2 DEF ConstructorThrows
<1>3. CASE Destroy
      BY <1>3 DEF Destroy
<1>4. ASSUME NEW c \in Callers, Call(c) PROVE (LockInv /\ PopInv /\ PushInv)'
      BY <1>4 DEF Call
<1>5. ASSUME NEW c \in Callers, Lock(c, "check") PROVE (LockInv /\ PopInv /\ PushInv)'
      BY <1>5 DEF Lock
<1>6. ASSUME NEW w \in Workers, Lock(w, "front") PROVE (LockInv /\ PopInv /\ PushInv)'
      BY <1>6 DEF Lock
<1>7. ASSUME NEW c \in Callers, CheckSize(c) PROVE (LockInv /\ PopInv /\ PushInv)'
      BY <1>7 DEF CheckSize, TooLong
<1>8. ASSUME NEW c \in Callers, Push(c) PROVE (LockInv /\ PopInv /\ PushInv)'
      BY <1>8 DEF Push
<1>9. ASSUME NEW c \in Callers, Post(c) PROVE (LockInv /\ PopInv /\ PushInv)'
      BY <1>9 DEF Post
<1>10. ASSUME NEW w \in Workers, Wait(w) PROVE (LockInv /\ PopInv /\ PushInv)'
      BY <1>10 DEF Wait
<1>11. ASSUME NEW w \in Workers, WaitInterrupted(w) PROVE (LockInv /\ PopInv /\ PushInv)'
      BY <1>11 DEF WaitInterrupted
<1>12. ASSUME NEW w \in Workers, Front(w) PROVE (LockInv /\ PopInv /\ PushInv)'
      BY <1>12, SMTT(30) DEF Front
<1>13. ASSUME NEW w \in Workers, Pop(w) PROVE (LockInv /\ PopInv /\ PushInv)'
      BY <1>13 DEF Pop
<1>14. ASSUME NEW w \in Workers, Process(w) PROVE (LockInv /\ PopInv /\ PushInv)'
      BY <1>14 DEF Process
<1>15. CASE UNCHANGED vars
      BY <1>15 DEF vars
<1> QED
    BY <1>1, <1>2, <1>3, <1>4, <1>5, <1>6, <1>7, <1>8, <1>9, <1>10, <1>11,
       <1>12, <1>13, <1>14, <1>15, NextCases

\* The base invariant holds in every state.
LEMMA BaseHolds == Spec => []BaseInv
  BY InitBase, BaseStep, PTL DEF Spec

\* Every reachable state is typed; in particular the semaphore of locker.h is
\* never taken below zero and pop_front() never meets an empty queue.
THEOREM TypeCorrect == Spec => []TypeOK
<1>1. BaseInv => TypeOK
      BY DEF BaseInv
<1> QED
    BY <1>1, BaseHolds, PTL

\* The mutex excludes: of the threads between lock() and unlock() in append()
\* and run() there is at most one.
MutualExclusion == \A t, u \in Threads : pc[t] \in Inside /\ pc[u] \in Inside => t = u

\* m_queuelocker excludes for any number of threads.
THEOREM Exclusion == Spec => []MutualExclusion
<1>1. BaseInv => MutualExclusion
      BY DEF BaseInv, LockInv, MutualExclusion
<1> QED
    BY <1>1, BaseHolds, PTL
-----------------------------------------------------------------------------
\* Only Push and Pop change the queue.
LEMMA QueueSteps ==
    ASSUME [Next]_vars
    PROVE  \/ \E c \in Callers : Push(c)
           \/ \E w \in Workers : Pop(w)
           \/ UNCHANGED <<m_workqueue, m_max_requests, pushed>>
  BY NextCases DEF CreateThread, ConstructorThrows, Destroy, Call, Lock, CheckSize,
       Post, Wait, WaitInterrupted, Front, Process, vars

\* The queue never holds two requests more than m_max_requests, for any number
\* of callers that race for the last place.
THEOREM Bounded == Spec => []QueueBound
<1>1. Init => QueueBound
      BY DEF Init, QueueBound
<1>2. BaseInv /\ QueueBound /\ [Next]_vars => QueueBound'
  <2> SUFFICES ASSUME BaseInv, QueueBound, [Next]_vars PROVE QueueBound'
      OBVIOUS
  <2> USE DEF BaseInv, TypeOK, QueueBound
  <2>1. ASSUME NEW c \in Callers, Push(c) PROVE QueueBound'
        BY <2>1 DEF Push, PushInv, Goto
  <2>2. ASSUME NEW w \in Workers, Pop(w) PROVE QueueBound'
        BY <2>2 DEF Pop, PopInv, Goto
  <2>3. CASE UNCHANGED <<m_workqueue, m_max_requests, pushed>>
        BY <2>3
  <2> QED
      BY <2>1, <2>2, <2>3, QueueSteps
<1> QED
    BY <1>1, <1>2, BaseHolds, PTL DEF Spec
-----------------------------------------------------------------------------
\* Takers and Posters are finite.
LEMMA FiniteThreads ==
    /\ IsFiniteSet(Takers) /\ Cardinality(Takers) \in Nat
    /\ IsFiniteSet(Posters) /\ Cardinality(Posters) \in Nat
<1>1. Takers \subseteq Workers /\ Posters \subseteq Callers
      BY DEF Takers, Posters
<1>2. IsFiniteSet(Workers) /\ IsFiniteSet(Callers)
      BY PoolAssumption DEF PoolAssumption
<1> QED
    BY <1>1, <1>2, FS_Subset, FS_CardinalityType

\* A queued request always has its unit of the semaphore: no wakeup is lost,
\* and without interrupted waits none is spurious, for any number of threads.
THEOREM NoLostWakeup == Spec => []TokensMatchQueue
<1>1. Init => TokensMatchQueue
  <2> SUFFICES ASSUME Init PROVE TokensMatchQueue
      OBVIOUS
  <2>1. Takers = {} /\ Posters = {}
        BY PoolAssumption DEF PoolAssumption, Init, Takers, Posters, Threads
  <2> QED
      BY <2>1, FS_EmptySet DEF Init, TokensMatchQueue
<1>2. BaseInv /\ TokensMatchQueue /\ [Next]_vars => TokensMatchQueue'
  <2> SUFFICES ASSUME BaseInv, TokensMatchQueue, [Next]_vars PROVE TokensMatchQueue'
      OBVIOUS
  <2> USE PoolAssumption, FiniteThreads
      DEF PoolAssumption, BaseInv, TypeOK, TokensMatchQueue, Threads, Goto
  <2>t. TypeOK'
        BY TypeStep
  <2>1. ASSUME NEW c \in Callers, Push(c) PROVE TokensMatchQueue'
    <3>1. Takers' = Takers /\ Posters' = Posters \cup {c} /\ c \notin Posters
          BY <2>1 DEF Push, Takers, Posters
    <3>2. Cardinality(Posters') = Cardinality(Posters) + 1
          BY <3>1, FS_AddElement
    <3>3. Len(m_workqueue') = Len(m_workqueue) + 1
          BY <2>1 DEF Push
    <3> QED
        BY <2>1, <3>1, <3>2, <3>3 DEF Push
  <2>2. ASSUME NEW c \in Callers, Post(c) PROVE TokensMatchQueue'
    <3>1. Takers' = Takers /\ Posters' = Posters \ {c} /\ c \in Posters
          BY <2>2 DEF Post, Takers, Posters
    <3>2. Cardinality(Posters') = Cardinality(Posters) - 1
          BY <3>1, FS_RemoveElement
    <3> QED
        BY <2>2, <3>1, <3>2 DEF Post
  <2>3. ASSUME NEW w \in Workers, Wait(w) PROVE TokensMatchQueue'
    <3>1. Takers' = Takers \cup {w} /\ w \notin Takers /\ Posters' = Posters
          BY <2>3 DEF Wait, Takers, Posters
    <3>2. Cardinality(Takers') = Cardinality(Takers) + 1
          BY <3>1, FS_AddElement
    <3>3. /\ m_queuestat' = m_queuestat - 1
          /\ Len(m_workqueue') = Len(m_workqueue)
          /\ interrupted' = interrupted
          BY <2>3 DEF Wait
    <3>4. m_queuestat' + Cardinality(Takers') + Cardinality(Posters')
             = m_queuestat + Cardinality(Takers) + Cardinality(Posters)
          BY <3>1, <3>2, <3>3
    <3> QED
        BY <3>3, <3>4
  <2>4. ASSUME NEW w \in Workers, WaitInterrupted(w) PROVE TokensMatchQueue'
    <3>1. Takers' = Takers \cup {w} /\ w \notin Takers /\ Posters' = Posters
          BY <2>4 DEF WaitInterrupted, Takers, Posters
    <3>2. Cardinality(Takers') = Cardinality(Takers) + 1
          BY <3>1, FS_AddElement
    <3> QED
        BY <2>4, <3>1, <3>2 DEF WaitInterrupted
  <2>5. ASSUME NEW w \in Workers, Front(w) PROVE TokensMatchQueue'
    <3>1. Posters' = Posters /\ w \in Takers
          BY <2>5 DEF Front, Takers, Posters
    <3>2. CASE m_workqueue = <<>>
      <4>1. Takers' = Takers \ {w}
            BY <2>5, <3>2 DEF Front, Takers
      <4>2. Cardinality(Takers') = Cardinality(Takers) - 1
            BY <3>1, <4>1, FS_RemoveElement
      <4>3. Cardinality(Takers') \in Nat
            BY <4>1, FS_Subset, FS_CardinalityType
      <4> QED
          BY <2>5, <3>1, <3>2, <4>2, <4>3 DEF Front
    <3>3. CASE m_workqueue # <<>>
      <4>1. Takers' = Takers
            BY <2>5, <3>3 DEF Front, Takers
      <4> QED
          BY <2>5, <3>1, <4>1 DEF Front
    <3> QED
        BY <3>2, <3>3
  <2>6. ASSUME NEW w \in Workers, Pop(w) PROVE TokensMatchQueue'
    <3>1. Takers' = Takers \ {w} /\ w \in Takers /\ Posters' = Posters
          BY <2>6 DEF Pop, Takers, Posters
    <3>2. Cardinality(Takers') = Cardinality(Takers) - 1
          BY <3>1, FS_RemoveElement
    <3>3. Len(m_workqueue') = Len(m_workqueue) - 1
          BY <2>6 DEF Pop, PopInv
    <3>4. m_queuestat' = m_queuestat /\ interrupted' = interrupted
          BY <2>6 DEF Pop
    <3>5. m_queuestat' + Cardinality(Takers') + Cardinality(Posters')
             = (m_queuestat + Cardinality(Takers) + Cardinality(Posters)) - 1
          BY <3>1, <3>2, <3>4
    <3>6. Len(m_workqueue) \in Nat
          OBVIOUS
    <3> QED
        BY <3>3, <3>4, <3>5, <3>6, SMTT(30)
  <2>7. ASSUME UNCHANGED <<m_workqueue, m_queuestat, interrupted>>,
               Takers' = Takers, Posters' = Posters
        PROVE  TokensMatchQueue'
        BY <2>7
  <2>8. ASSUME NEW w \in Workers, CreateThread(w) PROVE TokensMatchQueue'
        BY <2>7, <2>8 DEF CreateThread, Takers, Posters
  <2>9. CASE ConstructorThrows \/ Destroy \/ UNCHANGED vars
        BY <2>7, <2>9 DEF ConstructorThrows, Destroy, vars, Takers, Posters
  <2>10. ASSUME NEW c \in Callers, Call(c) PROVE TokensMatchQueue'
        BY <2>7, <2>10 DEF Call, Takers, Posters
  <2>11. ASSUME NEW c \in Callers, Lock(c, "check") PROVE TokensMatchQueue'
        BY <2>7, <2>11 DEF Lock, Takers, Posters
  <2>12. ASSUME NEW w \in Workers, Lock(w, "front") PROVE TokensMatchQueue'
        BY <2>7, <2>12 DEF Lock, Takers, Posters
  <2>13. ASSUME NEW c \in Callers, CheckSize(c) PROVE TokensMatchQueue'
        BY <2>7, <2>13 DEF CheckSize, Takers, Posters
  <2>14. ASSUME NEW w \in Workers, Process(w) PROVE TokensMatchQueue'
        BY <2>7, <2>14 DEF Process, Takers, Posters
  <2> QED
      BY <2>1, <2>2, <2>3, <2>4, <2>5, <2>6, <2>8, <2>9, <2>10, <2>11, <2>12,
         <2>13, <2>14, NextCases
<1> QED
    BY <1>1, <1>2, BaseHolds, PTL DEF Spec
-----------------------------------------------------------------------------
\* The parts of ExactlyOnce.
Queued   == \A i \in DOMAIN m_workqueue : m_workqueue[i] = Popped + i
InHands  == \A w \in Workers : pc[w] = "process" =>
               /\ request[w] \in (1..Popped) \ done
               /\ \A v \in Workers \ {w} :
                     pc[v] = "process" => request[v] # request[w]
Accounted == \A k \in 1..Popped :
                k \in done \/ \E w \in Workers : pc[w] = "process" /\ request[w] = k
DoneOK   == done \subseteq 1..Popped

\* The requests a worker is processing and those finished change only when one
\* is popped or finished.
LEMMA HandsSteps ==
    ASSUME BaseInv, [Next]_vars
    PROVE  \/ \E c \in Callers : Push(c)
           \/ \E w \in Workers : Pop(w)
           \/ \E w \in Workers : Process(w)
           \/ /\ UNCHANGED <<m_workqueue, pushed, done>>
              /\ \A w \in Workers : (pc'[w] = "process") = (pc[w] = "process")
              /\ \A w \in Workers : pc[w] = "process" => request'[w] = request[w]
<1> DEFINE Same == /\ UNCHANGED <<m_workqueue, pushed, done>>
                   /\ \A w \in Workers : (pc'[w] = "process") = (pc[w] = "process")
                   /\ \A w \in Workers : pc[w] = "process" => request'[w] = request[w]
<1> USE PoolAssumption DEF PoolAssumption, BaseInv, TypeOK, Threads, Goto
<1>1. ASSUME NEW w \in Workers, CreateThread(w) PROVE Same
      BY <1>1 DEF CreateThread
<1>2. ASSUME ConstructorThrows \/ Destroy \/ UNCHANGED vars PROVE Same
      BY <1>2 DEF ConstructorThrows, Destroy, vars
<1>3. ASSUME NEW c \in Callers, Call(c) PROVE Same
      BY <1>3 DEF Call
<1>4. ASSUME NEW c \in Callers, Lock(c, "check") PROVE Same
      BY <1>4 DEF Lock
<1>5. ASSUME NEW w \in Workers, Lock(w, "front") PROVE Same
      BY <1>5 DEF Lock
<1>6. ASSUME NEW c \in Callers, CheckSize(c) PROVE Same
      BY <1>6 DEF CheckSize
<1>7. ASSUME NEW c \in Callers, Post(c) PROVE Same
      BY <1>7 DEF Post
<1>8. ASSUME NEW w \in Workers, Wait(w) PROVE Same
      BY <1>8 DEF Wait
<1>9. ASSUME NEW w \in Workers, WaitInterrupted(w) PROVE Same
      BY <1>9 DEF WaitInterrupted
<1>10. ASSUME NEW w \in Workers, Front(w) PROVE Same
      BY <1>10 DEF Front
<1> HIDE DEF Same
<1>11. \/ \E c \in Callers : Push(c)
       \/ \E w \in Workers : Pop(w)
       \/ \E w \in Workers : Process(w)
       \/ Same
    BY <1>1, <1>2, <1>3, <1>4, <1>5, <1>6, <1>7, <1>8, <1>9, <1>10, NextCases
<1> QED
    BY <1>11 DEF Same

\* The queue is no longer than the number of requests pushed.
CountInv == Len(m_workqueue) <= pushed

\* Every request is, at every moment, queued, in the hands of one worker, or
\* done, in exactly one of these, and leaves the queue in order, for any number
\* of threads and requests.
THEOREM ServedOnce == Spec => []ExactlyOnce
<1> DEFINE OInv == ExactlyOnce /\ CountInv
<1>1. Init => OInv
  <2> SUFFICES ASSUME Init PROVE OInv
      OBVIOUS
  <2>1. \A w \in Workers : pc[w] # "process"
        BY PoolAssumption DEF PoolAssumption, Init, Threads
  <2>2. Popped = 0 /\ CountInv
    <3>1. Len(m_workqueue) = 0 /\ pushed = 0
          BY DEF Init
    <3> QED
        BY <3>1 DEF Popped, CountInv
  <2> QED
      BY <2>1, <2>2 DEF Init, ExactlyOnce
<1>2. BaseInv /\ OInv /\ [Next]_vars => OInv'
  <2> SUFFICES ASSUME BaseInv, ExactlyOnce, CountInv, [Next]_vars
               PROVE  (ExactlyOnce /\ CountInv)'
      OBVIOUS
  <2>0. Queued /\ InHands /\ Accounted /\ DoneOK
        BY DEF ExactlyOnce, Queued, InHands, Accounted, DoneOK
  <2>q. SUFFICES (Queued /\ InHands /\ Accounted /\ DoneOK /\ CountInv)'
        BY DEF ExactlyOnce, Queued, InHands, Accounted, DoneOK
  <2> USE DEF BaseInv, TypeOK, CountInv, Popped
  <2>n. Popped \in Nat /\ Len(m_workqueue) \in Nat
        OBVIOUS
  <2>1. ASSUME NEW c \in Callers, Push(c)
        PROVE  (Queued /\ InHands /\ Accounted /\ DoneOK /\ CountInv)'
    <3>1. /\ m_workqueue' = Append(m_workqueue, pushed + 1)
          /\ pushed' = pushed + 1 /\ done' = done /\ request' = request
          /\ Popped' = Popped
          /\ CountInv'
          BY <2>1 DEF Push
    <3>2. \A w \in Workers : pc'[w] = pc[w]
          BY <2>1, PoolAssumption DEF Push, Goto, PoolAssumption, Threads
    <3>3. Queued'
      <4> SUFFICES ASSUME NEW i \in DOMAIN m_workqueue'
                   PROVE  m_workqueue'[i] = Popped' + i
          BY DEF Queued
      <4>1. i \in 1..(Len(m_workqueue) + 1)
            BY <3>1
      <4>2. CASE i = Len(m_workqueue) + 1
            BY <2>n, <3>1, <4>2
      <4>3. CASE i # Len(m_workqueue) + 1
        <5>1. i \in DOMAIN m_workqueue /\ m_workqueue'[i] = m_workqueue[i]
              BY <2>n, <3>1, <4>1, <4>3
        <5> QED
            BY <2>0, <3>1, <5>1 DEF Queued
      <4> QED
          BY <4>2, <4>3
    <3>4. (InHands /\ Accounted /\ DoneOK)'
      <4> HIDE DEF Popped, CountInv, BaseInv
      <4> QED
          BY <2>0, <3>1, <3>2 DEF InHands, Accounted, DoneOK
    <3> QED
        BY <3>1, <3>3, <3>4
  <2>2. ASSUME NEW w \in Workers, Pop(w)
        PROVE  (Queued /\ InHands /\ Accounted /\ DoneOK /\ CountInv)'
    <3>1. /\ m_workqueue # <<>> /\ m_workqueue' = Tail(m_workqueue)
          /\ pushed' = pushed /\ done' = done /\ request' = request
          /\ request[w] = m_workqueue[1]
          BY <2>2 DEF Pop, Goto, PopInv
    <3>2. /\ pc[w] # "process" /\ pc'[w] = "process"
          /\ \A v \in Workers \ {w} : pc'[v] = pc[v]
          BY <2>2 DEF Pop, Goto, Threads
    <3>3. Popped' = Popped + 1 /\ CountInv'
          BY <3>1
    <3>4. request[w] = Popped + 1
          BY <2>0, <3>1 DEF Queued
    <3>5. Queued'
      <4> SUFFICES ASSUME NEW i \in DOMAIN m_workqueue'
                   PROVE  m_workqueue'[i] = Popped' + i
          BY DEF Queued
      <4>1. /\ i \in Nat /\ i + 1 \in DOMAIN m_workqueue
            /\ m_workqueue'[i] = m_workqueue[i + 1]
            BY <2>n, <3>1
      <4>2. m_workqueue[i + 1] = Popped + (i + 1)
            BY <2>0, <4>1 DEF Queued
      <4> QED
          BY <2>n, <3>3, <4>1, <4>2
    <3>6. (InHands /\ Accounted /\ DoneOK)'
      <4>1. Popped + 1 \notin done
            BY <2>0, <2>n DEF DoneOK
      <4> HIDE DEF Popped, CountInv, BaseInv
      <4>2. InHands'
            BY <2>0, <2>n, <3>1, <3>2, <3>3, <3>4, <4>1 DEF InHands
      <4>3. Accounted'
            BY <2>0, <2>n, <3>1, <3>2, <3>3, <3>4 DEF Accounted
      <4>4. DoneOK'
            BY <2>0, <2>n, <3>1, <3>3 DEF DoneOK
      <4> QED
          BY <4>2, <4>3, <4>4
    <3> QED
        BY <3>3, <3>5, <3>6
  <2>3. ASSUME NEW w \in Workers, Process(w)
        PROVE  (Queued /\ InHands /\ Accounted /\ DoneOK /\ CountInv)'
    <3>1. /\ m_workqueue' = m_workqueue /\ pushed' = pushed /\ request' = request
          /\ done' = done \cup {request[w]}
          BY <2>3 DEF Process
    <3>2. /\ pc[w] = "process" /\ pc'[w] = "wait"
          /\ \A v \in Workers \ {w} : pc'[v] = pc[v]
          BY <2>3 DEF Process, Goto, Threads
    <3>3. Popped' = Popped /\ CountInv' /\ Queued'
          BY <2>0, <3>1 DEF Queued
    <3> HIDE DEF Popped, CountInv, BaseInv
    <3>4. InHands'
          BY <2>0, <3>1, <3>2, <3>3 DEF InHands
    <3>5. Accounted'
          BY <2>0, <3>1, <3>2, <3>3 DEF Accounted
    <3>6. DoneOK'
          BY <2>0, <3>1, <3>2, <3>3 DEF DoneOK, InHands
    <3> QED
        BY <3>3, <3>4, <3>5, <3>6
  <2>4. ASSUME UNCHANGED <<m_workqueue, pushed, done>>,
               \A w \in Workers : (pc'[w] = "process") = (pc[w] = "process"),
               \A w \in Workers : pc[w] = "process" => request'[w] = request[w]
        PROVE  (Queued /\ InHands /\ Accounted /\ DoneOK /\ CountInv)'
    <3>1. Popped' = Popped /\ CountInv' /\ Queued' /\ DoneOK'
          BY <2>0, <2>4 DEF Queued, DoneOK
    <3> HIDE DEF Popped, CountInv, BaseInv
    <3>2. InHands'
          BY <2>0, <2>4, <3>1 DEF InHands
    <3>3. Accounted'
          BY <2>0, <2>4, <3>1 DEF Accounted
    <3> QED
        BY <3>1, <3>2, <3>3
  <2> QED
      BY <2>1, <2>2, <2>3, <2>4, HandsSteps
<1>3. OInv => ExactlyOnce
      OBVIOUS
<1> QED
    BY <1>1, <1>2, <1>3, BaseHolds, PTL DEF Spec
=============================================================================
