----------------------------- MODULE ThreadPool -----------------------------
(***************************************************************************)
(* threadpool<T> (src/src/include/thread_pool.hpp) and the sem and locker  *)
(* classes it is built from (src/src/include/locker.h).                    *)
(*                                                                         *)
(* Callers are the threads that call append(), Workers the threads that    *)
(* run().  A request T* is abstracted to the number of the append() that   *)
(* queued it, so two submissions of one pointer are told apart; a null     *)
(* pointer is taken and dropped in the same way as a pointer whose         *)
(* process() returns.                                                      *)
(*                                                                         *)
(* The constructor initialises m_max_requests with itself: its value is    *)
(* whatever the storage held, any member of Garbage.  The behaviours end   *)
(* when the constructor throws or the destructor has run: main() returns   *)
(* right after either.                                                     *)
(***************************************************************************)
EXTENDS Integers, Sequences, FiniteSets

CONSTANTS Workers,      \* the m_thread_number threads of the pool
          Callers,      \* the threads that call append()
          Garbage,      \* the values the uninitialised m_max_requests may have
          MaxCalls,     \* bound: append() is not called after so many pushes
          None          \* no thread holds m_queuelocker

ASSUME PoolAssumption ==
    /\ Workers # {} /\ IsFiniteSet(Workers)
    /\ IsFiniteSet(Callers)
    /\ Workers \cap Callers = {}
    /\ None \notin Workers \cup Callers
    /\ Garbage \subseteq Int
    /\ MaxCalls \in Nat

VARIABLES
    stage,            \* life of the object: constructing, running, failed, destroyed
    m_workqueue,      \* the queued requests, oldest first
    m_queuelocker,    \* the thread that holds the mutex, or None
    m_queuestat,      \* value of the semaphore
    m_max_requests,   \* the limit append() compares with
    pc,               \* where each thread is
    request,          \* the request run() holds in its local variable
    pushed,           \* history: how many requests have been queued
    done,             \* history: the requests run() has finished with
    interrupted       \* history: some sem_wait has returned early (EINTR)

vars == <<stage, m_workqueue, m_queuelocker, m_queuestat, m_max_requests,
          pc, request, pushed, done, interrupted>>

Threads == Workers \cup Callers
Alive   == stage \in {"constructing", "running"}

Goto(t, from, to) == pc[t] = from /\ pc' = [pc EXCEPT ![t] = to]
Unlock == m_queuelocker' = None

(***************************************************************************)
(* Constructor and destructor.                                             *)
(***************************************************************************)
Init ==
    /\ stage = "constructing"
    /\ m_workqueue = <<>> /\ m_queuelocker = None /\ m_queuestat = 0
    /\ m_max_requests \in Garbage
    /\ pc = [t \in Threads |-> IF t \in Workers THEN "unborn" ELSE "idle"]
    /\ request = [w \in Workers |-> 0]
    /\ pushed = 0 /\ done = {} /\ interrupted = FALSE

\* One turn of the loop that starts the workers; a worker runs from then on,
\* whether or not the constructor has returned.
CreateThread(w) ==
    /\ stage = "constructing" /\ m_max_requests > 0
    /\ Goto(w, "unborn", "wait")
    /\ stage' = IF \A v \in Workers \ {w} : pc[v] # "unborn"
                THEN "running" ELSE stage
    /\ UNCHANGED <<m_workqueue, m_queuelocker, m_queuestat, m_max_requests,
                   request, pushed, done, interrupted>>

\* The constructor throws: the limit is not positive, or pthread_create or
\* pthread_detach fails.
ConstructorThrows ==
    /\ stage = "constructing"
    /\ stage' = "failed"
    /\ UNCHANGED <<m_workqueue, m_queuelocker, m_queuestat, m_max_requests,
                   pc, request, pushed, done, interrupted>>

\* The destructor, run when nobody is inside append().
Destroy ==
    /\ stage = "running" /\ \A c \in Callers : pc[c] = "idle"
    /\ stage' = "destroyed"
    /\ UNCHANGED <<m_workqueue, m_queuelocker, m_queuestat, m_max_requests,
                   pc, request, pushed, done, interrupted>>

(***************************************************************************)
(* locker::lock, for a caller on its way to the size check or a worker on  *)
(* its way to the front of the queue.                                      *)
(***************************************************************************)
Lock(t, to) ==
    /\ m_queuelocker = None
    /\ Goto(t, "lock", to)
    /\ m_queuelocker' = t
    /\ UNCHANGED <<stage, m_workqueue, m_queuestat, m_max_requests,
                   request, pushed, done, interrupted>>

(***************************************************************************)
(* append(): lock; refuse when the queue is longer than the limit, else    *)
(* push; unlock; post.                                                     *)
(***************************************************************************)
Call(c) ==
    /\ stage = "running" /\ pushed < MaxCalls
    /\ Goto(c, "idle", "lock")
    /\ UNCHANGED <<stage, m_workqueue, m_queuelocker, m_queuestat,
                   m_max_requests, request, pushed, done, interrupted>>

TooLongOffByOne == Len(m_workqueue) > m_max_requests + 1
TooLong == Len(m_workqueue) > m_max_requests

CheckSize(c) ==
    /\ IF TooLong
       THEN Goto(c, "check", "idle") /\ Unlock
       ELSE Goto(c, "check", "push") /\ UNCHANGED m_queuelocker
    /\ UNCHANGED <<stage, m_workqueue, m_queuestat, m_max_requests,
                   request, pushed, done, interrupted>>

Push(c) ==
    /\ Goto(c, "push", "post")
    /\ pushed' = pushed + 1
    /\ m_workqueue' = Append(m_workqueue, pushed + 1)
    /\ Unlock
    /\ UNCHANGED <<stage, m_queuestat, m_max_requests, request, done,
                   interrupted>>

\* The bug of posting only when the queue looks otherwise empty.
PostWhenFirst(c) ==
    /\ Goto(c, "post", "idle")
    /\ m_queuestat' = m_queuestat + (IF Len(m_workqueue) > 1 THEN 0 ELSE 1)
    /\ UNCHANGED <<stage, m_workqueue, m_queuelocker, m_max_requests,
                   request, pushed, done, interrupted>>

Post(c) ==
    /\ Goto(c, "post", "idle")
    /\ m_queuestat' = m_queuestat + 1
    /\ UNCHANGED <<stage, m_workqueue, m_queuelocker, m_max_requests,
                   request, pushed, done, interrupted>>

(***************************************************************************)
(* run(): wait on the semaphore; lock; go back when the queue is empty,    *)
(* else take the front request; unlock; process it.                        *)
(***************************************************************************)
WaitUnguarded(w) ==
    /\ Goto(w, "wait", "lock")
    /\ m_queuestat' = m_queuestat - 1
    /\ UNCHANGED <<stage, m_workqueue, m_queuelocker, m_max_requests,
                   request, pushed, done, interrupted>>

Wait(w) ==
    /\ m_queuestat > 0
    /\ Goto(w, "wait", "lock")
    /\ m_queuestat' = m_queuestat - 1
    /\ UNCHANGED <<stage, m_workqueue, m_queuelocker, m_max_requests,
                   request, pushed, done, interrupted>>

\* sem_wait fails with EINTR; run() ignores what wait() returns.
WaitInterrupted(w) ==
    /\ Goto(w, "wait", "lock")
    /\ interrupted' = TRUE
    /\ UNCHANGED <<stage, m_workqueue, m_queuelocker, m_queuestat,
                   m_max_requests, request, pushed, done>>

Front(w) ==
    /\ IF m_workqueue = <<>>
       THEN Goto(w, "front", "wait") /\ Unlock /\ UNCHANGED request
       ELSE /\ Goto(w, "front", "pop")
            /\ request' = [request EXCEPT ![w] = Head(m_workqueue)]
            /\ UNCHANGED m_queuelocker
    /\ UNCHANGED <<stage, m_workqueue, m_queuestat, m_max_requests,
                   pushed, done, interrupted>>

\* The bug of removing the newest request instead of the one taken.
PopBack(w) ==
    /\ Goto(w, "pop", "process")
    /\ m_workqueue' = SubSeq(m_workqueue, 1, Len(m_workqueue) - 1)
    /\ Unlock
    /\ UNCHANGED <<stage, m_queuestat, m_max_requests, request, pushed, done,
                   interrupted>>

Pop(w) ==
    /\ Goto(w, "pop", "process")
    /\ m_workqueue' = Tail(m_workqueue)
    /\ Unlock
    /\ UNCHANGED <<stage, m_queuestat, m_max_requests, request, pushed, done,
                   interrupted>>

\* request->process() returns, or the pointer was null.
Process(w) ==
    /\ Goto(w, "process", "wait")
    /\ done' = done \cup {request[w]}
    /\ UNCHANGED <<stage, m_workqueue, m_queuelocker, m_queuestat,
                   m_max_requests, request, pushed, interrupted>>

(***************************************************************************)
(* Specification.                                                          *)
(***************************************************************************)
CallerStep(c) == Call(c) \/ Lock(c, "check") \/ CheckSize(c) \/ Push(c) \/ Post(c)
WorkerStep(w) == \/ Wait(w) \/ WaitInterrupted(w) \/ Lock(w, "front")
                 \/ Front(w) \/ Pop(w) \/ Process(w)

\* The process has left main(): nothing more happens.
Ended == ~Alive /\ UNCHANGED vars

Next ==
    \/ \E w \in Workers : CreateThread(w)
    \/ ConstructorThrows
    \/ Destroy
    \/ \E c \in Callers : Alive /\ CallerStep(c)
    \/ \E w \in Workers : Alive /\ WorkerStep(w)
    \/ Ended

Spec == Init /\ [][Next]_vars

\* The scheduler lets every started thread go on, a thread that waits for a
\* mutex released again and again gets it, and process() returns.  Nobody is
\* obliged to call append(), to interrupt a wait or to destroy the pool.
Fairness ==
    /\ \A c \in Callers :
          /\ WF_vars(Alive /\ (CheckSize(c) \/ Push(c) \/ Post(c)))
          /\ SF_vars(Alive /\ Lock(c, "check"))
    /\ \A w \in Workers :
          /\ WF_vars(Alive /\ (Wait(w) \/ Front(w) \/ Pop(w) \/ Process(w)))
          /\ SF_vars(Alive /\ Lock(w, "front"))

FairSpec == Spec /\ Fairness
-----------------------------------------------------------------------------
Holders(S) == {t \in S : pc[t] \in {"check", "push", "front", "pop"}}
Takers  == {w \in Workers : pc[w] \in {"lock", "front", "pop"}}
Posters == {c \in Callers : pc[c] = "post"}
Popped  == pushed - Len(m_workqueue)

\* The type of the state; the semaphore never goes below zero.
TypeOK ==
    /\ stage \in {"constructing", "running", "failed", "destroyed"}
    /\ m_workqueue \in Seq(Nat)
    /\ m_queuelocker \in Threads \cup {None}
    /\ m_queuestat \in Nat
    /\ m_max_requests \in Int
    /\ pc \in [Threads -> {"unborn", "wait", "lock", "front", "pop", "process",
                           "idle", "check", "push", "post"}]
    /\ \A w \in Workers : pc[w] \notin {"idle", "check", "push", "post"}
    /\ \A c \in Callers : pc[c] \in {"idle", "lock", "check", "push", "post"}
    /\ request \in [Workers -> Nat]
    /\ pushed \in Nat
    /\ done \subseteq Nat
    /\ interrupted \in BOOLEAN

\* No lost wakeup.  append() queues and posts in two steps and run() takes a
\* unit and a request in two steps, with the mutex free in between: at every
\* moment each queued request is matched by a unit of the semaphore, by a
\* worker that has taken its unit or by a caller that is about to post.  As
\* long as no wait was interrupted the match is exact, so the test for an
\* empty queue in run() never succeeds.
TokensMatchQueue ==
    LET cover == m_queuestat + Cardinality(Takers) + Cardinality(Posters)
    IN  /\ Len(m_workqueue) <= cover
        /\ ~interrupted => Len(m_workqueue) = cover

\* Every request append() queued is, at every moment, in the queue, in the
\* hands of one worker or finished, and in exactly one of these; requests
\* leave the queue in the order in which they entered it.
ExactlyOnce ==
    /\ \A i \in DOMAIN m_workqueue : m_workqueue[i] = Popped + i
    /\ \A w \in Workers : pc[w] = "process" =>
          /\ request[w] \in (1..Popped) \ done
          /\ \A v \in Workers \ {w} :
                pc[v] = "process" => request[v] # request[w]
    /\ \A k \in 1..Popped :
          k \in done \/ \E w \in Workers : pc[w] = "process" /\ request[w] = k
    /\ done \subseteq 1..Popped

\* append() tests for "longer than the limit" and then pushes: the queue holds
\* one request more than m_max_requests, and never two more, whichever callers
\* race for the last place.
QueueBound == Len(m_workqueue) <= m_max_requests + 1 \/ m_workqueue = <<>>

\* Every request append() accepted is processed, unless the pool is destroyed
\* first: no interleaving of posts and waits leaves one behind.
EveryRequestServed ==
    \A k \in 1..MaxCalls : (pushed >= k) ~> (k \in done \/ ~Alive)
=============================================================================
