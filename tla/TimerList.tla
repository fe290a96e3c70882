----------------------------- MODULE TimerList -----------------------------
(***************************************************************************)
(* A sort_timer_lst and a program that uses it: timers are allocated and   *)
(* added with any expiry time, postponed, deleted, and tick() runs at any  *)
(* time.  As in the server, adjust_timer() is only called after expire was *)
(* moved to a later time.                                                  *)
(***************************************************************************)
EXTENDS SortTimerLst

CONSTANT MaxTime     \* bound: the clock stops there

ASSUME TimeAssumption == MaxTime \in Nat

VARIABLES list,       \* the list's pointers
          expiry,     \* expire of every timer
          allocated,  \* the addresses that hold an allocated timer
          time        \* what time(NULL) returns

listVars == <<list, expiry, allocated, time>>
Times    == 0..MaxTime

ListInit ==
    /\ list = EmptyList
    /\ expiry = [t \in Timers |-> 0]
    /\ allocated = {}
    /\ time = 0

Add(t, e) ==
    /\ t \notin allocated
    /\ allocated' = allocated \cup {t}
    /\ expiry' = [expiry EXCEPT ![t] = e]
    /\ list' = add_timer(NewTimer(list, t), expiry', t)
    /\ UNCHANGED time

Adjust(t, e) ==
    /\ t \in allocated /\ e >= expiry[t]
    /\ expiry' = [expiry EXCEPT ![t] = e]
    /\ list' = adjust_timer(list, expiry', t)
    /\ UNCHANGED <<allocated, time>>

Del(t) ==
    /\ t \in allocated
    /\ list' = del_timer(list, t)
    /\ allocated' = allocated \ {t}
    /\ UNCHANGED <<expiry, time>>

Tick ==
    /\ list' = tick(list, expiry, time)
    /\ allocated' = allocated \ Fired(list, expiry, time)
    /\ UNCHANGED <<expiry, time>>

TimePasses ==
    /\ time < MaxTime /\ time' = time + 1
    /\ UNCHANGED <<list, expiry, allocated>>

ListNext ==
    \/ \E t \in Timers, e \in Times : Add(t, e) \/ Adjust(t, e)
    \/ \E t \in Timers : Del(t)
    \/ Tick
    \/ TimePasses

ListSpec == ListInit /\ [][ListNext]_listVars
-----------------------------------------------------------------------------
\* The type of the state.
ListTypeOK ==
    /\ list.head \in Timers \cup {Null} /\ list.tail \in Timers \cup {Null}
    /\ list.prev \in [Timers -> Timers \cup {Null}]
    /\ list.next \in [Timers -> Timers \cup {Null}]
    /\ expiry \in [Timers -> Times]
    /\ allocated \subseteq Timers
    /\ time \in Times

\* After any sequence of add_timer, adjust_timer, del_timer and tick the two
\* chains of pointers agree, end at tail, and hold exactly the allocated
\* timers: no timer is leaked and no pointer leads to a deleted one.  They are in
\* order, which is what lets tick() stop at the first that has not expired.
ListIntact ==
    /\ ListTypeOK
    /\ LinksOK(list) /\ Nodes(list) = allocated
    /\ Ascending(list, expiry)

\* The list implements the timer container: add, adjust and delete change just
\* the timer they name, and tick() removes every expired timer and no other.
ListQueue == INSTANCE TimerQueue
                WITH pending <- [t \in Nodes(list) |-> expiry[t]], cur <- time
ListImplementsQueue == ListQueue!Spec
=============================================================================
