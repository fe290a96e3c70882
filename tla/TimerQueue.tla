----------------------------- MODULE TimerQueue -----------------------------
(***************************************************************************)
(* What a timer container promises, whatever it is built from: a set of    *)
(* pending timers with their expiry times, and an expiry step that removes *)
(* exactly the timers whose time has come.                                 *)
(***************************************************************************)
EXTENDS Integers, Functions

CONSTANTS Timers, Times

VARIABLES pending,     \* the pending timers, each mapped to its expiry time
          cur          \* the current time

vars == <<pending, cur>>

Init == pending = << >> /\ cur = 0

Schedule(t, e) ==
    /\ t \notin DOMAIN pending
    /\ pending' = [x \in DOMAIN pending \cup {t} |-> IF x = t THEN e ELSE pending[x]]
    /\ UNCHANGED cur

Postpone(t, e) ==
    /\ t \in DOMAIN pending /\ e >= pending[t]
    /\ pending' = [pending EXCEPT ![t] = e]
    /\ UNCHANGED cur

Cancel(t) ==
    /\ t \in DOMAIN pending
    /\ pending' = Restrict(pending, DOMAIN pending \ {t})
    /\ UNCHANGED cur

Expire ==
    /\ pending' = Restrict(pending, {t \in DOMAIN pending : pending[t] > cur})
    /\ UNCHANGED cur

Advance == cur' > cur /\ UNCHANGED pending

Next ==
    \/ \E t \in Timers, e \in Times : Schedule(t, e) \/ Postpone(t, e)
    \/ \E t \in Timers : Cancel(t)
    \/ Expire
    \/ Advance

Spec == Init /\ [][Next]_vars
=============================================================================
