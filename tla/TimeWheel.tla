----------------------------- MODULE TimeWheel -----------------------------
(***************************************************************************)
(* time_wheel_timer (src/src/include/time_wheel_timer.h) with every slot a *)
(* set: slot s holds the live timers whose time_slot is s.  The lists the  *)
(* slots really are, and that they implement this, are in TimeWheelList.   *)
(* A negative timeout makes add_timer() return NULL and change nothing.    *)
(***************************************************************************)
EXTENDS WheelArith

VARIABLES
    live,         \* the timers on the wheel
    rotation,     \* turns of the wheel a timer still lets pass
    time_slot,    \* the slot of a timer
    cur_slot,     \* the slot the next tick() looks at
    left          \* history: the ticks until a timer must fire, as add_timer()
                  \* promised: offset ticks after the next one

vars == <<live, rotation, time_slot, cur_slot, left>>

Init ==
    /\ live = {}
    /\ rotation = [t \in Timers |-> 0]
    /\ time_slot = [t \in Timers |-> 0]
    /\ cur_slot = 0
    /\ left = [t \in Timers |-> 0]

add_timer(t, timeout) ==
    /\ t \notin live
    /\ live' = live \cup {t}
    /\ rotation' = [rotation EXCEPT ![t] = Rotation(Offset(timeout))]
    /\ time_slot' = [time_slot EXCEPT ![t] = SlotPos(cur_slot, Offset(timeout))]
    /\ left' = [left EXCEPT ![t] = Offset(timeout) + 1]
    /\ UNCHANGED cur_slot

\* delete leaves nothing of the timer.
del_timer(t) ==
    /\ t \in live
    /\ live' = live \ {t}
    /\ rotation' = [rotation EXCEPT ![t] = 0]
    /\ time_slot' = [time_slot EXCEPT ![t] = 0]
    /\ left' = [left EXCEPT ![t] = 0]
    /\ UNCHANGED cur_slot

Due == {t \in live : time_slot[t] = cur_slot /\ rotation[t] = 0}

\* The timers of the current slot lose a rotation or fire; the wheel turns.
tick ==
    /\ live' = live \ Due
    /\ rotation' = [t \in Timers |->
                       IF t \in live /\ time_slot[t] = cur_slot /\ rotation[t] > 0
                       THEN rotation[t] - 1 ELSE rotation[t]]
    /\ time_slot' = [t \in Timers |-> IF t \in Due THEN 0 ELSE time_slot[t]]
    /\ cur_slot' = NextSlot(cur_slot)
    /\ left' = [t \in Timers |-> IF t \in live \ Due THEN left[t] - 1 ELSE 0]

Next ==
    \/ \E t \in Timers, timeout \in Timeouts : add_timer(t, timeout)
    \/ \E t \in Timers : del_timer(t)
    \/ tick

Spec == Init /\ [][Next]_vars
-----------------------------------------------------------------------------
\* The type of the state.
TypeOK ==
    /\ live \subseteq Timers
    /\ rotation \in [Timers -> Nat]
    /\ time_slot \in [Timers -> 0..(N - 1)]
    /\ cur_slot \in 0..(N - 1)
    /\ left \in [Timers -> Nat]

\* The slots between the wheel's hand and a timer, and the ticks they and the
\* rotations left amount to.
Ahead(t) == IF time_slot[t] >= cur_slot THEN time_slot[t] - cur_slot
            ELSE time_slot[t] - cur_slot + N
Wheel(t) == rotation[t] * N + Ahead(t) + 1

\* Slot and rotation encode the promised number of ticks, across every turn of
\* the wheel: the remainder and the quotient that add_timer() takes by the
\* size of the wheel, and the decrements that tick() does once per turn, never
\* drift apart.
WheelExact == \A t \in live : left[t] = Wheel(t)

\* tick() fires the timers whose time has come, all of them and no other.
FiresOnTime == [][tick => Due = {t \in live : left[t] = 1}]_vars
=============================================================================
