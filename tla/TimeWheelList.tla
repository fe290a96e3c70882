--------------------------- MODULE TimeWheelList ---------------------------
(***************************************************************************)
(* time_wheel_timer (src/src/include/time_wheel_timer.h) with the lists    *)
(* its slots are: slots[s] points to the newest timer of slot s, and the   *)
(* timers of a slot are linked by next and prev.  The operations are those *)
(* of TimeWheel, done on the pointers.                                     *)
(***************************************************************************)
EXTENDS WheelArith, FiniteSets

CONSTANT Null

ASSUME SlotAssumption == IsFiniteSet(Timers) /\ Null \notin Timers

VARIABLES slots, next, prev,             \* the pointers
          live, rotation, time_slot, cur_slot, left

vars == <<slots, next, prev, live, rotation, time_slot, cur_slot, left>>

AllNull == [t \in Timers |-> Null]
Zeroes  == [t \in Timers |-> 0]

Init ==
    /\ slots = [s \in 0..(N - 1) |-> Null]
    /\ next = AllNull /\ prev = AllNull
    /\ live = {} /\ rotation = Zeroes /\ time_slot = Zeroes
    /\ cur_slot = 0 /\ left = Zeroes

add_timer(t, timeout) ==
    LET offset == Offset(timeout)
        slot_pos == SlotPos(cur_slot, offset)
        first == slots[slot_pos]
    IN  /\ t \notin live
        /\ live' = live \cup {t}
        /\ rotation' = [rotation EXCEPT ![t] = Rotation(offset)]
        /\ time_slot' = [time_slot EXCEPT ![t] = slot_pos]
        /\ slots' = [slots EXCEPT ![slot_pos] = t]
        /\ next' = [next EXCEPT ![t] = first]
        /\ prev' = [u \in Timers |-> IF u = t THEN Null
                                     ELSE IF u = first THEN t ELSE prev[u]]
        /\ left' = [left EXCEPT ![t] = offset + 1]
        /\ UNCHANGED cur_slot

(***************************************************************************)
(* Taking timer t out of the list of slot s; w is the record of the        *)
(* pointers.  The same lines are in del_timer() and in tick().             *)
(***************************************************************************)
\* The bug of leaving prev of the new first timer as it was.
UnlinkKeepsPrev(w, s, t) ==
    IF t = w.slots[s]
    THEN [w EXCEPT !.slots[s] = w.next[t]]
    ELSE [w EXCEPT !.next[w.prev[t]] = w.next[t],
                   !.prev = [u \in Timers |-> IF u = w.next[t] THEN w.prev[t] ELSE @[u]]]

Unlink(w, s, t) ==
    IF t = w.slots[s]
    THEN [w EXCEPT !.slots[s] = w.next[t],
                   !.prev = [u \in Timers |-> IF u = w.next[t] THEN Null ELSE @[u]]]
    ELSE [w EXCEPT !.next[w.prev[t]] = w.next[t],
                   !.prev = [u \in Timers |-> IF u = w.next[t] THEN w.prev[t] ELSE @[u]]]

\* The pointers become those of w and the timers of T are deleted: their
\* fields are cleared, for nobody reads them before new sets them again.
Install(w, T) ==
    /\ slots' = w.slots
    /\ next' = [t \in Timers |-> IF t \in T THEN Null ELSE w.next[t]]
    /\ prev' = [t \in Timers |-> IF t \in T THEN Null ELSE w.prev[t]]
    /\ live' = live \ T
    /\ time_slot' = [t \in Timers |-> IF t \in T THEN 0 ELSE time_slot[t]]

del_timer(t) ==
    /\ t \in live
    /\ Install(Unlink([slots |-> slots, next |-> next, prev |-> prev],
                      time_slot[t], t), {t})
    /\ rotation' = [rotation EXCEPT ![t] = 0]
    /\ left' = [left EXCEPT ![t] = 0]
    /\ UNCHANGED cur_slot

\* The bug of starting again at the first timer after one has fired.
TickTurnRestarts(w) ==
    IF w.tmp = Null THEN w
    ELSE IF w.rotation[w.tmp] > 0
    THEN [w EXCEPT !.rotation[w.tmp] = @ - 1, !.tmp = w.next[w.tmp]]
    ELSE LET u == Unlink(w, cur_slot, w.tmp)
         IN  [u EXCEPT !.tmp = u.slots[cur_slot], !.fired = @ \cup {w.tmp}]

\* One turn of the loop in tick(), at the timer w.tmp: it loses a rotation, or
\* it fires and is unlinked.
TickTurn(w) ==
    IF w.tmp = Null THEN w
    ELSE IF w.rotation[w.tmp] > 0
    THEN [w EXCEPT !.rotation[w.tmp] = @ - 1, !.tmp = w.next[w.tmp]]
    ELSE [Unlink(w, cur_slot, w.tmp) EXCEPT !.tmp = w.next[w.tmp],
                                            !.fired = @ \cup {w.tmp}]

\* tick(): from slots[cur_slot] to the end of the list, then the wheel turns.
tick ==
    LET walk[k \in 0..Cardinality(Timers)] ==
            IF k = 0
            THEN [slots |-> slots, next |-> next, prev |-> prev,
                  rotation |-> rotation, tmp |-> slots[cur_slot], fired |-> {}]
            ELSE TickTurn(walk[k - 1])
        end == walk[Cardinality(Timers)]
    IN  /\ Install(end, end.fired)
        /\ rotation' = end.rotation
        /\ cur_slot' = NextSlot(cur_slot)
        /\ left' = [t \in Timers |-> IF t \in live \ end.fired THEN left[t] - 1 ELSE 0]

Next ==
    \/ \E t \in Timers, timeout \in Timeouts : add_timer(t, timeout)
    \/ \E t \in Timers : del_timer(t)
    \/ tick

Spec == Init /\ [][Next]_vars
-----------------------------------------------------------------------------
\* The type of the state.
TypeOK ==
    /\ slots \in [0..(N - 1) -> Timers \cup {Null}]
    /\ next \in [Timers -> Timers \cup {Null}]
    /\ prev \in [Timers -> Timers \cup {Null}]
    /\ cur_slot \in 0..(N - 1)

Slot(s) ==
    LET p[k \in 0..Cardinality(Timers)] ==
            IF k = 0 THEN slots[s]
            ELSE IF p[k - 1] = Null THEN Null ELSE next[p[k - 1]]
    IN  {p[k] : k \in DOMAIN p} \ {Null}

\* The list of every slot holds exactly the live timers whose time_slot says
\* so, prev undoes next, and the first timer has no predecessor: del_timer()
\* may be called for any timer at any time between two ticks.
SlotListsIntact ==
    \A s \in 0..(N - 1) :
       /\ Slot(s) = {t \in live : time_slot[t] = s}
       /\ slots[s] # Null => prev[slots[s]] = Null
       /\ \A t \in Slot(s) : next[t] # Null => prev[next[t]] = t

\* The lists implement the wheel of sets: add, delete and tick on the pointers
\* are those of TimeWheel, and tick() fires every due timer of the slot though
\* it unlinks timers while it walks along the list.
Sets == INSTANCE TimeWheel
ListsImplementSets == Sets!Spec

\* Slot and rotation encode the promised number of ticks.
WheelExact == Sets!WheelExact

\* tick() fires the timers whose time has come, all of them and no other.
FiresOnTime == [][tick => live \ live' = {t \in live : left[t] = 1}]_vars
=============================================================================
