----------------------------- MODULE WheelArith -----------------------------
(***************************************************************************)
(* The arithmetic of time_wheel_timer                                      *)
(* (src/src/include/time_wheel_timer.h): where on a wheel of N slots a     *)
(* timer goes, for an interval of SI seconds between two ticks.            *)
(***************************************************************************)
EXTENDS Integers

CONSTANTS N,          \* slots of the wheel
          SI,         \* seconds between two ticks
          Timers,     \* the addresses a tw_timer may be allocated at
          Timeouts    \* the arguments add_timer() is called with

ASSUME WheelAssumption ==
    /\ N \in Nat \ {0}
    /\ SI \in Nat \ {0}
    /\ Timeouts \subseteq Nat

Offset(timeout) == IF timeout \div SI = 0 THEN 1 ELSE timeout \div SI

\* The full turns in offset slots, and the bug of counting a started turn.
RotationUp(offset) == (offset + N - 1) \div N
Rotation(offset) == offset \div N

\* The slot reached by going offset slots round the wheel, and the bug of
\* counting from the slot the last tick() has left.
SlotPosOffByOne(cur_slot, offset) == (cur_slot + offset - 1) % N
SlotPos(cur_slot, offset) == (cur_slot + offset) % N

\* The slot after cur_slot, and the bug of not going round.
NextSlotNoWrap(cur_slot) == cur_slot + 1
NextSlot(cur_slot) == (cur_slot + 1) % N
=============================================================================
