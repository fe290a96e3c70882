-------------------------- MODULE TimeWheelProofs --------------------------
(***************************************************************************)
(* The time wheel fires every timer at exactly the tick add_timer()        *)
(* promised, for a wheel of any size, any interval and any timeouts.       *)
(*                                                                         *)
(* First for the wheel of sets.  Its TypeOK and WheelExact are inductive   *)
(* together: the remainder and the quotient by N that add_timer() stores   *)
(* add up to the offset, and a tick takes one off their sum whether it     *)
(* turns the hand one slot further, past the timer's slot, or round to     *)
(* slot 0.                                                                 *)
(*                                                                         *)
(* Then for the lists the slots really are: the pointers of every slot are *)
(* those of a sequence of its timers, and the operations on the pointers   *)
(* are those of the wheel of sets.                                         *)
(***************************************************************************)
EXTENDS TimeWheelList, FiniteSetTheorems, WellFoundedInduction, NaturalsInduction, TLAPS

\* A multiple of n strictly between -2n and n is -n or 0.
LEMMA SmallMultiple ==
    ASSUME NEW n \in Nat \ {0}, NEW d \in Int, d * n > -(2 * n), d * n < n
    PROVE  d = 0 \/ d = -1
  <1>1. CASE d >= 1
    <2>1. d * n >= n
      BY <1>1
    <2> QED BY <2>1
  <1>2. CASE d <= -2
    <2>1. d * n <= (-2) * n
      BY <1>2
    <2> QED BY <2>1
  <1> QED BY <1>1, <1>2

\* Quotient and remainder.
LEMMA DivMod ==
    ASSUME NEW a \in Nat, NEW n \in Nat \ {0}
    PROVE  /\ a \div n \in Nat /\ a % n \in 0..(n - 1)
           /\ a = (a \div n) * n + (a % n)
  OBVIOUS

\* What add_timer() stores for an offset encodes the offset: the turns, and the
\* slots from the hand to the timer's slot.
LEMMA SlotEncodesOffset ==
    ASSUME NEW cur \in 0..(N - 1), NEW o \in Nat
    PROVE  /\ Rotation(o) \in Nat
           /\ SlotPos(cur, o) \in 0..(N - 1)
           /\ Rotation(o) * N + (IF SlotPos(cur, o) >= cur THEN SlotPos(cur, o) - cur
                                 ELSE SlotPos(cur, o) - cur + N) = o
  <1> DEFINE r == o \div N
             m == o % N
             q == (cur + o) \div N
             p == (cur + o) % N
  <1>n. N \in Nat \ {0} /\ cur \in Nat /\ cur + o \in Nat
    BY WheelAssumption DEF WheelAssumption
  <1>1. r \in Nat /\ m \in 0..(N - 1) /\ o = r * N + m
    BY <1>n, DivMod
  <1>2. q \in Nat /\ p \in 0..(N - 1) /\ cur + o = q * N + p
    BY <1>n, DivMod
  <1> HIDE DEF r, m, q, p
  <1>3. (r - q) * N = p - cur - m
    <2>1. (r - q) * N = r * N - q * N
      BY <1>n, <1>1, <1>2
    <2>2. r * N \in Int /\ q * N \in Int
      BY <1>n, <1>1, <1>2
    <2> QED BY <1>n, <1>1, <1>2, <2>1, <2>2
  <1>4. r - q = 0 \/ r - q = -1
    <2>1. r - q \in Int /\ (r - q) * N > -(2 * N) /\ (r - q) * N < N
      BY <1>n, <1>1, <1>2, <1>3
    <2> QED BY <1>n, <2>1, SmallMultiple
  <1>5. (r - q) * N = 0 \/ (r - q) * N = -N
    BY <1>n, <1>4
  <1>6. m = (IF p >= cur THEN p - cur ELSE p - cur + N)
    BY <1>n, <1>1, <1>2, <1>3, <1>5
  <1>7. r * N + (IF p >= cur THEN p - cur ELSE p - cur + N) = o
    BY <1>1, <1>6
  <1> QED BY <1>1, <1>2, <1>7 DEF Rotation, SlotPos, r, p

\* The hand moves one slot on, or from the last slot to the first.
LEMMA HandMoves ==
    ASSUME NEW cur \in 0..(N - 1)
    PROVE  NextSlot(cur) = IF cur = N - 1 THEN 0 ELSE cur + 1
  <1>n. N \in Nat \ {0} /\ cur + 1 \in Nat
    BY WheelAssumption DEF WheelAssumption
  <1> DEFINE q == (cur + 1) \div N
             p == (cur + 1) % N
  <1>1. q \in Nat /\ p \in 0..(N - 1) /\ cur + 1 = q * N + p
    BY <1>n, DivMod
  <1> HIDE DEF q, p
  <1>2. q = 0 \/ q = 1
    <2>1. CASE q >= 2
      <3>1. q * N >= 2 * N
        BY <1>n, <1>1, <2>1
      <3> QED BY <1>n, <1>1, <3>1
    <2> QED BY <1>1, <2>1
  <1>3. q * N = 0 \/ q * N = N
    BY <1>n, <1>2
  <1>4. p = IF cur = N - 1 THEN 0 ELSE cur + 1
    BY <1>n, <1>1, <1>3
  <1> QED BY <1>4 DEF NextSlot, p

\* The offset is a positive number of slots.
LEMMA OffsetPositive ==
    ASSUME NEW timeout \in Timeouts
    PROVE  Offset(timeout) \in Nat \ {0}
  <1>1. timeout \in Nat /\ SI \in Nat \ {0}
    BY WheelAssumption DEF WheelAssumption
  <1>2. timeout \div SI \in Nat
    BY <1>1, DivMod
  <1> QED BY <1>2 DEF Offset
-----------------------------------------------------------------------------
(* The wheel of sets.                                                      *)

\* It has the same arithmetic.
LEMMA SameArith ==
    /\ \A timeout : Sets!Offset(timeout) = Offset(timeout)
    /\ \A o : Sets!Rotation(o) = Rotation(o)
    /\ \A c, o : Sets!SlotPos(c, o) = SlotPos(c, o)
    /\ \A c : Sets!NextSlot(c) = NextSlot(c)
  BY DEF Sets!Offset, Offset, Sets!Rotation, Rotation, Sets!SlotPos, SlotPos,
         Sets!NextSlot, NextSlot

WheelInv == Sets!TypeOK /\ Sets!WheelExact

\* The empty wheel.
LEMMA WheelInit == Sets!Init => WheelInv
  BY WheelAssumption DEF WheelAssumption, Sets!Init, WheelInv, Sets!TypeOK, Sets!WheelExact

\* add_timer() keeps the encoding.
LEMMA AddStep ==
    ASSUME WheelInv, NEW t \in Timers, NEW timeout \in Timeouts, Sets!add_timer(t, timeout)
    PROVE  WheelInv'
  <1> DEFINE o == Offset(timeout)
  <1>n. N \in Nat \ {0}
    BY WheelAssumption DEF WheelAssumption
  <1>1. o \in Nat
    BY OffsetPositive
  <1> HIDE DEF o
  <1>2. cur_slot \in 0..(N - 1)
    BY DEF WheelInv, Sets!TypeOK
  <1>3. /\ Rotation(o) \in Nat
        /\ SlotPos(cur_slot, o) \in 0..(N - 1)
        /\ Rotation(o) * N + (IF SlotPos(cur_slot, o) >= cur_slot
                              THEN SlotPos(cur_slot, o) - cur_slot
                              ELSE SlotPos(cur_slot, o) - cur_slot + N) = o
    BY <1>1, <1>2, SlotEncodesOffset
  <1>4. /\ live' = live \cup {t} /\ t \notin live /\ cur_slot' = cur_slot
        /\ rotation' = [rotation EXCEPT ![t] = Rotation(o)]
        /\ time_slot' = [time_slot EXCEPT ![t] = SlotPos(cur_slot, o)]
        /\ left' = [left EXCEPT ![t] = o + 1]
    BY SameArith DEF Sets!add_timer, o
  <1>5. Sets!TypeOK'
    BY <1>1, <1>3, <1>4 DEF WheelInv, Sets!TypeOK
  <1>6. left'[t] = Sets!Wheel(t)'
    BY <1>1, <1>3, <1>4 DEF WheelInv, Sets!TypeOK, Sets!Wheel, Sets!Ahead
  <1>7. \A u \in live : left'[u] = Sets!Wheel(u)'
    BY <1>4 DEF WheelInv, Sets!TypeOK, Sets!WheelExact, Sets!Wheel, Sets!Ahead
  <1> QED BY <1>4, <1>5, <1>6, <1>7 DEF WheelInv, Sets!WheelExact

\* del_timer() leaves the other timers alone.
LEMMA DelStep ==
    ASSUME WheelInv, NEW t \in Timers, Sets!del_timer(t)
    PROVE  WheelInv'
  <1>n. N \in Nat \ {0}
    BY WheelAssumption DEF WheelAssumption
  <1>1. Sets!TypeOK'
    BY <1>n DEF Sets!del_timer, WheelInv, Sets!TypeOK
  <1>2. \A u \in live \ {t} : left'[u] = Sets!Wheel(u)'
    BY DEF Sets!del_timer, WheelInv, Sets!TypeOK, Sets!WheelExact, Sets!Wheel, Sets!Ahead
  <1> QED BY <1>1, <1>2 DEF Sets!del_timer, WheelInv, Sets!WheelExact

\* A timer is due exactly when one tick is left.
LEMMA DueIsOneLeft ==
    ASSUME WheelInv
    PROVE  Sets!Due = {t \in live : left[t] = 1}
  <1>n. N \in Nat \ {0}
    BY WheelAssumption DEF WheelAssumption
  <1> SUFFICES ASSUME NEW t \in live
               PROVE  (time_slot[t] = cur_slot /\ rotation[t] = 0) <=> left[t] = 1
    BY DEF Sets!Due
  <1>1. /\ rotation[t] \in Nat /\ time_slot[t] \in 0..(N - 1) /\ cur_slot \in 0..(N - 1)
        /\ left[t] = rotation[t] * N + Sets!Ahead(t) + 1
    BY DEF WheelInv, Sets!TypeOK, Sets!WheelExact, Sets!Wheel
  <1>2. Sets!Ahead(t) \in Nat /\ (Sets!Ahead(t) = 0 <=> time_slot[t] = cur_slot)
    <2>1. time_slot[t] \in 0..(N - 1) /\ cur_slot \in 0..(N - 1)
      BY <1>1
    <2> QED BY <1>n, <2>1 DEF Sets!Ahead
  <1>3. rotation[t] * N \in Nat /\ (rotation[t] * N = 0 <=> rotation[t] = 0)
    <2>1. CASE rotation[t] = 0
      BY <1>n, <2>1
    <2>2. CASE rotation[t] >= 1
      <3>1. rotation[t] * N >= N /\ rotation[t] * N \in Int
        BY <1>n, <1>1, <2>2
      <3> QED BY <1>n, <2>2, <3>1
    <2> QED BY <1>1, <2>1, <2>2
  <1> QED BY <1>1, <1>2, <1>3

\* tick() takes one off the ticks left of every timer that stays.
LEMMA TickStep ==
    ASSUME WheelInv, Sets!tick
    PROVE  WheelInv'
  <1>n. N \in Nat \ {0}
    BY WheelAssumption DEF WheelAssumption
  <1>c. /\ cur_slot \in 0..(N - 1)
        /\ cur_slot' = IF cur_slot = N - 1 THEN 0 ELSE cur_slot + 1
    BY HandMoves, SameArith DEF Sets!tick, WheelInv, Sets!TypeOK
  <1>d. \A t \in live \ Sets!Due : left[t] \in Nat /\ left[t] > 1
    <2> SUFFICES ASSUME NEW t \in live \ Sets!Due PROVE left[t] \in Nat /\ left[t] > 1
      OBVIOUS
    <2>1. left[t] \in Nat /\ left[t] # 1
      BY DueIsOneLeft DEF WheelInv, Sets!TypeOK
    <2>2. /\ left[t] = rotation[t] * N + Sets!Ahead(t) + 1
          /\ rotation[t] \in Nat /\ time_slot[t] \in 0..(N - 1)
      BY DEF WheelInv, Sets!TypeOK, Sets!WheelExact, Sets!Wheel
    <2>3. /\ rotation[t] * N >= 0 /\ Sets!Ahead(t) >= 0
          /\ rotation[t] * N \in Int /\ Sets!Ahead(t) \in Int
      BY <1>n, <1>c, <2>2 DEF Sets!Ahead
    <2> QED BY <2>1, <2>2, <2>3
  <1>1. Sets!TypeOK'
    <2>1. rotation' \in [Timers -> Nat]
      BY DEF Sets!tick, WheelInv, Sets!TypeOK
    <2>2. time_slot' \in [Timers -> 0..(N - 1)]
      BY <1>n DEF Sets!tick, WheelInv, Sets!TypeOK
    <2>3. left' \in [Timers -> Nat]
      BY <1>d DEF Sets!tick
    <2>4. live' \subseteq Timers /\ cur_slot' \in 0..(N - 1)
      BY <1>n, <1>c DEF Sets!tick, WheelInv, Sets!TypeOK
    <2> QED BY <2>1, <2>2, <2>3, <2>4 DEF Sets!TypeOK
  <1>2. ASSUME NEW t \in live \ Sets!Due PROVE left'[t] = Sets!Wheel(t)'
    <2>1. /\ t \in Timers /\ rotation[t] \in Nat /\ time_slot[t] \in 0..(N - 1)
          /\ left[t] = rotation[t] * N + Sets!Ahead(t) + 1
      BY DEF WheelInv, Sets!TypeOK, Sets!WheelExact, Sets!Wheel
    <2>2. left'[t] = left[t] - 1 /\ time_slot'[t] = time_slot[t]
      BY <2>1 DEF Sets!tick
    <2>3. rotation[t] * N \in Int
      BY <1>n, <2>1
    <2>4. CASE time_slot[t] = cur_slot
      <3>1. rotation[t] > 0 /\ rotation'[t] = rotation[t] - 1
        BY <2>1, <2>4 DEF Sets!tick, Sets!Due
      <3>2. rotation'[t] * N = rotation[t] * N - N
        BY <1>n, <2>1, <3>1
      <3>3. Sets!Ahead(t) = 0 /\ Sets!Ahead(t)' = N - 1
        BY <1>n, <1>c, <2>1, <2>2, <2>4 DEF Sets!Ahead
      <3> QED BY <1>n, <2>1, <2>2, <2>3, <3>2, <3>3 DEF Sets!Wheel
    <2>5. CASE time_slot[t] # cur_slot
      <3>1. rotation'[t] = rotation[t]
        BY <2>1, <2>5 DEF Sets!tick
      <3>2. Sets!Ahead(t) \in Int /\ Sets!Ahead(t)' = Sets!Ahead(t) - 1
        <4>1. CASE time_slot[t] > cur_slot
          BY <1>n, <1>c, <2>1, <2>2, <4>1 DEF Sets!Ahead
        <4>2. CASE time_slot[t] < cur_slot
          BY <1>n, <1>c, <2>1, <2>2, <4>2 DEF Sets!Ahead
        <4> QED BY <1>c, <2>1, <2>5, <4>1, <4>2
      <3> QED BY <2>1, <2>2, <2>3, <3>1, <3>2 DEF Sets!Wheel
    <2> QED BY <2>4, <2>5
  <1> QED BY <1>1, <1>2 DEF Sets!tick, WheelInv, Sets!WheelExact

\* Type correctness and the encoding hold in every state.
LEMMA WheelHolds == Sets!Spec => []WheelInv
  <1>1. WheelInv /\ [Sets!Next]_Sets!vars => WheelInv'
    <2> SUFFICES ASSUME WheelInv, [Sets!Next]_Sets!vars PROVE WheelInv'
      OBVIOUS
    <2>1. CASE UNCHANGED Sets!vars
      BY <2>1 DEF Sets!vars, WheelInv, Sets!TypeOK, Sets!WheelExact, Sets!Wheel, Sets!Ahead
    <2> QED BY <2>1, AddStep, DelStep, TickStep DEF Sets!Next
  <1> QED BY <1>1, WheelInit, PTL DEF Sets!Spec

\* Slot and rotation encode the number of ticks a timer has left, for every
\* size of the wheel.
THEOREM SetsEncodingExact == Sets!Spec => []Sets!WheelExact
  <1>1. WheelInv => Sets!WheelExact
    BY DEF WheelInv
  <1> QED BY <1>1, WheelHolds, PTL

\* tick() fires a timer at exactly the promised tick, for every size of the
\* wheel and every timeout.
THEOREM SetsFiringExact == Sets!Spec => Sets!FiresOnTime
  <1>1. WheelInv => (Sets!tick => Sets!Due = {t \in live : left[t] = 1})
    BY DueIsOneLeft
  <1> QED BY <1>1, WheelHolds, PTL DEF Sets!FiresOnTime
-----------------------------------------------------------------------------
(* The lists of the slots.  A list is given by its first pointer f and the *)
(* functions nx and pv of the next and prev pointers; q is the sequence of *)
(* its n timers.                                                           *)
Chained(f, nx, pv, n, q) ==
    /\ n \in Nat /\ q \in [1..n -> Timers]
    /\ \A i, j \in 1..n : q[i] = q[j] => i = j
    /\ f = IF n = 0 THEN Null ELSE q[1]
    /\ n > 0 => nx[q[n]] = Null /\ pv[q[1]] = Null
    /\ \A i \in 1..(n - 1) : nx[q[i]] = q[i + 1] /\ pv[q[i + 1]] = q[i]

Elements(n, q) == {q[i] : i \in 1..n}

\* The list holds the timers of S, each once.
Holds(f, nx, pv, S) ==
    \E n \in Nat : \E q \in [1..n -> Timers] :
        Chained(f, nx, pv, n, q) /\ S = Elements(n, q)

\* The i-th timer, or null behind the last one.
Place(n, q, i) == IF i <= n THEN q[i] ELSE Null

\* A set of natural numbers that is not empty has a least element.
LEMMA LeastOf ==
    ASSUME NEW T \in SUBSET Nat, T # {}
    PROVE  \E x \in T : \A y \in T : x <= y
  <1>1. PICK x \in T : \A y \in T : ~(<<y, x>> \in OpToRel(<, Nat))
    BY NatLessThanWellFounded, WFMin
  <1>2. \A y \in T : ~(y < x)
    BY <1>1 DEF OpToRel
  <1> QED BY <1>2

\* What holds at 0 and is handed on holds up to c.
LEMMA UpTo ==
    ASSUME NEW c \in Nat, NEW G, 0 \in G, \A k \in 0..(c - 1) : k \in G => k + 1 \in G
    PROVE  \A k \in 0..c : k \in G
  <1> DEFINE T == {k \in 0..c : k \notin G}
  <1> SUFFICES ASSUME T # {} PROVE FALSE
    OBVIOUS
  <1>1. T \in SUBSET Nat
    OBVIOUS
  <1> HIDE DEF T
  <1>2. PICK k \in T : \A j \in T : k <= j
    BY <1>1, LeastOf
  <1> USE DEF T
  <1>3. k # 0 /\ k - 1 \in 0..(c - 1)
    BY <1>2
  <1>4. k - 1 \in G
    BY <1>2, <1>3
  <1> QED BY <1>2, <1>3, <1>4

\* A list is no longer than the number of addresses.
LEMMA LengthFacts ==
    ASSUME NEW n \in Nat, NEW q \in [1..n -> Timers],
           \A i, j \in 1..n : q[i] = q[j] => i = j
    PROVE  Cardinality(Timers) \in Nat /\ n <= Cardinality(Timers)
  <1>1. Cardinality(Timers) \in Nat
    BY SlotAssumption, FS_CardinalityType
  <1>2. IsFiniteSet(1..n) /\ Cardinality(1..n) = n
    BY FS_Interval
  <1>3. q \in Injection(1..n, Timers)
    BY DEF Injection, IsInjective
  <1>4. n <= Cardinality(Timers)
    BY <1>2, <1>3, SlotAssumption, FS_Injection
  <1> QED BY <1>1, <1>4

\* Slot(s) follows the next pointers from the first timer to the last.
Walk(f, nx, p) ==
    [k \in 0..Cardinality(Timers) |->
        IF k = 0 THEN f ELSE IF p[k - 1] = Null THEN Null ELSE nx[p[k - 1]]]

\* What is met on the way.
LEMMA WalkFacts ==
    ASSUME NEW f, NEW nx, NEW pv, NEW n, NEW q, Chained(f, nx, pv, n, q)
    PROVE  /\ \E p : p = Walk(f, nx, p)
           /\ \A p : p = Walk(f, nx, p) =>
                        p = [k \in 0..Cardinality(Timers) |-> Place(n, q, k + 1)]
  <1> DEFINE C == Cardinality(Timers)
             w == [k \in 0..C |-> IF k + 1 <= n THEN q[k + 1] ELSE Null]
  <1>1. C \in Nat /\ n \in Nat /\ Null \notin Timers
    BY LengthFacts, SlotAssumption DEF Chained
  <1> HIDE DEF C
  <1>2. ASSUME NEW k \in 0..C
        PROVE  w[k] = IF k = 0 THEN f
                      ELSE IF w[k - 1] = Null THEN Null ELSE nx[w[k - 1]]
    <2>1. CASE k = 0
      BY <2>1, <1>1 DEF Chained
    <2>2. CASE k > 0
      <3>1. k - 1 \in 0..C /\ w[k - 1] = IF k <= n THEN q[k] ELSE Null
        BY <2>2, <1>1
      <3>2. CASE k + 1 <= n
        <4>1. k \in 1..(n - 1)
          BY <3>2, <2>2, <1>1
        <4>2. nx[q[k]] = q[k + 1] /\ q[k] \in Timers
          BY <4>1, <1>1 DEF Chained
        <4> QED BY <3>1, <3>2, <4>1, <4>2, <2>2, <1>1
      <3>3. CASE k = n
        <4>1. nx[q[n]] = Null /\ q[n] \in Timers
          BY <3>3, <2>2, <1>1 DEF Chained
        <4> QED BY <3>1, <3>3, <4>1, <2>2, <1>1
      <3>4. CASE k > n
        BY <3>1, <3>4, <2>2, <1>1
      <3> QED BY <3>2, <3>3, <3>4, <1>1
    <2> QED BY <2>1, <2>2, <1>1
  <1>3. w = Walk(f, nx, w)
    BY <1>2 DEF Walk, C
  <1>4. ASSUME NEW p, p = Walk(f, nx, p)
        PROVE  p = w
    <2>1. /\ p = [k \in 0..C |-> p[k]]
          /\ \A k \in 0..C : p[k] = IF k = 0 THEN f
                               ELSE IF p[k - 1] = Null THEN Null ELSE nx[p[k - 1]]
      BY <1>4 DEF Walk, C
    <2> DEFINE G == {k \in 0..C : p[k] = w[k]}
    <2> HIDE DEF w
    <2>2. 0 \in G
      BY <1>1, <1>2, <2>1, SMTT(30)
    <2>3. ASSUME NEW k \in 0..(C - 1), k \in G PROVE k + 1 \in G
      <3>1. k + 1 \in 0..C /\ k + 1 # 0 /\ (k + 1) - 1 = k
        BY <1>1
      <3>2. /\ p[k + 1] = IF p[k] = Null THEN Null ELSE nx[p[k]]
            /\ w[k + 1] = IF w[k] = Null THEN Null ELSE nx[w[k]]
        BY <1>2, <2>1, <3>1
      <3>3. p[k] = w[k]
        BY <2>3
      <3> QED BY <3>1, <3>2, <3>3
    <2> HIDE DEF G
    <2>4. \A k \in 0..C : k \in G
      BY <1>1, <2>2, <2>3, UpTo
    <2> QED BY <2>1, <2>4 DEF G, w
  <1> QED BY <1>3, <1>4 DEF Place, C

\* A list that is described by a sequence is sound.
LEMMA SlotFacts ==
    ASSUME NEW s, NEW S, Holds(slots[s], next, prev, S)
    PROVE  /\ S \subseteq Timers /\ Slot(s) = S
           /\ slots[s] # Null => prev[slots[s]] = Null
           /\ \A t \in S : next[t] # Null => prev[next[t]] = t
  <1>1. PICK n \in Nat : \E q \in [1..n -> Timers] :
            Chained(slots[s], next, prev, n, q) /\ S = Elements(n, q)
    BY DEF Holds
  <1>2. PICK q \in [1..n -> Timers] :
            Chained(slots[s], next, prev, n, q) /\ S = Elements(n, q)
    BY <1>1
  <1> DEFINE C == Cardinality(Timers)
             p == CHOOSE p : p = Walk(slots[s], next, p)
  <1>3. C \in Nat /\ n <= C /\ Null \notin Timers
    BY <1>2, LengthFacts, SlotAssumption DEF Chained
  <1>4. p = Walk(slots[s], next, p)
    BY <1>2, WalkFacts
  <1> HIDE DEF p
  <1>5. p = [k \in 0..C |-> Place(n, q, k + 1)]
    BY <1>2, <1>4, WalkFacts
  <1>6. Slot(s) = {p[k] : k \in DOMAIN p} \ {Null}
    BY DEF Slot, Walk, p
  <1> HIDE DEF C
  <1>7. Slot(s) = S
    <2>1. \A i \in 1..n : i - 1 \in 0..C /\ p[i - 1] = q[i] /\ q[i] # Null
      BY <1>3, <1>5 DEF Place
    <2>2. \A k \in 0..C : p[k] = Null \/ (1 + k \in 1..n /\ p[k] = q[1 + k])
      BY <1>3, <1>5 DEF Place
    <2>3. DOMAIN p = 0..C
      BY <1>5
    <2> QED BY <1>2, <1>6, <2>1, <2>2, <2>3 DEF Elements
  <1>8. slots[s] # Null => prev[slots[s]] = Null
    BY <1>2 DEF Chained
  <1>9. ASSUME NEW t \in S, next[t] # Null PROVE prev[next[t]] = t
    <2>1. PICK i \in 1..n : t = q[i]
      BY <1>2 DEF Elements
    <2>2. i # n
      BY <1>2, <1>9, <2>1 DEF Chained
    <2>3. i \in 1..(n - 1)
      BY <2>2
    <2> QED BY <1>2, <2>1, <2>3 DEF Chained
  <1> QED BY <1>2, <1>7, <1>8, <1>9 DEF Elements

\* The pointers agree on the timers of S.
SameLinks(nx, pv, nx2, pv2, S) == \A x \in S : nx2[x] = nx[x] /\ pv2[x] = pv[x]

\* What happens outside a list does not matter to it.
LEMMA FrameHolds ==
    ASSUME NEW f, NEW nx, NEW pv, NEW S, Holds(f, nx, pv, S),
           NEW nx2, NEW pv2, SameLinks(nx, pv, nx2, pv2, S)
    PROVE  Holds(f, nx2, pv2, S)
  <1>1. PICK n \in Nat : \E q \in [1..n -> Timers] :
            Chained(f, nx, pv, n, q) /\ S = Elements(n, q)
    BY DEF Holds
  <1>2. PICK q \in [1..n -> Timers] :
            Chained(f, nx, pv, n, q) /\ S = Elements(n, q)
    BY <1>1
  <1>3. \A i \in 1..n : nx2[q[i]] = nx[q[i]] /\ pv2[q[i]] = pv[q[i]]
    BY <1>2 DEF Elements, SameLinks
  <1>4. n > 0 => nx2[q[n]] = Null /\ pv2[q[1]] = Null
    BY <1>2, <1>3 DEF Chained
  <1>5. \A i \in 1..(n - 1) : nx2[q[i]] = q[i + 1] /\ pv2[q[i + 1]] = q[i]
    BY <1>2, <1>3 DEF Chained
  <1>6. Chained(f, nx2, pv2, n, q)
    BY <1>2, <1>4, <1>5 DEF Chained
  <1> QED BY <1>2, <1>6 DEF Holds

\* t is put in front of the list.
InFront(f, nx, pv, nx2, pv2, S, t) ==
    /\ nx2[t] = f /\ pv2[t] = Null
    /\ \A x \in S : nx2[x] = nx[x] /\ pv2[x] = IF x = f THEN t ELSE pv[x]

\* What add_timer() does to the list of a slot.
LEMMA FrontHolds ==
    ASSUME NEW f, NEW nx, NEW pv, NEW S, Holds(f, nx, pv, S), NEW t \in Timers, t \notin S,
           NEW nx2, NEW pv2, InFront(f, nx, pv, nx2, pv2, S, t)
    PROVE  Holds(t, nx2, pv2, S \cup {t})
  <1>1. PICK n \in Nat : \E q \in [1..n -> Timers] :
            Chained(f, nx, pv, n, q) /\ S = Elements(n, q)
    BY DEF Holds
  <1>2. PICK q \in [1..n -> Timers] :
            Chained(f, nx, pv, n, q) /\ S = Elements(n, q)
    BY <1>1
  <1> DEFINE r == [i \in 1..(n + 1) |-> IF i = 1 THEN t ELSE q[i - 1]]
  <1>3. /\ n + 1 \in Nat /\ r \in [1..(n + 1) -> Timers] /\ r[1] = t
        /\ \A i \in 1..n : i + 1 \in 1..(n + 1) /\ r[i + 1] = q[i]
        /\ \A i \in 2..(n + 1) : i - 1 \in 1..n /\ r[i] = q[i - 1]
    OBVIOUS
  <1> HIDE DEF r
  <1>4. \A i \in 1..n : q[i] \in S /\ q[i] # t
    BY <1>2 DEF Elements
  <1>5. \A i, j \in 1..(n + 1) : r[i] = r[j] => i = j
    <2> SUFFICES ASSUME NEW i \in 1..(n + 1), NEW j \in 1..(n + 1), r[i] = r[j] PROVE i = j
      OBVIOUS
    <2>1. CASE i = 1
      BY <2>1, <1>3, <1>4
    <2>2. CASE j = 1
      BY <2>2, <1>3, <1>4
    <2>3. CASE i # 1 /\ j # 1
      <3>1. i - 1 \in 1..n /\ j - 1 \in 1..n /\ q[i - 1] = q[j - 1]
        BY <2>3, <1>3
      <3>2. i - 1 = j - 1
        BY <3>1, <1>2 DEF Chained
      <3> QED BY <3>2
    <2> QED BY <2>1, <2>2, <2>3
  <1>6. n > 0 => f = q[1] /\ 1 \in 1..n /\ n \in 1..n
    BY <1>2 DEF Chained
  <1>7. \A i \in 1..n : q[i] = f <=> i = 1
    BY <1>2, <1>6 DEF Chained
  <1>8. nx2[r[n + 1]] = Null
    <2>1. CASE n = 0
      BY <2>1, <1>2, <1>3 DEF Chained, InFront
    <2>2. CASE n > 0
      BY <2>2, <1>2, <1>3, <1>4, <1>6 DEF Chained, InFront
    <2> QED BY <2>1, <2>2
  <1>9. ASSUME NEW i \in 1..((n + 1) - 1) PROVE nx2[r[i]] = r[i + 1] /\ pv2[r[i + 1]] = r[i]
    <2>1. i \in 1..n /\ n > 0
      OBVIOUS
    <2>2. CASE i = 1
      <3>1. r[i] = t /\ r[i + 1] = q[1] /\ q[1] = f /\ q[1] \in S
        BY <2>1, <2>2, <1>3, <1>4, <1>6
      <3> QED BY <3>1 DEF InFront
    <2>3. CASE i # 1
      <3>1. i - 1 \in 1..(n - 1) /\ (i - 1) + 1 = i /\ i - 1 \in 1..n
        BY <2>3
      <3>2. nx[q[i - 1]] = q[i] /\ pv[q[i]] = q[i - 1]
        BY <3>1, <1>2 DEF Chained
      <3>3. r[i] = q[i - 1] /\ r[i + 1] = q[i] /\ q[i] # f
        BY <2>1, <2>3, <1>3, <1>7
      <3>4. nx2[q[i - 1]] = nx[q[i - 1]] /\ pv2[q[i]] = pv[q[i]]
        BY <2>1, <3>1, <3>3, <1>4 DEF InFront
      <3> QED BY <3>2, <3>3, <3>4
    <2> QED BY <2>2, <2>3
  <1>10. pv2[r[1]] = Null
    BY <1>3 DEF InFront
  <1>11. Chained(t, nx2, pv2, n + 1, r)
    BY <1>3, <1>5, <1>8, <1>9, <1>10 DEF Chained
  <1>12. S \cup {t} = Elements(n + 1, r)
    <2>1. \A i \in 1..(n + 1) : r[i] \in S \cup {t}
      BY <1>3, <1>4
    <2>2. \A x \in S \cup {t} : \E i \in 1..(n + 1) : x = r[i]
      BY <1>2, <1>3, SMTT(30) DEF Elements
    <2> QED BY <2>1, <2>2 DEF Elements
  <1> QED BY <1>3, <1>11, <1>12 DEF Holds

\* The sequence without its p-th timer.
Remove(n, q, p) == [j \in 1..(n - 1) |-> IF j < p THEN q[j] ELSE q[j + 1]]

\* It is a sequence of the other timers.
LEMMA RemoveFacts ==
    ASSUME NEW n \in Nat, NEW q \in [1..n -> Timers],
           \A i, j \in 1..n : q[i] = q[j] => i = j,
           NEW p \in 1..n, NEW r, r = Remove(n, q, p)
    PROVE  /\ n - 1 \in Nat /\ r \in [1..(n - 1) -> Timers]
           /\ \A i, j \in 1..(n - 1) : r[i] = r[j] => i = j
           /\ Elements(n - 1, r) = Elements(n, q) \ {q[p]}
  <1>1. r = [j \in 1..(n - 1) |-> IF j < p THEN q[j] ELSE q[j + 1]]
    BY DEF Remove
  <1>2. r \in [1..(n - 1) -> Timers]
    BY <1>1
  <1>3. \A j \in 1..(n - 1) : \/ j < p /\ j \in 1..n /\ r[j] = q[j]
                              \/ j >= p /\ j + 1 \in 1..n /\ r[j] = q[j + 1]
    BY <1>1
  <1>4. \A i, j \in 1..(n - 1) : r[i] = r[j] => i = j
    <2> SUFFICES ASSUME NEW i \in 1..(n - 1), NEW j \in 1..(n - 1), r[i] = r[j]
                 PROVE  i = j
      OBVIOUS
    <2>1. CASE i < p
      BY <2>1, <1>3
    <2>2. CASE i >= p
      BY <2>2, <1>3
    <2> QED BY <2>1, <2>2
  <1>5. Elements(n - 1, r) = Elements(n, q) \ {q[p]}
    <2>1. \A j \in 1..(n - 1) : r[j] \in Elements(n, q) \ {q[p]}
      BY <1>3 DEF Elements
    <2>2. ASSUME NEW j \in 1..n, j # p PROVE q[j] \in Elements(n - 1, r)
      <3>1. CASE j < p
        BY <3>1, <1>1 DEF Elements
      <3>2. CASE j > p
        <4>1. j - 1 \in 1..(n - 1) /\ r[j - 1] = q[j]
          BY <3>2, <1>1
        <4> QED BY <4>1 DEF Elements
      <3> QED BY <3>1, <3>2, <2>2
    <2> QED BY <2>1, <2>2 DEF Elements
  <1> QED BY <1>2, <1>4, <1>5

\* The pointers after the p-th timer is taken out.
CutOut(f, nx, pv, f2, nx2, pv2, n, q, p) ==
    /\ f2 = IF p = 1 THEN Place(n, q, 2) ELSE f
    /\ p > 1 => nx2[q[p - 1]] = Place(n, q, p + 1)
    /\ p < n => pv2[q[p + 1]] = IF p = 1 THEN Null ELSE q[p - 1]
    /\ \A j \in 1..n : j # p - 1 /\ j # p => nx2[q[j]] = nx[q[j]]
    /\ \A j \in 1..n : j # p + 1 /\ j # p => pv2[q[j]] = pv[q[j]]

\* They are those of the other timers.
LEMMA CutChained ==
    ASSUME NEW f, NEW nx, NEW pv, NEW n, NEW q, Chained(f, nx, pv, n, q), NEW p \in 1..n,
           NEW f2, NEW nx2, NEW pv2, CutOut(f, nx, pv, f2, nx2, pv2, n, q, p)
    PROVE  Chained(f2, nx2, pv2, n - 1, Remove(n, q, p))
  <1> USE DEF CutOut
  <1> DEFINE r == Remove(n, q, p)
  <1>1. n \in Nat /\ n > 0
    BY DEF Chained
  <1>2. /\ r \in [1..(n - 1) -> Timers] /\ n - 1 \in Nat
        /\ \A i, j \in 1..(n - 1) : r[i] = r[j] => i = j
    BY RemoveFacts, SMTT(30) DEF Chained
  <1>3. \A j \in 1..(n - 1) : /\ j < p => r[j] = q[j]
                              /\ j >= p => r[j] = q[j + 1]
    BY DEF Remove
  <1> HIDE DEF r
  <1>4. f2 = IF n - 1 = 0 THEN Null ELSE r[1]
    <2>1. CASE p = 1
      BY <2>1, <1>1, <1>3 DEF Place
    <2>2. CASE p > 1
      BY <2>2, <1>1, <1>3 DEF Chained
    <2> QED BY <2>1, <2>2, <1>1
  <1>5. ASSUME n - 1 > 0 PROVE nx2[r[n - 1]] = Null
    <2>1. CASE p = n
      BY <1>5, <2>1, <1>1, <1>3 DEF Place
    <2>2. CASE p < n
      <3>1. r[n - 1] = q[n] /\ n \in 1..n /\ n # p - 1 /\ n # p
        BY <1>5, <2>2, <1>1, <1>3
      <3>2. nx[q[n]] = Null
        BY <1>1 DEF Chained
      <3> QED BY <3>1, <3>2
    <2> QED BY <2>1, <2>2, <1>1
  <1>6. ASSUME n - 1 > 0 PROVE pv2[r[1]] = Null
    <2>1. CASE p = 1
      BY <1>6, <2>1, <1>1, <1>3
    <2>2. CASE p > 1
      <3>1. r[1] = q[1] /\ 1 \in 1..n /\ 1 # p + 1 /\ 1 # p
        BY <1>6, <2>2, <1>1, <1>3
      <3>2. pv[q[1]] = Null
        BY <1>1 DEF Chained
      <3> QED BY <3>1, <3>2
    <2> QED BY <2>1, <2>2, <1>1
  <1>7. ASSUME NEW i \in 1..((n - 1) - 1)
        PROVE  nx2[r[i]] = r[i + 1] /\ pv2[r[i + 1]] = r[i]
    <2>0. \A j \in 1..(n - 1) : nx[q[j]] = q[j + 1] /\ pv[q[j + 1]] = q[j]
      BY DEF Chained
    <2>1. CASE i + 1 < p
      <3>1. r[i] = q[i] /\ r[i + 1] = q[i + 1] /\ i \in 1..(n - 1) /\ i + 1 \in 1..n /\ i \in 1..n
        BY <2>1, <1>1, <1>3
      <3> QED BY <2>0, <2>1, <3>1, <1>1
    <2>2. CASE i + 1 = p
      <3>1. r[i] = q[p - 1] /\ r[i + 1] = q[p + 1] /\ p > 1 /\ p < n /\ p + 1 <= n
        BY <2>2, <1>1, <1>3
      <3> QED BY <3>1, <1>1 DEF Place
    <2>3. CASE i >= p
      <3>1. /\ r[i] = q[i + 1] /\ r[i + 1] = q[(i + 1) + 1] /\ i + 1 \in 1..(n - 1)
            /\ i + 1 \in 1..n /\ (i + 1) + 1 \in 1..n
        BY <2>3, <1>1, <1>3
      <3>2. i + 1 # p - 1 /\ i + 1 # p /\ (i + 1) + 1 # p + 1 /\ (i + 1) + 1 # p
        BY <2>3, <1>1
      <3>3. nx2[q[i + 1]] = nx[q[i + 1]]
        BY <3>1, <3>2
      <3>4. pv2[q[(i + 1) + 1]] = pv[q[(i + 1) + 1]]
        BY <3>1, <3>2
      <3> QED BY <2>0, <3>1, <3>3, <3>4
    <2> QED BY <2>1, <2>2, <2>3, <1>1
  <1> QED BY <1>2, <1>4, <1>5, <1>6, <1>7 DEF Chained, r

\* The lines that take timer t out, in del_timer() and in tick().
Unlinked(f, nx, pv, f2, nx2, pv2, t) ==
    IF t = f
    THEN f2 = nx[t] /\ nx2 = nx
         /\ pv2 = [u \in Timers |-> IF u = nx[t] THEN Null ELSE pv[u]]
    ELSE f2 = f /\ nx2 = [nx EXCEPT ![pv[t]] = nx[t]]
         /\ pv2 = [u \in Timers |-> IF u = nx[t] THEN pv[t] ELSE pv[u]]

Pointers == [Timers -> Timers \cup {Null}]

\* They take t out of its list and touch no other list.
LEMMA UnlinkFacts ==
    ASSUME NEW f, NEW nx \in Pointers, NEW pv \in Pointers, NEW n, NEW q,
           Chained(f, nx, pv, n, q), NEW p \in 1..n,
           NEW f2, NEW nx2, NEW pv2, Unlinked(f, nx, pv, f2, nx2, pv2, q[p])
    PROVE  /\ f2 \in Timers \cup {Null} /\ nx2 \in Pointers /\ pv2 \in Pointers
           /\ Chained(f2, nx2, pv2, n - 1, Remove(n, q, p))
           /\ SameLinks(nx, pv, nx2, pv2, Timers \ Elements(n, q))
           /\ nx[q[p]] = Place(n, q, p + 1)
  <1>1. /\ n \in Nat /\ q \in [1..n -> Timers] /\ n > 0 /\ Null \notin Timers
        /\ \A i, j \in 1..n : q[i] = q[j] => i = j
        /\ \A i \in 1..n : q[i] \in Timers
        /\ f = q[1] /\ nx[q[n]] = Null /\ pv[q[1]] = Null
        /\ \A i \in 1..(n - 1) : nx[q[i]] = q[i + 1] /\ pv[q[i + 1]] = q[i]
    BY SlotAssumption DEF Chained
  <1>2. nx[q[p]] = Place(n, q, p + 1)
    <2>1. CASE p = n
      BY <1>1, <2>1 DEF Place
    <2>2. CASE p # n
      BY <1>1, <2>2 DEF Place
    <2> QED BY <2>1, <2>2
  <1>3. p > 1 => /\ pv[q[p]] = q[p - 1] /\ p - 1 \in 1..n /\ q[p - 1] \in Timers
                 /\ q[p] # f
    <2> SUFFICES ASSUME p > 1 PROVE pv[q[p]] = q[p - 1] /\ q[p] # f /\ p - 1 \in 1..n
      BY <1>1
    <2>1. p - 1 \in 1..(n - 1) /\ (p - 1) + 1 = p /\ 1 \in 1..n
      BY <1>1
    <2> QED BY <1>1, <2>1
  <1>4. f2 \in Timers \cup {Null} /\ nx2 \in Pointers /\ pv2 \in Pointers
    BY <1>1, <1>3, SMTT(30) DEF Unlinked, Pointers
  <1>5. \A j \in 1..n : q[j] = nx[q[p]] <=> j = p + 1
    <2> SUFFICES ASSUME NEW j \in 1..n PROVE q[j] = nx[q[p]] <=> j = p + 1
      OBVIOUS
    <2>1. CASE p = n
      BY <1>1, <1>2, <2>1 DEF Place
    <2>2. CASE p < n
      <3>1. p + 1 \in 1..n /\ nx[q[p]] = q[p + 1]
        BY <1>1, <1>2, <2>2 DEF Place
      <3> QED BY <1>1, <3>1
    <2> QED BY <2>1, <2>2, <1>1
  <1>6. CutOut(f, nx, pv, f2, nx2, pv2, n, q, p)
    <2>1. CASE p = 1
      <3>1. /\ f2 = Place(n, q, 2) /\ nx2 = nx
            /\ pv2 = [u \in Timers |-> IF u = nx[q[p]] THEN Null ELSE pv[u]]
        BY <1>1, <1>2, <2>1 DEF Unlinked
      <3>2. p < n => p + 1 \in 1..n /\ pv2[q[p + 1]] = Null
        BY <1>1, <1>5, <3>1, <2>1
      <3>3. \A j \in 1..n : j # p + 1 => pv2[q[j]] = pv[q[j]]
        BY <1>1, <1>5, <3>1
      <3> QED BY <2>1, <3>1, <3>2, <3>3 DEF CutOut
    <2>2. CASE p > 1
      <3>1. /\ f2 = f /\ nx2 = [nx EXCEPT ![q[p - 1]] = Place(n, q, p + 1)]
            /\ pv2 = [u \in Timers |-> IF u = nx[q[p]] THEN q[p - 1] ELSE pv[u]]
        BY <1>2, <1>3, <2>2 DEF Unlinked
      <3>2. p < n => p + 1 \in 1..n /\ pv2[q[p + 1]] = q[p - 1]
        BY <1>1, <1>5, <3>1
      <3>3. \A j \in 1..n : j # p + 1 => pv2[q[j]] = pv[q[j]]
        BY <1>1, <1>5, <3>1
      <3>4. nx2[q[p - 1]] = Place(n, q, p + 1)
        BY <1>3, <2>2, <3>1 DEF Pointers
      <3>5. \A j \in 1..n : j # p - 1 => nx2[q[j]] = nx[q[j]]
        BY <1>1, <1>3, <2>2, <3>1 DEF Pointers
      <3> QED BY <2>2, <3>1, <3>2, <3>3, <3>4, <3>5 DEF CutOut
    <2> QED BY <2>1, <2>2
  <1>7. ASSUME NEW x \in Timers \ Elements(n, q)
        PROVE  nx2[x] = nx[x] /\ pv2[x] = pv[x]
    <2>1. \A j \in 1..n : x # q[j]
      BY DEF Elements
    <2>2. x # nx[q[p]]
      <3>1. CASE p < n
        BY <1>1, <1>2, <2>1, <3>1 DEF Place
      <3>2. CASE p = n
        BY <1>1, <3>2
      <3> QED BY <3>1, <3>2, <1>1
    <2>3. CASE p = 1
      BY <1>1, <2>2, <2>3 DEF Unlinked
    <2>4. CASE p > 1
      <3>1. x # pv[q[p]]
        BY <1>3, <2>1, <2>4
      <3> QED BY <1>3, <2>2, <2>4, <3>1 DEF Unlinked, Pointers
    <2> QED BY <2>3, <2>4
  <1> QED BY <1>2, <1>4, <1>6, <1>7, CutChained DEF SameLinks
-----------------------------------------------------------------------------
(* The wheel of lists.                                                     *)
OnSlot(s) == {t \in live : time_slot[t] = s}

\* The inductive invariant: the list of every slot holds the timers whose
\* time_slot says so.
ListsInv ==
    /\ TypeOK
    /\ live \subseteq Timers /\ rotation \in [Timers -> Nat]
    /\ time_slot \in [Timers -> 0..(N - 1)]
    /\ \A s \in 0..(N - 1) : Holds(slots[s], next, prev, OnSlot(s))

\* The first pointer leads into the list.
LEMMA FirstFacts ==
    ASSUME NEW f, NEW nx, NEW pv, NEW S, Holds(f, nx, pv, S)
    PROVE  S \subseteq Timers /\ (f \in S \/ f = Null)
  <1>1. PICK n \in Nat : \E q \in [1..n -> Timers] :
            Chained(f, nx, pv, n, q) /\ S = Elements(n, q)
    BY DEF Holds
  <1>2. PICK q \in [1..n -> Timers] :
            Chained(f, nx, pv, n, q) /\ S = Elements(n, q)
    BY <1>1
  <1> QED BY <1>2 DEF Chained, Elements

\* The wheel starts empty.
LEMMA ListsInit == Init => ListsInv /\ Sets!Init
  <1> SUFFICES ASSUME Init PROVE ListsInv /\ Sets!Init
    OBVIOUS
  <1>n. N \in Nat \ {0} /\ 0 \in 0..(N - 1)
    BY WheelAssumption
  <1> DEFINE q == [i \in 1..0 |-> Null]
  <1>1. q \in [1..0 -> Timers] /\ 0 \in Nat /\ 1..0 = {}
    OBVIOUS
  <1>2. Chained(Null, next, prev, 0, q) /\ {} = Elements(0, q)
    BY <1>1 DEF Chained, Elements
  <1> HIDE DEF q
  <1>3. Holds(Null, next, prev, {})
    BY <1>1, <1>2 DEF Holds
  <1>4. \A s \in 0..(N - 1) : slots[s] = Null /\ OnSlot(s) = {}
    BY DEF Init, OnSlot
  <1>5. TypeOK
    BY <1>n DEF Init, TypeOK, AllNull
  <1>6. /\ live \subseteq Timers /\ rotation \in [Timers -> Nat]
        /\ time_slot \in [Timers -> 0..(N - 1)]
    BY <1>n DEF Init, Zeroes
  <1>7. Sets!Init
    BY DEF Init, Sets!Init, Zeroes
  <1> QED BY <1>3, <1>4, <1>5, <1>6, <1>7 DEF ListsInv

\* add_timer() puts the timer in front of the list of its slot.
LEMMA ListsAdd ==
    ASSUME ListsInv, NEW t \in Timers, NEW timeout \in Timeouts, add_timer(t, timeout)
    PROVE  ListsInv' /\ Sets!add_timer(t, timeout)
  <1> DEFINE o == Offset(timeout)
             d == SlotPos(cur_slot, o)
             first == slots[d]
  <1>1. o \in Nat /\ cur_slot \in 0..(N - 1)
    BY OffsetPositive DEF ListsInv, TypeOK
  <1> HIDE DEF o
  <1>2. Rotation(o) \in Nat /\ d \in 0..(N - 1)
    BY <1>1, SlotEncodesOffset
  <1>3. /\ t \notin live /\ live' = live \cup {t} /\ cur_slot' = cur_slot
        /\ rotation' = [rotation EXCEPT ![t] = Rotation(o)]
        /\ time_slot' = [time_slot EXCEPT ![t] = d]
        /\ slots' = [slots EXCEPT ![d] = t]
        /\ next' = [next EXCEPT ![t] = first]
        /\ prev' = [u \in Timers |-> IF u = t THEN Null
                                     ELSE IF u = first THEN t ELSE prev[u]]
    BY DEF add_timer, o
  <1> HIDE DEF d
  <1>4. Holds(first, next, prev, OnSlot(d)) /\ first \in Timers \cup {Null}
    BY <1>2 DEF ListsInv, TypeOK
  <1>5. first \in OnSlot(d) \/ first = Null
    BY <1>4, FirstFacts
  <1> HIDE DEF first
  <1>6. TypeOK'
    BY <1>1, <1>3, <1>4 DEF ListsInv, TypeOK
  <1>7. /\ live' \subseteq Timers /\ rotation' \in [Timers -> Nat]
        /\ time_slot' \in [Timers -> 0..(N - 1)]
    BY <1>2, <1>3 DEF ListsInv
  <1>8. \A x \in live : /\ x \in Timers /\ x # t /\ next'[x] = next[x]
                        /\ prev'[x] = IF x = first THEN t ELSE prev[x]
                        /\ time_slot'[x] = time_slot[x]
    BY <1>3 DEF ListsInv, TypeOK
  <1>9. next'[t] = first /\ prev'[t] = Null /\ time_slot'[t] = d
    BY <1>3 DEF ListsInv, TypeOK
  <1>10. ASSUME NEW s \in 0..(N - 1) PROVE Holds(slots'[s], next', prev', OnSlot(s)')
    <2>1. CASE s = d
      <3>1. slots'[s] = t /\ OnSlot(s)' = OnSlot(d) \cup {t} /\ t \notin OnSlot(d)
        BY <2>1, <1>2, <1>3, <1>8, <1>9 DEF OnSlot, ListsInv, TypeOK
      <3>2. InFront(first, next, prev, next', prev', OnSlot(d), t)
        BY <1>8, <1>9 DEF InFront, OnSlot
      <3> QED BY <1>4, <3>1, <3>2, FrontHolds
    <2>2. CASE s # d
      <3>1. slots'[s] = slots[s] /\ OnSlot(s)' = OnSlot(s)
        BY <2>2, <1>3, <1>8, <1>9 DEF OnSlot, ListsInv, TypeOK
      <3>2. \A x \in OnSlot(s) : x # first
        <4>1. \A x \in OnSlot(s) : x \in Timers /\ x \notin OnSlot(d)
          BY <2>2 DEF OnSlot, ListsInv
        <4> QED BY <4>1, <1>5, SlotAssumption
      <3>3. SameLinks(next, prev, next', prev', OnSlot(s))
        BY <1>8, <3>2 DEF SameLinks, OnSlot
      <3>4. Holds(slots[s], next, prev, OnSlot(s))
        BY DEF ListsInv
      <3> QED BY <3>1, <3>3, <3>4, FrameHolds
    <2> QED BY <2>1, <2>2
  <1>11. ListsInv'
    BY <1>6, <1>7, <1>10 DEF ListsInv
  <1>12. Sets!add_timer(t, timeout)
    BY SameArith DEF add_timer, Sets!add_timer
  <1> QED BY <1>11, <1>12

\* When the pointers of w hold every timer but those of T, the rest of the wheel
\* is in order after those are deleted.
LEMMA InstallStep ==
    ASSUME ListsInv, NEW w, NEW T, Install(w, T),
           w.slots \in [0..(N - 1) -> Timers \cup {Null}],
           w.next \in Pointers, w.prev \in Pointers,
           \A s \in 0..(N - 1) : Holds(w.slots[s], w.next, w.prev, OnSlot(s) \ T),
           rotation' \in [Timers -> Nat], cur_slot' \in 0..(N - 1)
    PROVE  ListsInv'
  <1>n. N \in Nat \ {0} /\ 0 \in 0..(N - 1)
    BY WheelAssumption
  <1>1. TypeOK'
    BY DEF Install, TypeOK, Pointers
  <1>2. live' \subseteq Timers /\ time_slot' \in [Timers -> 0..(N - 1)]
    BY <1>n DEF Install, ListsInv
  <1>3. ASSUME NEW s \in 0..(N - 1) PROVE Holds(slots'[s], next', prev', OnSlot(s)')
    <2>1. OnSlot(s)' = OnSlot(s) \ T /\ slots'[s] = w.slots[s]
      BY DEF OnSlot, Install, ListsInv
    <2>2. SameLinks(w.next, w.prev, next', prev', OnSlot(s) \ T)
      BY DEF SameLinks, OnSlot, Install, ListsInv
    <2> QED BY <2>1, <2>2, FrameHolds
  <1> QED BY <1>1, <1>2, <1>3 DEF ListsInv

\* Where a timer of a slot is in the list of the slot.
LEMMA ListOf ==
    ASSUME ListsInv, NEW s \in 0..(N - 1)
    PROVE  \E n \in Nat : \E q \in [1..n -> Timers] :
              Chained(slots[s], next, prev, n, q) /\ OnSlot(s) = Elements(n, q)
  BY DEF ListsInv, Holds

\* The other slots have other timers.
LEMMA OtherSlots ==
    ASSUME ListsInv, NEW s, NEW d, s # d
    PROVE  OnSlot(s) \subseteq Timers \ OnSlot(d)
  BY DEF OnSlot, ListsInv

\* del_timer() takes the timer out of the list of its slot.
LEMMA ListsDel ==
    ASSUME ListsInv, NEW t \in Timers, del_timer(t)
    PROVE  ListsInv' /\ Sets!del_timer(t)
  <1> DEFINE w == [slots |-> slots, next |-> next, prev |-> prev]
             s == time_slot[t]
             u == Unlink(w, s, t)
  <1>1. s \in 0..(N - 1) /\ t \in live
    BY DEF del_timer, ListsInv
  <1>2. PICK n \in Nat : \E q \in [1..n -> Timers] :
            Chained(slots[s], next, prev, n, q) /\ OnSlot(s) = Elements(n, q)
    BY <1>1, ListOf
  <1>3. PICK q \in [1..n -> Timers] :
            Chained(slots[s], next, prev, n, q) /\ OnSlot(s) = Elements(n, q)
    BY <1>2
  <1>4. PICK p \in 1..n : t = q[p]
    BY <1>1, <1>3 DEF OnSlot, Elements
  <1>5. next \in Pointers /\ prev \in Pointers /\ slots \in [0..(N - 1) -> Timers \cup {Null}]
    BY DEF ListsInv, TypeOK, Pointers
  <1>6. /\ Unlinked(slots[s], next, prev, u.slots[s], u.next, u.prev, t)
        /\ u.slots = [slots EXCEPT ![s] = u.slots[s]]
    BY <1>1, <1>5 DEF Unlink, Unlinked
  <1>7. Install(u, {t})
    BY DEF del_timer
  <1> HIDE DEF s, u
  <1>8. /\ u.slots[s] \in Timers \cup {Null} /\ u.next \in Pointers /\ u.prev \in Pointers
        /\ Chained(u.slots[s], u.next, u.prev, n - 1, Remove(n, q, p))
        /\ SameLinks(next, prev, u.next, u.prev, Timers \ Elements(n, q))
    BY <1>3, <1>4, <1>5, <1>6, UnlinkFacts
  <1>9. ASSUME NEW d \in 0..(N - 1)
        PROVE  Holds(u.slots[d], u.next, u.prev, OnSlot(d) \ {t})
    <2>1. CASE d = s
      <3> DEFINE r == Remove(n, q, p)
      <3>1. r = Remove(n, q, p) /\ \A i, j \in 1..n : q[i] = q[j] => i = j
        BY <1>3 DEF Chained
      <3> HIDE DEF r
      <3>2. /\ n - 1 \in Nat /\ r \in [1..(n - 1) -> Timers]
            /\ Elements(n - 1, r) = Elements(n, q) \ {q[p]}
        <4>1. Elements(n - 1, r) = Elements(n, q) \ {q[p]}
          BY <3>1, RemoveFacts
        <4>2. n - 1 \in Nat /\ r \in [1..(n - 1) -> Timers]
          BY <3>1, RemoveFacts
        <4> QED BY <4>1, <4>2
      <3>3. Elements(n - 1, r) = OnSlot(s) \ {t}
        BY <1>3, <1>4, <3>2
      <3> QED BY <2>1, <3>2, <3>3, <1>8 DEF Holds, r
    <2>2. CASE d # s
      <3>1. u.slots[d] = slots[d]
        BY <2>2, <1>5, <1>6
      <3>2. OnSlot(d) \subseteq Timers \ Elements(n, q) /\ t \notin OnSlot(d)
        BY <2>2, <1>3, <1>4, OtherSlots DEF Elements
      <3>3. SameLinks(next, prev, u.next, u.prev, OnSlot(d)) /\ OnSlot(d) \ {t} = OnSlot(d)
        BY <1>8, <3>2 DEF SameLinks
      <3>4. Holds(slots[d], next, prev, OnSlot(d))
        BY DEF ListsInv
      <3> QED BY <3>1, <3>3, <3>4, FrameHolds
    <2> QED BY <2>1, <2>2
  <1>10. rotation' \in [Timers -> Nat] /\ cur_slot' \in 0..(N - 1)
    BY DEF del_timer, ListsInv, TypeOK
  <1>11. u.slots \in [0..(N - 1) -> Timers \cup {Null}]
    BY <1>1, <1>5, <1>6, <1>8
  <1>12. ListsInv'
    BY <1>7, <1>8, <1>9, <1>10, <1>11, InstallStep
  <1>13. Sets!del_timer(t)
    <2>1. live' = live \ {t} /\ time_slot' = [time_slot EXCEPT ![t] = 0]
      BY <1>7 DEF Install, ListsInv
    <2> QED BY <2>1 DEF del_timer, Sets!del_timer
  <1> QED BY <1>12, <1>13
-----------------------------------------------------------------------------
(* The walk of tick() along the list of the current slot: n and q are its  *)
(* timers when it begins, and m of them are behind it.                     *)
Walking == [slots : [0..(N - 1) -> Timers \cup {Null}], next : Pointers, prev : Pointers,
            rotation : [Timers -> Nat], tmp : Timers \cup {Null}, fired : SUBSET Timers]

\* The list holds what has not fired; what the walk has still to visit is the
\* end of it, in the old order.
Rest(w, n, q, m, c, r) ==
    /\ Chained(w.slots[cur_slot], w.next, w.prev, c, r)
    /\ Elements(c, r) = Elements(n, q) \ w.fired
    /\ c >= n - m
    /\ \A j \in 1..(n - m) : r[c - (n - m) + j] = q[m + j]

Turned(w, n, q, m) ==
    /\ w \in Walking
    /\ w.tmp = Place(n, q, m + 1)
    /\ w.fired = {x \in Elements(m, q) : rotation[x] = 0}
    /\ w.rotation = [x \in Timers |-> IF x \in Elements(m, q) /\ rotation[x] > 0
                                      THEN rotation[x] - 1 ELSE rotation[x]]
    /\ \A s \in 0..(N - 1) : s # cur_slot => w.slots[s] = slots[s]
    /\ SameLinks(next, prev, w.next, w.prev, Timers \ Elements(n, q))
    /\ \E c \in Nat : \E r \in [1..c -> Timers] : Rest(w, n, q, m, c, r)

\* The timer tmp points at is the p-th of the list as it is now.
Visited(n, q, m, c, r, p) ==
    /\ p = c - (n - m) + 1 /\ p \in 1..c /\ r[p] = q[m + 1]
    /\ Place(c, r, p + 1) = Place(n, q, (m + 1) + 1)
    /\ \A j \in 1..(n - (m + 1)) : p + j \in 1..c /\ r[p + j] = q[(m + 1) + j]

\* There is such a place.
LEMMA RestFacts ==
    ASSUME NEW w, NEW n \in Nat, NEW q \in [1..n -> Timers], NEW m \in 0..(n - 1),
           NEW c \in Nat, NEW r \in [1..c -> Timers], Rest(w, n, q, m, c, r)
    PROVE  \E p \in Nat : Visited(n, q, m, c, r, p)
  <1> DEFINE p == c - (n - m) + 1
  <1>1. p \in 1..c
    BY DEF Rest
  <1>2. r[p] = q[m + 1]
    <2>1. 1 \in 1..(n - m)
      OBVIOUS
    <2> QED BY <2>1 DEF Rest
  <1>3. ASSUME NEW j \in 1..(n - (m + 1))
        PROVE  p + j \in 1..c /\ r[p + j] = q[(m + 1) + j]
    <2>1. /\ j + 1 \in 1..(n - m) /\ p + j = c - (n - m) + (j + 1)
          /\ (m + 1) + j = m + (j + 1)
      OBVIOUS
    <2>2. r[c - (n - m) + (j + 1)] = q[m + (j + 1)]
      BY <2>1 DEF Rest
    <2> QED BY <2>1, <2>2, <1>1
  <1>4. Place(c, r, p + 1) = Place(n, q, (m + 1) + 1)
    <2>1. CASE m + 1 = n
      BY <2>1 DEF Place
    <2>2. CASE m + 1 < n
      <3>1. 1 \in 1..(n - (m + 1))
        BY <2>2
      <3>2. p + 1 \in 1..c /\ r[p + 1] = q[(m + 1) + 1]
        BY <3>1, <1>3
      <3>3. p + 1 <= c /\ (m + 1) + 1 <= n
        BY <2>2, <3>2
      <3> QED BY <3>2, <3>3 DEF Place
    <2> QED BY <2>1, <2>2
  <1> HIDE DEF p
  <1>5. p = c - (n - m) + 1 /\ p \in Nat
    BY <1>1 DEF p
  <1>6. Visited(n, q, m, c, r, p)
    BY <1>1, <1>2, <1>3, <1>4, <1>5 DEF Visited
  <1> QED BY <1>5, <1>6

\* One more timer is behind the walk.
LEMMA OneMore ==
    ASSUME NEW n \in Nat, NEW q \in [1..n -> Timers], \A i, j \in 1..n : q[i] = q[j] => i = j,
           NEW m \in 0..(n - 1)
    PROVE  /\ Elements(m + 1, q) = Elements(m, q) \cup {q[m + 1]}
           /\ q[m + 1] \notin Elements(m, q) /\ q[m + 1] \in Elements(n, q)
           /\ Elements(m, q) \subseteq Timers /\ q[m + 1] \in Timers
           /\ Elements(m, q) \subseteq Elements(n, q)
  <1>1. /\ m + 1 \in 1..n /\ 1..(m + 1) = (1..m) \cup {m + 1}
        /\ \A i \in 1..m : i \in 1..n /\ i # m + 1
    OBVIOUS
  <1>2. Elements(m + 1, q) = Elements(m, q) \cup {q[m + 1]}
    BY <1>1 DEF Elements
  <1>3. q[m + 1] \notin Elements(m, q)
    BY <1>1 DEF Elements
  <1>4. q[m + 1] \in Elements(n, q) /\ Elements(m, q) \subseteq Elements(n, q)
    BY <1>1 DEF Elements
  <1> QED BY <1>1, <1>2, <1>3, <1>4 DEF Elements

\* What one turn of the loop does to the record: a timer with rotations left
\* loses one of them,
LEMMA TurnPasses ==
    ASSUME NEW w \in Walking, w.tmp \in Timers, w.rotation[w.tmp] > 0,
           NEW v, v = TickTurn(w)
    PROVE  /\ v.slots = w.slots /\ v.next = w.next /\ v.prev = w.prev
           /\ v.fired = w.fired /\ v.tmp = w.next[w.tmp]
           /\ v.rotation = [w.rotation EXCEPT ![w.tmp] = @ - 1]
           /\ v \in Walking
  <1>1. w.tmp # Null /\ w.next[w.tmp] \in Timers \cup {Null}
    BY SlotAssumption DEF Walking, Pointers
  <1>2. v = [w EXCEPT !.rotation[w.tmp] = @ - 1, !.tmp = w.next[w.tmp]]
    BY <1>1 DEF TickTurn
  <1>3. /\ v.slots = w.slots /\ v.next = w.next /\ v.prev = w.prev
        /\ v.fired = w.fired /\ v.tmp = w.next[w.tmp]
        /\ v.rotation = [w.rotation EXCEPT ![w.tmp] = @ - 1]
    BY <1>2 DEF Walking
  <1>4. [w.rotation EXCEPT ![w.tmp] = @ - 1] \in [Timers -> Nat]
    BY DEF Walking
  <1>5. v \in Walking
    BY <1>1, <1>2, <1>4 DEF Walking
  <1> QED BY <1>3, <1>5

\* another one fires and is unlinked.
LEMMA TurnFires ==
    ASSUME ListsInv, NEW w \in Walking, w.tmp \in Timers, ~(w.rotation[w.tmp] > 0),
           NEW v, v = TickTurn(w)
    PROVE  /\ Unlinked(w.slots[cur_slot], w.next, w.prev,
                       v.slots[cur_slot], v.next, v.prev, w.tmp)
           /\ v.slots = [w.slots EXCEPT ![cur_slot] = v.slots[cur_slot]]
           /\ v.fired = w.fired \cup {w.tmp} /\ v.tmp = w.next[w.tmp]
           /\ v.rotation = w.rotation
           /\ v = [slots |-> v.slots, next |-> v.next, prev |-> v.prev,
                   rotation |-> v.rotation, tmp |-> v.tmp, fired |-> v.fired]
  <1>1. w.tmp # Null /\ w.next[w.tmp] \in Timers \cup {Null} /\ cur_slot \in 0..(N - 1)
    BY SlotAssumption DEF Walking, Pointers, ListsInv, TypeOK
  <1>2. v = [Unlink(w, cur_slot, w.tmp) EXCEPT !.tmp = w.next[w.tmp],
                                               !.fired = @ \cup {w.tmp}]
    BY <1>1 DEF TickTurn
  <1>3. CASE w.tmp = w.slots[cur_slot]
    <2> DEFINE a == [w.slots EXCEPT ![cur_slot] = w.next[w.tmp]]
               b == [u \in Timers |-> IF u = w.next[w.tmp] THEN Null ELSE w.prev[u]]
    <2>1. v = [slots |-> a, next |-> w.next, prev |-> b, rotation |-> w.rotation,
               tmp |-> w.next[w.tmp], fired |-> w.fired \cup {w.tmp}]
      BY <1>2, <1>3 DEF Unlink, Walking
    <2>2. a[cur_slot] = w.next[w.tmp]
      BY <1>1 DEF Walking
    <2> HIDE DEF a
    <2>3. v.slots = a /\ v.next = w.next /\ v.prev = b
      BY <2>1
    <2>4. v.slots = [w.slots EXCEPT ![cur_slot] = v.slots[cur_slot]]
      BY <2>2, <2>3 DEF a
    <2>5. Unlinked(w.slots[cur_slot], w.next, w.prev,
                   v.slots[cur_slot], v.next, v.prev, w.tmp)
      BY <1>3, <2>2, <2>3 DEF Unlinked
    <2> HIDE DEF b
    <2> QED BY <2>1, <2>4, <2>5
  <1>4. CASE w.tmp # w.slots[cur_slot]
    <2> DEFINE a == [w.next EXCEPT ![w.prev[w.tmp]] = w.next[w.tmp]]
               b == [u \in Timers |-> IF u = w.next[w.tmp] THEN w.prev[w.tmp] ELSE w.prev[u]]
    <2>1. v = [slots |-> w.slots, next |-> a, prev |-> b, rotation |-> w.rotation,
               tmp |-> w.next[w.tmp], fired |-> w.fired \cup {w.tmp}]
      BY <1>2, <1>4 DEF Unlink, Walking
    <2>2. v.slots = w.slots /\ v.next = a /\ v.prev = b
      <3> HIDE DEF a, b
      <3> QED BY <2>1
    <2>3. v.slots = [w.slots EXCEPT ![cur_slot] = v.slots[cur_slot]]
      BY <2>2 DEF Walking
    <2>4. Unlinked(w.slots[cur_slot], w.next, w.prev,
                   v.slots[cur_slot], v.next, v.prev, w.tmp)
      BY <1>4, <2>2 DEF Unlinked
    <2> HIDE DEF a, b
    <2> QED BY <2>1, <2>3, <2>4
  <1> QED BY <1>3, <1>4

\* A turn of the loop takes the walk one timer further.
LEMMA TurnStep ==
    ASSUME ListsInv, NEW n \in Nat, NEW q \in [1..n -> Timers],
           \A i, j \in 1..n : q[i] = q[j] => i = j,
           NEW m \in 0..(n - 1), NEW w, Turned(w, n, q, m)
    PROVE  Turned(TickTurn(w), n, q, m + 1)
  <1> DEFINE v == TickTurn(w)
             x == q[m + 1]
  <1>1. /\ w \in Walking /\ w.tmp = x /\ x \in Timers /\ x \notin Elements(m, q)
        /\ x \in Elements(n, q) /\ Elements(m + 1, q) = Elements(m, q) \cup {x}
        /\ Elements(m, q) \subseteq Timers /\ Elements(m, q) \subseteq Elements(n, q)
    BY OneMore, SMTT(30) DEF Turned, Place
  <1>2. w.rotation[x] = rotation[x] /\ rotation[x] \in Nat
    BY <1>1 DEF Turned, ListsInv
  <1>3. PICK c \in Nat : \E r \in [1..c -> Timers] : Rest(w, n, q, m, c, r)
    BY DEF Turned
  <1>4. PICK r \in [1..c -> Timers] : Rest(w, n, q, m, c, r)
    BY <1>3
  <1>p. PICK p \in Nat : Visited(n, q, m, c, r, p)
    BY <1>4, RestFacts
  <1>5. /\ p \in 1..c /\ r[p] = x
        /\ Place(c, r, p + 1) = Place(n, q, (m + 1) + 1)
        /\ \A j \in 1..(n - (m + 1)) : p + j \in 1..c /\ r[p + j] = q[(m + 1) + j]
    BY <1>p DEF Visited
  <1>6. cur_slot \in 0..(N - 1) /\ w.next \in Pointers /\ w.prev \in Pointers
    BY <1>1 DEF ListsInv, TypeOK, Walking
  <1>7. c \in Nat /\ c - (n - (m + 1)) = p /\ c >= n - (m + 1)
    BY <1>4, <1>p DEF Rest, Visited
  <1>n. w.next[x] = Place(c, r, p + 1)
    <2>1. CASE p = c
      BY <1>4, <1>5, <2>1 DEF Rest, Chained, Place
    <2>2. CASE p < c
      BY <1>4, <1>5, <2>2 DEF Rest, Chained, Place
    <2> QED BY <1>5, <2>1, <2>2
  <1> HIDE DEF x, v
  <1>8. CASE rotation[x] > 0
    <2>1. /\ v.slots = w.slots /\ v.next = w.next /\ v.prev = w.prev
          /\ v.fired = w.fired /\ v.tmp = w.next[x]
          /\ v.rotation = [w.rotation EXCEPT ![x] = @ - 1]
          /\ v \in Walking
      BY <1>1, <1>2, <1>8, TurnPasses DEF v
    <2>2. v.tmp = Place(n, q, (m + 1) + 1)
      BY <1>n, <1>5, <2>1
    <2>3. v.fired = {y \in Elements(m + 1, q) : rotation[y] = 0}
      BY <1>1, <1>8, <2>1 DEF Turned
    <2>4. v.rotation = [y \in Timers |-> IF y \in Elements(m + 1, q) /\ rotation[y] > 0
                                         THEN rotation[y] - 1 ELSE rotation[y]]
      BY <1>1, <1>2, <1>8, <2>1 DEF Turned
    <2>5. Rest(v, n, q, m + 1, c, r)
      <3>1. /\ Chained(v.slots[cur_slot], v.next, v.prev, c, r)
            /\ Elements(c, r) = Elements(n, q) \ v.fired
        BY <1>4, <2>1 DEF Rest
      <3>2. \A j \in 1..(n - (m + 1)) : r[c - (n - (m + 1)) + j] = q[(m + 1) + j]
        BY <1>5, <1>7
      <3> QED BY <1>7, <3>1, <3>2 DEF Rest
    <2>6. /\ \A s \in 0..(N - 1) : s # cur_slot => v.slots[s] = slots[s]
          /\ SameLinks(next, prev, v.next, v.prev, Timers \ Elements(n, q))
      BY <2>1 DEF Turned
    <2> QED BY <2>1, <2>2, <2>3, <2>4, <2>5, <2>6 DEF Turned, v
  <1>9. CASE rotation[x] = 0
    <2> DEFINE r2 == Remove(c, r, p)
    <2>1. /\ Unlinked(w.slots[cur_slot], w.next, w.prev,
                      v.slots[cur_slot], v.next, v.prev, x)
          /\ v.slots = [w.slots EXCEPT ![cur_slot] = v.slots[cur_slot]]
          /\ v.fired = w.fired \cup {x} /\ v.tmp = w.next[x]
          /\ v.rotation = w.rotation
          /\ v = [slots |-> v.slots, next |-> v.next, prev |-> v.prev,
                  rotation |-> v.rotation, tmp |-> v.tmp, fired |-> v.fired]
      BY <1>1, <1>2, <1>9, TurnFires DEF v
    <2>2. /\ v.slots[cur_slot] \in Timers \cup {Null} /\ v.next \in Pointers /\ v.prev \in Pointers
          /\ Chained(v.slots[cur_slot], v.next, v.prev, c - 1, r2)
          /\ SameLinks(w.next, w.prev, v.next, v.prev, Timers \ Elements(c, r))
          /\ w.next[x] = Place(c, r, p + 1)
      <3> DEFINE f == w.slots[cur_slot]
                 f2 == v.slots[cur_slot]
      <3>1. /\ Chained(f, w.next, w.prev, c, r)
            /\ Unlinked(f, w.next, w.prev, f2, v.next, v.prev, r[p])
        BY <1>4, <1>5, <2>1 DEF Rest
      <3> HIDE DEF f, f2, r2
      <3>2. f2 \in Timers \cup {Null} /\ v.next \in Pointers /\ v.prev \in Pointers
        BY <1>5, <1>6, <3>1, UnlinkFacts
      <3>3. Chained(f2, v.next, v.prev, c - 1, Remove(c, r, p))
        BY <1>5, <1>6, <3>1, UnlinkFacts
      <3>4. SameLinks(w.next, w.prev, v.next, v.prev, Timers \ Elements(c, r))
        BY <1>5, <1>6, <3>1, UnlinkFacts
      <3> QED BY <1>n, <3>2, <3>3, <3>4 DEF f2, r2
    <2>3. v.tmp = Place(n, q, (m + 1) + 1)
      BY <1>5, <2>1, <2>2
    <2>4. v.fired = {y \in Elements(m + 1, q) : rotation[y] = 0}
      BY <1>1, <1>9, <2>1 DEF Turned
    <2>5. v.rotation = [y \in Timers |-> IF y \in Elements(m + 1, q) /\ rotation[y] > 0
                                         THEN rotation[y] - 1 ELSE rotation[y]]
      BY <1>1, <1>9, <2>1 DEF Turned
    <2>6. v \in Walking
      <3>1. v.slots \in [0..(N - 1) -> Timers \cup {Null}]
        BY <1>1, <1>6, <2>1, <2>2 DEF Walking
      <3>2. /\ v.rotation \in [Timers -> Nat] /\ v.tmp \in Timers \cup {Null}
            /\ v.fired \in SUBSET Timers
        BY <1>1, <1>6, <2>1 DEF Walking, Pointers
      <3> QED BY <2>1, <2>2, <3>1, <3>2 DEF Walking
    <2>7. \A s \in 0..(N - 1) : s # cur_slot => v.slots[s] = slots[s]
      BY <1>1, <2>1 DEF Turned, Walking
    <2>8. SameLinks(next, prev, v.next, v.prev, Timers \ Elements(n, q))
      <3>1. Elements(c, r) \subseteq Elements(n, q)
        BY <1>4 DEF Rest
      <3> QED BY <2>2, <3>1 DEF Turned, SameLinks
    <2>9. /\ c - 1 \in Nat /\ r2 \in [1..(c - 1) -> Timers]
          /\ Elements(c - 1, r2) = Elements(c, r) \ {x}
      <3>1. r2 = Remove(c, r, p) /\ \A i, j \in 1..c : r[i] = r[j] => i = j
        BY <1>4 DEF Rest, Chained
      <3>2. p \in 1..c
        BY <1>5
      <3> HIDE DEF r2
      <3>3. Elements(c - 1, r2) = Elements(c, r) \ {r[p]}
        BY <3>1, <3>2, RemoveFacts
      <3>4. c - 1 \in Nat /\ r2 \in [1..(c - 1) -> Timers]
        BY <3>1, <3>2, RemoveFacts
      <3> QED BY <1>5, <3>3, <3>4
    <2>10. ASSUME NEW j \in 1..(n - (m + 1))
           PROVE  r2[(c - 1) - (n - (m + 1)) + j] = q[(m + 1) + j]
      <3>1. p + j \in 1..c /\ r[p + j] = q[(m + 1) + j]
        BY <1>5
      <3>2. /\ (c - 1) - (n - (m + 1)) + j = p + j - 1 /\ p + j - 1 \in 1..(c - 1)
            /\ p + j - 1 >= p /\ (p + j - 1) + 1 = p + j
        BY <1>5, <1>7, <3>1
      <3>3. r2[p + j - 1] = r[p + j]
        BY <1>5, <3>2 DEF Remove
      <3> QED BY <3>1, <3>2, <3>3
    <2> HIDE DEF r2
    <2>11. Rest(v, n, q, m + 1, c - 1, r2)
      <3>1. Elements(c - 1, r2) = Elements(n, q) \ v.fired
        BY <1>4, <2>1, <2>9 DEF Rest
      <3>2. c - 1 >= n - (m + 1)
        BY <1>5, <1>7
      <3> QED BY <2>2, <2>10, <3>1, <3>2 DEF Rest
    <2> QED BY <2>3, <2>4, <2>5, <2>6, <2>7, <2>8, <2>9, <2>11 DEF Turned, v
  <1> QED BY <1>2, <1>8, <1>9

\* The loop of tick(), turn by turn, and the record it ends with.
Begin == [slots |-> slots, next |-> next, prev |-> prev,
          rotation |-> rotation, tmp |-> slots[cur_slot], fired |-> {}]
Turns(c, p) == [k \in 0..c |-> IF k = 0 THEN Begin ELSE TickTurn(p[k - 1])]
End == (CHOOSE p : p = Turns(Cardinality(Timers), p))[Cardinality(Timers)]

\* Every number of turns can be taken.
LEMMA TurnsExist ==
    ASSUME NEW c \in Nat
    PROVE  \E p : p = Turns(c, p)
  <1> DEFINE G == {k \in 0..c : \E p : p = Turns(k, p)}
  <1>1. 0 \in G
    <2> DEFINE p == [k \in 0..0 |-> Begin]
    <2>1. p = Turns(0, p)
      BY DEF Turns
    <2> QED BY <2>1
  <1>2. ASSUME NEW k \in 0..(c - 1), k \in G PROVE k + 1 \in G
    <2>1. PICK p : p = Turns(k, p)
      BY <1>2
    <2> DEFINE z == TickTurn(p[k])
               u == [j \in 0..(k + 1) |-> IF j = k + 1 THEN z ELSE p[j]]
    <2>2. \A j \in 0..k : p[j] = IF j = 0 THEN Begin ELSE TickTurn(p[j - 1])
      BY <2>1 DEF Turns
    <2> HIDE DEF z
    <2>3. /\ \A j \in 0..k : j \in 0..(k + 1) /\ j # k + 1 /\ u[j] = p[j]
          /\ k + 1 \in 0..(k + 1) /\ u[k + 1] = z
      OBVIOUS
    <2>4. ASSUME NEW j \in 0..(k + 1)
          PROVE  u[j] = IF j = 0 THEN Begin ELSE TickTurn(u[j - 1])
      <3>1. CASE j = k + 1
        <4>1. j # 0 /\ j - 1 = k /\ k \in 0..k
          BY <3>1
        <4>2. u[j - 1] = p[k]
          BY <4>1, <2>3
        <4> HIDE DEF u
        <4>3. u[j] = z
          BY <3>1, <2>3
        <4> QED BY <4>1, <4>2, <4>3 DEF z
      <3>2. CASE j = 0
        <4> HIDE DEF u
        <4> QED BY <3>2, <2>2, <2>3
      <3>3. CASE j # 0 /\ j # k + 1
        <4>1. j \in 0..k /\ j - 1 \in 0..k
          BY <3>3
        <4> HIDE DEF u
        <4>2. u[j] = p[j] /\ u[j - 1] = p[j - 1]
          BY <4>1, <2>3
        <4> QED BY <3>3, <4>1, <4>2, <2>2
      <3> QED BY <3>1, <3>2, <3>3
    <2>5. u = [j \in 0..(k + 1) |-> u[j]]
      OBVIOUS
    <2> HIDE DEF u
    <2>6. u = Turns(k + 1, u)
      BY <2>4, <2>5 DEF Turns
    <2>7. k + 1 \in 0..c
      OBVIOUS
    <2> QED BY <2>6, <2>7
  <1> HIDE DEF G
  <1>3. \A k \in 0..c : k \in G
    BY <1>1, <1>2, UpTo
  <1> QED BY <1>3 DEF G

\* After all turns the whole list is behind the walk.
LEMMA EndFacts ==
    ASSUME ListsInv, NEW n \in Nat, NEW q \in [1..n -> Timers],
           Chained(slots[cur_slot], next, prev, n, q)
    PROVE  Turned(End, n, q, n)
  <1> DEFINE C == Cardinality(Timers)
             W == CHOOSE p : p = Turns(C, p)
             At(k) == IF k <= n THEN k ELSE n
  <1>1. /\ C \in Nat /\ n <= C /\ Null \notin Timers
        /\ \A i, j \in 1..n : q[i] = q[j] => i = j
    BY LengthFacts, SlotAssumption DEF Chained
  <1> HIDE DEF C
  <1>2. \E p : p = Turns(C, p)
    BY <1>1, TurnsExist
  <1>3. W = Turns(C, W)
    BY <1>2
  <1> HIDE DEF W
  <1>4. W[0] = Begin /\ \A k \in 0..(C - 1) : W[k + 1] = TickTurn(W[k])
    <2>1. \A k \in 0..C : W[k] = IF k = 0 THEN Begin ELSE TickTurn(W[k - 1])
      BY <1>3 DEF Turns
    <2>2. 0 \in 0..C /\ \A k \in 0..(C - 1) : k + 1 \in 0..C /\ k + 1 # 0 /\ (k + 1) - 1 = k
      BY <1>1
    <2>3. ASSUME NEW k \in 0..(C - 1) PROVE W[k + 1] = TickTurn(W[k])
      <3>1. k + 1 \in 0..C /\ k + 1 # 0 /\ (k + 1) - 1 = k
        BY <2>2
      <3>2. W[k + 1] = TickTurn(W[(k + 1) - 1])
        BY <2>1, <3>1
      <3> QED BY <3>1, <3>2
    <2> QED BY <2>1, <2>2, <2>3
  <1>5. Turned(Begin, n, q, 0)
    <2>1. /\ Begin.slots = slots /\ Begin.next = next /\ Begin.prev = prev
          /\ Begin.rotation = rotation /\ Begin.tmp = slots[cur_slot] /\ Begin.fired = {}
      BY DEF Begin
    <2>2. Begin \in Walking
      BY DEF Begin, Walking, ListsInv, TypeOK, Pointers
    <2>3. Elements(0, q) = {} /\ Begin.tmp = Place(n, q, 0 + 1)
      BY <2>1 DEF Elements, Place, Chained
    <2>4. Rest(Begin, n, q, 0, n, q)
      BY <2>1 DEF Rest
    <2>5. /\ \A s \in 0..(N - 1) : s # cur_slot => Begin.slots[s] = slots[s]
          /\ SameLinks(next, prev, Begin.next, Begin.prev, Timers \ Elements(n, q))
      BY <2>1 DEF SameLinks
    <2>6. /\ Begin.fired = {x \in Elements(0, q) : rotation[x] = 0}
          /\ Begin.rotation = [x \in Timers |-> IF x \in Elements(0, q) /\ rotation[x] > 0
                                                THEN rotation[x] - 1 ELSE rotation[x]]
      BY <2>1, <2>3 DEF ListsInv
    <2> HIDE DEF Begin
    <2> QED BY <2>2, <2>3, <2>4, <2>5, <2>6 DEF Turned
  <1> DEFINE G == {k \in 0..C : Turned(W[k], n, q, At(k))}
  <1>6. 0 \in G
    BY <1>1, <1>4, <1>5
  <1>7. ASSUME NEW k \in 0..(C - 1), k \in G PROVE k + 1 \in G
    <2>1. k + 1 \in 0..C /\ W[k + 1] = TickTurn(W[k]) /\ Turned(W[k], n, q, At(k))
      BY <1>1, <1>4, <1>7
    <2>2. CASE k < n
      <3>1. At(k) = k /\ At(k + 1) = k + 1 /\ k \in 0..(n - 1)
        BY <2>2
      <3> HIDE DEF At
      <3>2. Turned(TickTurn(W[k]), n, q, k + 1)
        BY <1>1, <2>1, <3>1, TurnStep
      <3> QED BY <2>1, <3>1, <3>2
    <2>3. CASE k >= n
      <3>1. At(k) = n /\ At(k + 1) = n
        BY <2>3
      <3> HIDE DEF At
      <3>2. W[k].tmp = Null
        BY <2>1, <3>1 DEF Turned, Place
      <3>3. TickTurn(W[k]) = W[k]
        BY <3>2 DEF TickTurn
      <3> QED BY <2>1, <3>1, <3>3
    <2> QED BY <2>2, <2>3
  <1> HIDE DEF G
  <1>8. \A k \in 0..C : k \in G
    BY <1>1, <1>6, <1>7, UpTo
  <1>9. C \in 0..C /\ At(C) = n
    BY <1>1
  <1> HIDE DEF At
  <1>10. Turned(W[C], n, q, n)
    BY <1>8, <1>9 DEF G
  <1>11. End = W[C]
    BY DEF End, W, C
  <1> QED BY <1>10, <1>11

\* tick() is the loop and the turn of the wheel.
LEMMA TickIs ==
    tick => /\ Install(End, End.fired) /\ rotation' = End.rotation
            /\ cur_slot' = NextSlot(cur_slot)
            /\ left' = [t \in Timers |-> IF t \in live \ End.fired THEN left[t] - 1 ELSE 0]
  BY DEF tick, End, Turns, Begin

\* tick() fires the timers of its slot that have no rotation left, takes one from
\* the others, and leaves the lists in order.
LEMMA ListsTick ==
    ASSUME ListsInv, tick
    PROVE  ListsInv' /\ Sets!tick
  <1>1. cur_slot \in 0..(N - 1)
    BY DEF ListsInv, TypeOK
  <1>2. PICK n \in Nat : \E q \in [1..n -> Timers] :
            Chained(slots[cur_slot], next, prev, n, q) /\ OnSlot(cur_slot) = Elements(n, q)
    BY <1>1, ListOf
  <1>3. PICK q \in [1..n -> Timers] :
            Chained(slots[cur_slot], next, prev, n, q) /\ OnSlot(cur_slot) = Elements(n, q)
    BY <1>2
  <1>4. Turned(End, n, q, n)
    BY <1>3, EndFacts
  <1>5. /\ Install(End, End.fired) /\ rotation' = End.rotation
        /\ cur_slot' = NextSlot(cur_slot)
        /\ left' = [t \in Timers |-> IF t \in live \ End.fired THEN left[t] - 1 ELSE 0]
    BY TickIs
  <1>6. /\ End.slots \in [0..(N - 1) -> Timers \cup {Null}] /\ End.next \in Pointers
        /\ End.prev \in Pointers /\ End.rotation \in [Timers -> Nat]
    BY <1>4 DEF Turned, Walking
  <1>7. /\ End.fired = {x \in OnSlot(cur_slot) : rotation[x] = 0}
        /\ End.rotation = [x \in Timers |-> IF x \in OnSlot(cur_slot) /\ rotation[x] > 0
                                            THEN rotation[x] - 1 ELSE rotation[x]]
    BY <1>3, <1>4 DEF Turned
  <1>8. ASSUME NEW s \in 0..(N - 1)
        PROVE  Holds(End.slots[s], End.next, End.prev, OnSlot(s) \ End.fired)
    <2>1. CASE s = cur_slot
      <3>1. PICK c \in Nat : \E r \in [1..c -> Timers] : Rest(End, n, q, n, c, r)
        BY <1>4 DEF Turned
      <3>2. PICK r \in [1..c -> Timers] : Rest(End, n, q, n, c, r)
        BY <3>1
      <3> QED BY <2>1, <3>2, <1>3 DEF Holds, Rest
    <2>2. CASE s # cur_slot
      <3>1. End.slots[s] = slots[s]
        BY <1>4, <2>2 DEF Turned
      <3>2. OnSlot(s) \subseteq Timers \ OnSlot(cur_slot)
        BY <2>2, OtherSlots
      <3>3. OnSlot(s) \ End.fired = OnSlot(s)
        BY <1>7, <3>2
      <3>4. SameLinks(next, prev, End.next, End.prev, OnSlot(s))
        BY <1>3, <1>4, <3>2 DEF Turned, SameLinks
      <3>5. Holds(slots[s], next, prev, OnSlot(s))
        BY DEF ListsInv
      <3> QED BY <3>1, <3>3, <3>4, <3>5, FrameHolds
    <2> QED BY <2>1, <2>2
  <1>9. cur_slot' \in 0..(N - 1)
    BY <1>1, <1>5, WheelAssumption, HandMoves
  <1> HIDE DEF End
  <1>10. ListsInv'
    BY <1>5, <1>6, <1>8, <1>9, InstallStep
  <1>11. Sets!tick
    <2>1. End.fired = Sets!Due
      BY <1>7 DEF Sets!Due, OnSlot
    <2>2. /\ live' = live \ Sets!Due
          /\ time_slot' = [t \in Timers |-> IF t \in Sets!Due THEN 0 ELSE time_slot[t]]
      BY <1>5, <2>1 DEF Install
    <2>3. rotation' = [t \in Timers |->
                         IF t \in live /\ time_slot[t] = cur_slot /\ rotation[t] > 0
                         THEN rotation[t] - 1 ELSE rotation[t]]
      BY <1>5, <1>7 DEF OnSlot
    <2>4. cur_slot' = Sets!NextSlot(cur_slot)
      BY <1>5, SameArith
    <2>5. left' = [t \in Timers |-> IF t \in live \ Sets!Due THEN left[t] - 1 ELSE 0]
      BY <1>5, <2>1
    <2> QED BY <2>2, <2>3, <2>4, <2>5 DEF Sets!tick
  <1> QED BY <1>10, <1>11

\* A step of the wheel of lists keeps the lists and is a step of the wheel of
\* sets.
LEMMA ListsStep ==
    ListsInv /\ [Next]_vars => ListsInv' /\ [Sets!Next]_Sets!vars
  <1> SUFFICES ASSUME ListsInv, [Next]_vars PROVE ListsInv' /\ [Sets!Next]_Sets!vars
    OBVIOUS
  <1>1. ASSUME NEW t \in Timers, NEW timeout \in Timeouts, add_timer(t, timeout)
        PROVE  ListsInv' /\ Sets!Next
    BY <1>1, ListsAdd DEF Sets!Next
  <1>2. ASSUME NEW t \in Timers, del_timer(t)
        PROVE  ListsInv' /\ Sets!Next
    BY <1>2, ListsDel DEF Sets!Next
  <1>3. CASE tick
    BY <1>3, ListsTick DEF Sets!Next
  <1>4. CASE UNCHANGED vars
    BY <1>4 DEF vars, ListsInv, TypeOK, OnSlot, Sets!vars
  <1> QED BY <1>1, <1>2, <1>3, <1>4 DEF Next

\* The lists are in order in every state.
LEMMA ListsHold == Spec => []ListsInv
  BY ListsInit, ListsStep, PTL DEF Spec

\* The pointers always lead to timers, and the hand stays on the wheel.
THEOREM TypeCorrect == Spec => []TypeOK
  <1>1. ListsInv => TypeOK
    BY DEF ListsInv
  <1> QED BY <1>1, ListsHold, PTL

\* Whatever add_timer(), del_timer() and tick() did before, for a wheel of any size
\* and any number of timers: the list of every slot holds the timers whose
\* time_slot names it, prev undoes next, and the first timer has no predecessor.
THEOREM ListsStayIntact == Spec => []SlotListsIntact
  <1>1. ListsInv => SlotListsIntact
    <2> SUFFICES ASSUME ListsInv, NEW s \in 0..(N - 1)
                 PROVE  /\ Slot(s) = OnSlot(s)
                        /\ slots[s] # Null => prev[slots[s]] = Null
                        /\ \A t \in Slot(s) : next[t] # Null => prev[next[t]] = t
      BY DEF SlotListsIntact, OnSlot
    <2>1. Holds(slots[s], next, prev, OnSlot(s))
      BY DEF ListsInv
    <2> HIDE DEF OnSlot
    <2> QED BY <2>1, SlotFacts
  <1> QED BY <1>1, ListsHold, PTL

\* The pointers implement sets: the loop of tick() visits every timer of its slot
\* once although it unlinks timers as it goes, and del_timer() takes out the timer
\* it is given and no other.
THEOREM ListsRefineSets == Spec => ListsImplementSets
  BY ListsInit, ListsStep, ListsHold, PTL DEF Spec, ListsImplementSets, Sets!Spec

\* So the encoding by slot and rotation is exact for the lists too.
THEOREM EncodingExact == Spec => []WheelExact
  BY ListsRefineSets, SetsEncodingExact, PTL DEF ListsImplementSets, WheelExact

\* tick() fires every timer at the promised tick, and no timer before.
THEOREM FiringExact == Spec => FiresOnTime
  <1>1. ListsInv /\ WheelInv => (tick => live \ live' = {t \in live : left[t] = 1})
    <2> SUFFICES ASSUME ListsInv, WheelInv, tick PROVE live \ live' = {t \in live : left[t] = 1}
      OBVIOUS
    <2>1. live' = live \ Sets!Due
      BY ListsTick DEF Sets!tick
    <2>2. Sets!Due \subseteq live /\ Sets!Due = {t \in live : left[t] = 1}
      BY DueIsOneLeft DEF Sets!Due
    <2> QED BY <2>1, <2>2
  <1>2. Spec => []WheelInv
    BY ListsRefineSets, WheelHolds, PTL DEF ListsImplementSets
  <1> QED BY <1>1, <1>2, ListsHold, PTL DEF FiresOnTime
=============================================================================
