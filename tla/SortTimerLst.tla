---------------------------- MODULE SortTimerLst ----------------------------
(***************************************************************************)
(* sort_timer_lst (src/src/include/lst_timer.h): the doubly linked list of *)
(* util_timer, ascending in expire.  Every operation is an operator on the *)
(* record of the list's pointers                                           *)
(*      [head, tail : Timers or Null,                                      *)
(*       prev, next : Timers -> Timers or Null]                            *)
(* and on expire, the expiry times of the timers, which the callers set.   *)
(* Assigning through a pointer that is null changes nothing here; that no  *)
(* such pointer is met is part of LinksOK.                                 *)
(***************************************************************************)
EXTENDS Integers, FiniteSets

CONSTANTS Timers,      \* the addresses a util_timer may be allocated at
          Null

ASSUME ListAssumption == IsFiniteSet(Timers) /\ Null \notin Timers

EmptyList == [head |-> Null, tail |-> Null,
              prev |-> [t \in Timers |-> Null], next |-> [t \in Timers |-> Null]]

\* new util_timer(): both links null.
NewTimer(l, t) == [l EXCEPT !.prev[t] = Null, !.next[t] = Null]

\* The pointers met when following next from x: p[0] = x, p[1] = x->next, ...
Path(l, x) ==
    LET p[k \in 0..Cardinality(Timers)] ==
            IF k = 0 THEN x
            ELSE IF p[k - 1] = Null THEN Null ELSE l.next[p[k - 1]]
    IN  p

\* The number of timers before the first pointer of the path from x that is
\* null or satisfies Stop: where a loop "while(tmp) { if(Stop) break; tmp =
\* tmp->next; }" ends.
StepsUntil(l, x, Stop(_)) ==
    LET p == Path(l, x)
        ends == {k \in DOMAIN p : p[k] = Null \/ Stop(p[k])}
    IN  IF ends = {} THEN Cardinality(Timers)
        ELSE CHOOSE k \in ends : \A j \in ends : k <= j

Nodes(l) == {Path(l, l.head)[k] : k \in 0..Cardinality(Timers)} \ {Null}
-----------------------------------------------------------------------------
\* add_timer(timer, start): behind start, before the first later timer, or at
\* the tail.
add_timer_behind(l, expire, t, start) ==
    LET Later(x) == expire[t] < expire[x]
        tmp == Path(l, l.next[start])[StepsUntil(l, l.next[start], Later)]
    IN  IF tmp # Null
        THEN [l EXCEPT !.next = [@ EXCEPT ![t] = tmp, ![l.prev[tmp]] = t],
                       !.prev = [@ EXCEPT ![t] = l.prev[tmp], ![tmp] = t]]
        ELSE [l EXCEPT !.next = [@ EXCEPT ![l.tail] = t, ![t] = Null],
                       !.prev[t] = l.tail,
                       !.tail = t]

\* A list that forgets the head is compared first.
add_timer_no_head(l, expire, t) ==
    IF l.head = Null
    THEN [l EXCEPT !.head = t, !.tail = t]
    ELSE add_timer_behind(l, expire, t, l.head)

add_timer(l, expire, t) ==
    IF l.head = Null
    THEN [l EXCEPT !.head = t, !.tail = t]
    ELSE IF expire[t] < expire[l.head]
    THEN [l EXCEPT !.prev[l.head] = t, !.next[t] = l.head, !.head = t]
    ELSE add_timer_behind(l, expire, t, l.head)

\* adjust_timer() with the head's new predecessor left in place.
adjust_timer_stale_prev(l, expire, t) ==
    LET n == l.next[t]
    IN  IF n = Null \/ expire[t] < expire[n] THEN l
        ELSE IF t = l.head
        THEN add_timer_behind([l EXCEPT !.head = n, !.next[t] = Null], expire, t, n)
        ELSE add_timer_behind([l EXCEPT !.prev[n] = l.prev[t]], expire, t, n)

\* adjust_timer(): nothing to do at the tail or while still before the next
\* timer, else unlink and insert again behind the next timer.
adjust_timer(l, expire, t) ==
    LET n == l.next[t]
    IN  IF n = Null \/ expire[t] < expire[n] THEN l
        ELSE IF t = l.head
        THEN add_timer_behind([l EXCEPT !.head = n, !.prev[n] = Null, !.next[t] = Null],
                              expire, t, n)
        ELSE add_timer_behind([l EXCEPT !.prev[n] = l.prev[t], !.next[l.prev[t]] = n],
                              expire, t, n)

\* del_timer() that forgets to move tail back.
del_timer_keeps_tail(l, t) ==
    IF t = l.head /\ t = l.tail THEN [l EXCEPT !.head = Null, !.tail = Null]
    ELSE IF t = l.head
    THEN [l EXCEPT !.prev[l.next[t]] = Null, !.head = l.next[t]]
    ELSE [l EXCEPT !.next[l.prev[t]] = l.next[t]]

\* del_timer(): the only timer, the head, the tail, or one in between.
del_timer(l, t) ==
    IF t = l.head /\ t = l.tail THEN [l EXCEPT !.head = Null, !.tail = Null]
    ELSE IF t = l.head
    THEN [l EXCEPT !.prev[l.next[t]] = Null, !.head = l.next[t]]
    ELSE IF t = l.tail
    THEN [l EXCEPT !.next[l.prev[t]] = Null, !.tail = l.prev[t]]
    ELSE [l EXCEPT !.next[l.prev[t]] = l.next[t], !.prev[l.next[t]] = l.prev[t]]

\* The timers tick() fires, in order of their place in the list: from the head
\* up to the first that is not expired at time cur.
Fired(l, expire, cur) ==
    LET NotYet(x) == cur < expire[x]
    IN  {Path(l, l.head)[k] : k \in 0..(StepsUntil(l, l.head, NotYet) - 1)}

\* tick(): what is left.  tail keeps its value even when every timer fired.
tick(l, expire, cur) ==
    LET NotYet(x) == cur < expire[x]
        h == Path(l, l.head)[StepsUntil(l, l.head, NotYet)]
    IN  IF h = Null \/ h = l.head THEN [l EXCEPT !.head = h]
        ELSE [l EXCEPT !.head = h, !.prev[h] = Null]
-----------------------------------------------------------------------------
\* The list's structure: from head the next pointers visit each timer of Nodes
\* once and end at tail, and prev undoes next.
LinksOK(l) ==
    LET p == Path(l, l.head)
        n == Cardinality(Nodes(l))
    IN  /\ \A k \in 0..(n - 1) : p[k] # Null
        /\ n > 0 => /\ l.tail = p[n - 1]
                    /\ l.next[l.tail] = Null
                    /\ l.prev[l.head] = Null
        /\ \A x \in Nodes(l) :
              l.next[x] # Null => l.prev[l.next[x]] = x

Ascending(l, expire) ==
    \A x \in Nodes(l) : l.next[x] # Null => expire[x] <= expire[l.next[x]]
=============================================================================
