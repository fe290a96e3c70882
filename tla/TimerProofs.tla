---------------------------- MODULE TimerProofs ----------------------------
(***************************************************************************)
(* The sorted timer list and the server that uses it, for any number of    *)
(* timers and connections; then the list in the hands of any program.      *)
(*                                                                         *)
(* The pointers of a list are described by the sequence q of its timers    *)
(* (Lists); every method of sort_timer_lst turns the pointers of one       *)
(* sequence into those of another.  Listed hides the sequence.             *)
(***************************************************************************)
EXTENDS TimeoutServer, TimerList, FiniteSetTheorems, WellFoundedInduction,
        NaturalsInduction, TLAPS

\* The type of a list's pointers.
Pointers == [head : Timers \cup {Null}, tail : Timers \cup {Null},
             prev : [Timers -> Timers \cup {Null}],
             next : [Timers -> Timers \cup {Null}]]

\* The pointers of l link the n timers of q in this order.
Lists(l, n, q) ==
    /\ n \in Nat /\ q \in [1..n -> Timers]
    /\ \A i, j \in 1..n : q[i] = q[j] => i = j
    /\ l.head = IF n = 0 THEN Null ELSE q[1]
    /\ n > 0 => l.tail = q[n] /\ l.next[q[n]] = Null /\ l.prev[q[1]] = Null
    /\ \A i \in 1..(n - 1) : l.next[q[i]] = q[i + 1] /\ l.prev[q[i + 1]] = q[i]

\* The timers of q are in order of expiry.
Sorted(expire, n, q) == \A i, j \in 1..n : i <= j => expire[q[i]] <= expire[q[j]]

Elements(n, q) == {q[i] : i \in 1..n}

\* The list holds the timers of S, each once and in order.
Listed(l, expire, S) ==
    \E n \in Nat : \E q \in [1..n -> Timers] :
        Lists(l, n, q) /\ Sorted(expire, n, q) /\ S = Elements(n, q)
-----------------------------------------------------------------------------
\* A set of natural numbers that is not empty has a least element.
LEMMA LeastOf ==
    ASSUME NEW T \in SUBSET Nat, T # {}
    PROVE  \E x \in T : \A y \in T : x <= y
  <1>1. PICK x \in T : \A y \in T : ~(<<y, x>> \in OpToRel(<, Nat))
    BY NatLessThanWellFounded, WFMin
  <1>2. \A y \in T : ~(y < x)
    BY <1>1 DEF OpToRel
  <1> QED BY <1>2

\* A list is no longer than the number of addresses.
LEMMA LengthFacts ==
    ASSUME NEW n \in Nat, NEW q \in [1..n -> Timers],
           \A i, j \in 1..n : q[i] = q[j] => i = j
    PROVE  /\ Cardinality(Timers) \in Nat /\ n <= Cardinality(Timers)
           /\ Cardinality(Elements(n, q)) = n
  <1>1. Cardinality(Timers) \in Nat
    BY ListAssumption, FS_CardinalityType
  <1>2. IsFiniteSet(1..n) /\ Cardinality(1..n) = n
    BY FS_Interval
  <1>3. q \in Injection(1..n, Timers)
    BY DEF Injection, IsInjective
  <1>4. n <= Cardinality(Timers)
    BY <1>2, <1>3, ListAssumption, FS_Injection
  <1>5. q \in Bijection(1..n, Elements(n, q))
    BY DEF Bijection, Surjection, Injection, IsInjective, Elements
  <1>6. Cardinality(Elements(n, q)) = n
    BY <1>2, <1>5, FS_Bijection DEF ExistsBijection
  <1> QED BY <1>1, <1>4, <1>6

\* The m-th timer, or null behind the last one, and what is met from there on.
Place(n, q, m) == IF m <= n THEN q[m] ELSE Null
Onward(n, q, m) == [k \in 0..Cardinality(Timers) |-> Place(n, q, m + k)]

\* The pointers met from the m-th timer on.
LEMMA PathFacts ==
    ASSUME NEW l, NEW n, NEW q, Lists(l, n, q), NEW m \in 1..(n + 1)
    PROVE  Path(l, Place(n, q, m)) = Onward(n, q, m)
  <1> DEFINE C == Cardinality(Timers)
             w == [k \in 0..C |-> IF m + k <= n THEN q[m + k] ELSE Null]
             x == Place(n, q, m)
             Along(p) == [k \in 0..C |-> IF k = 0 THEN x
                             ELSE IF p[k - 1] = Null THEN Null ELSE l.next[p[k - 1]]]
  <1>1. C \in Nat /\ n \in Nat /\ Null \notin Timers
    BY LengthFacts, ListAssumption DEF Lists
  <1> HIDE DEF C
  <1>2. ASSUME NEW k \in 0..C
        PROVE  w[k] = IF k = 0 THEN x
                      ELSE IF w[k - 1] = Null THEN Null ELSE l.next[w[k - 1]]
    <2>1. CASE k = 0
      BY <2>1, <1>1 DEF Place
    <2>2. CASE k > 0
      <3>1. k - 1 \in 0..C /\ w[k - 1] = IF m + k - 1 <= n THEN q[m + k - 1] ELSE Null
        BY <2>2, <1>1
      <3>2. CASE m + k <= n
        <4>1. m + k - 1 \in 1..(n - 1) /\ m + k = (m + k - 1) + 1
          BY <3>2, <2>2, <1>1
        <4>2. l.next[q[m + k - 1]] = q[m + k] /\ q[m + k - 1] \in Timers
          BY <4>1, <1>1 DEF Lists
        <4> QED BY <3>1, <3>2, <4>1, <4>2, <2>2, <1>1
      <3>3. CASE m + k = n + 1
        <4>1. m + k - 1 = n /\ n > 0 /\ n \in 1..n
          BY <3>3, <2>2, <1>1
        <4>2. l.next[q[n]] = Null /\ q[n] \in Timers
          BY <4>1, <1>1 DEF Lists
        <4> QED BY <3>1, <3>3, <4>1, <4>2, <2>2, <1>1
      <3>4. CASE m + k > n + 1
        BY <3>1, <3>4, <2>2, <1>1
      <3> QED BY <3>2, <3>3, <3>4, <1>1
    <2> QED BY <2>1, <2>2, <1>1
  <1>3. w = Along(w)
    <2> DEFINE Turn(k) == IF k = 0 THEN x
                          ELSE IF w[k - 1] = Null THEN Null ELSE l.next[w[k - 1]]
    <2>1. w = [k \in 0..C |-> w[k]] /\ \A k \in 0..C : w[k] = Turn(k)
      BY <1>2
    <2>2. Along(w) = [k \in 0..C |-> Turn(k)]
      OBVIOUS
    <2> HIDE DEF w, Turn, Along
    <2> QED BY <2>1, <2>2
  <1> HIDE DEF x
  <1>4. ASSUME NEW u, u = Along(u) PROVE Path(l, x) = Along(Path(l, x))
    BY <1>4 DEF Path, C
  <1>5. Path(l, x) = Along(Path(l, x))
    <2> HIDE DEF w, Along
    <2> QED BY <1>3, <1>4
  <1> DEFINE p == Path(l, x)
             T == {k \in 0..C : p[k] # w[k]}
  <1>6. \A k \in 0..C : p[k] = IF k = 0 THEN x
                             ELSE IF p[k - 1] = Null THEN Null ELSE l.next[p[k - 1]]
    BY <1>5
  <1>7. T = {}
    <2> SUFFICES ASSUME T # {} PROVE FALSE
      OBVIOUS
    <2>1. T \in SUBSET Nat
      BY <1>1
    <2> HIDE DEF T
    <2>2. PICK k \in T : \A j \in T : k <= j
      BY <2>1, LeastOf
    <2> USE DEF T
    <2>3. k # 0
      BY <1>2, <1>6
    <2>4. k - 1 \in 0..C /\ p[k - 1] = w[k - 1]
      BY <2>2, <2>3, <1>1
    <2> HIDE DEF w, p
    <2> QED BY <1>2, <1>6, <2>3, <2>4
  <1>8. p = [k \in 0..C |-> p[k]]
    BY <1>5
  <1> QED BY <1>7, <1>8 DEF C, x, Onward, Place

\* A list described by a sequence is sound, and ascending when the sequence is.
LEMMA ListedFacts ==
    ASSUME NEW l, NEW expire, NEW S, Listed(l, expire, S)
    PROVE  /\ S \subseteq Timers /\ Nodes(l) = S
           /\ LinksOK(l) /\ Ascending(l, expire)
  <1>1. PICK n \in Nat : \E q \in [1..n -> Timers] :
            Lists(l, n, q) /\ Sorted(expire, n, q) /\ S = Elements(n, q)
    BY DEF Listed
  <1>2. PICK q \in [1..n -> Timers] :
            Lists(l, n, q) /\ Sorted(expire, n, q) /\ S = Elements(n, q)
    BY <1>1
  <1> DEFINE C == Cardinality(Timers)
             p == Path(l, l.head)
  <1>3. C \in Nat /\ n <= C /\ Cardinality(S) = n
    BY <1>2, LengthFacts DEF Lists
  <1>4. p = [k \in 0..C |-> IF 1 + k <= n THEN q[1 + k] ELSE Null]
    <2>1. 1 \in 1..(n + 1) /\ l.head = Place(n, q, 1)
      BY <1>2 DEF Lists, Place
    <2>2. p = Onward(n, q, 1)
      BY <1>2, <2>1, PathFacts
    <2> QED BY <2>2 DEF Onward, Place
  <1> HIDE DEF C, p
  <1>5. Null \notin Timers /\ \A i \in 1..n : q[i] \in Timers
    BY ListAssumption
  <1>6. Nodes(l) = S
    <2>1. Nodes(l) = {p[k] : k \in 0..C} \ {Null}
      BY DEF Nodes, p, C
    <2>2. \A i \in 1..n : i - 1 \in 0..C /\ p[i - 1] = q[i]
      BY <1>3, <1>4
    <2>3. \A k \in 0..C : p[k] = Null \/ (1 + k \in 1..n /\ p[k] = q[1 + k])
      BY <1>3, <1>4
    <2> QED BY <1>2, <1>5, <2>1, <2>2, <2>3 DEF Elements
  <1>7. ASSUME NEW x \in S
        PROVE  \E i \in 1..n : /\ x = q[i]
                               /\ l.next[x] # Null => i \in 1..(n - 1)
    <2>1. PICK i \in 1..n : x = q[i]
      BY <1>2 DEF Elements
    <2>2. CASE i = n
      BY <2>1, <2>2, <1>2 DEF Lists
    <2>3. CASE i # n
      BY <2>1, <2>3
    <2> QED BY <2>2, <2>3
  <1>8. \A x \in S : l.next[x] # Null => l.prev[l.next[x]] = x
    BY <1>7, <1>2 DEF Lists
  <1>9. Ascending(l, expire)
    <2> SUFFICES ASSUME NEW x \in S, l.next[x] # Null
                 PROVE  expire[x] <= expire[l.next[x]]
      BY <1>6 DEF Ascending
    <2>1. PICK i \in 1..n : x = q[i] /\ i \in 1..(n - 1)
      BY <1>7
    <2>2. l.next[x] = q[i + 1]
      BY <2>1, <1>2 DEF Lists
    <2>3. i + 1 \in 1..n /\ i <= i + 1
      BY <2>1
    <2> QED BY <2>1, <2>2, <2>3, <1>2 DEF Sorted
  <1>10. \A k \in 0..(n - 1) : p[k] # Null
    BY <1>3, <1>4, <1>5
  <1>11. n > 0 => l.tail = p[n - 1] /\ l.next[l.tail] = Null /\ l.prev[l.head] = Null
    BY <1>3, <1>4, <1>2 DEF Lists
  <1>12. LinksOK(l)
    BY <1>3, <1>6, <1>8, <1>10, <1>11 DEF LinksOK, p
  <1> QED BY <1>2, <1>5, <1>6, <1>9, <1>12 DEF Elements

-----------------------------------------------------------------------------
(* The loops of add_timer() and tick() stop at the first timer later than e. *)
Ends(l, x, expire, e) ==
    {k \in DOMAIN Path(l, x) : Path(l, x)[k] = Null \/ e < expire[Path(l, x)[k]]}
Steps(l, x, expire, e) ==
    IF Ends(l, x, expire, e) = {} THEN Cardinality(Timers)
    ELSE CHOOSE k \in Ends(l, x, expire, e) : \A j \in Ends(l, x, expire, e) : k <= j

Passes(l, n, q, m, expire, e) ==
    LET x == Place(n, q, m)
        s == Steps(l, x, expire, e)
    IN  /\ s \in Nat /\ m + s <= n + 1
        /\ m + s <= n => e < expire[q[m + s]]
        /\ \A j \in m..(m + s - 1) : expire[q[j]] <= e
        /\ \A k \in 0..s : Path(l, x)[k] = Place(n, q, m + k)

\* From the m-th timer on the loop passes those that are not later than e.
LEMMA StepsFacts ==
    ASSUME NEW l, NEW n, NEW q, Lists(l, n, q), NEW m \in 1..(n + 1),
           NEW expire \in [Timers -> Int], NEW e \in Int
    PROVE  Passes(l, n, q, m, expire, e)
  <1> DEFINE x == Place(n, q, m)
  <1> DEFINE C == Cardinality(Timers)
             p == Path(l, x)
             E == Ends(l, x, expire, e)
             s == Steps(l, x, expire, e)
  <1>1. n \in Nat /\ C \in Nat /\ n <= C
    BY LengthFacts DEF Lists
  <1>2. p = [k \in 0..C |-> IF m + k <= n THEN q[m + k] ELSE Null]
    <2>1. p = Onward(n, q, m)
      BY PathFacts
    <2> QED BY <2>1 DEF Onward, Place
  <1>3. E = {k \in DOMAIN p : p[k] = Null \/ e < expire[p[k]]}
    BY DEF Ends
  <1>4. s = IF E = {} THEN C ELSE CHOOSE k \in E : \A j \in E : k <= j
    BY DEF Steps
  <1> HIDE DEF C, p, E, s
  <1>5. E \in SUBSET Nat
    BY <1>1, <1>2, <1>3
  <1>6. n + 1 - m \in E
    BY <1>1, <1>2, <1>3
  <1>7. s \in E /\ \A j \in E : s <= j
    <2>1. \E k \in E : \A j \in E : k <= j
      BY <1>5, <1>6, LeastOf
    <2> QED BY <2>1, <1>4, <1>6
  <1>8. s \in 0..C /\ s <= n + 1 - m
    BY <1>1, <1>2, <1>3, <1>6, <1>7
  <1>9. m + s <= n => e < expire[q[m + s]]
    <2> SUFFICES ASSUME m + s <= n PROVE e < expire[q[m + s]]
      OBVIOUS
    <2>1. p[s] = q[m + s] /\ m + s \in 1..n
      BY <1>1, <1>2, <1>8
    <2>2. q[m + s] \in Timers /\ Null \notin Timers
      BY <2>1, ListAssumption DEF Lists
    <2> QED BY <2>1, <2>2, <1>3, <1>7
  <1>10. ASSUME NEW j \in m..(m + s - 1) PROVE expire[q[j]] <= e
    <2>1. j - m \in 0..C /\ j - m < s /\ m + (j - m) = j /\ j \in 1..n
      BY <1>1, <1>8
    <2>2. p[j - m] = q[j]
      BY <2>1, <1>2
    <2>3. j - m \notin E
      BY <2>1, <1>7, <1>8
    <2>4. ~(e < expire[q[j]])
      BY <2>1, <2>2, <2>3, <1>2, <1>3
    <2>5. expire[q[j]] \in Int
      BY <2>1 DEF Lists
    <2> QED BY <2>4, <2>5
  <1>11. \A k \in 0..s : p[k] = IF m + k <= n THEN q[m + k] ELSE Null
    BY <1>1, <1>2, <1>8
  <1> QED BY <1>1, <1>8, <1>9, <1>10, <1>11 DEF p, s, Passes, Place

-----------------------------------------------------------------------------
(* A timer more and a timer less in the sequence.                          *)
Insert(n, q, p, t) ==
    [j \in 1..(n + 1) |-> IF j < p THEN q[j] ELSE IF j = p THEN t ELSE q[j - 1]]
Remove(n, q, p) == [j \in 1..(n - 1) |-> IF j < p THEN q[j] ELSE q[j + 1]]

\* Place p is behind timers that are not later than t and before timers that are
\* not earlier.
Fits(expire, n, q, p, t) == /\ \A j \in 1..(p - 1) : expire[q[j]] <= expire[t]
                            /\ \A j \in p..n : expire[t] <= expire[q[j]]

Inserted(expire, n, q, p, t) ==
    LET r == Insert(n, q, p, t)
    IN  /\ r \in [1..(n + 1) -> Timers]
        /\ \A i, j \in 1..(n + 1) : r[i] = r[j] => i = j
        /\ Sorted(expire, n + 1, r)
        /\ Elements(n + 1, r) = Elements(n, q) \cup {t}

\* t comes at place p.
LEMMA InsertFacts ==
    ASSUME NEW n \in Nat, NEW q \in [1..n -> Timers],
           \A i, j \in 1..n : q[i] = q[j] => i = j,
           NEW t \in Timers, t \notin Elements(n, q), NEW p \in 1..(n + 1),
           NEW expire \in [Timers -> Int], Sorted(expire, n, q), Fits(expire, n, q, p, t)
    PROVE  Inserted(expire, n, q, p, t)
  <1> USE DEF Fits
  <1> DEFINE r == Insert(n, q, p, t)
  <1>1. /\ r = [j \in 1..(n + 1) |-> IF j < p THEN q[j] ELSE IF j = p THEN t ELSE q[j - 1]]
        /\ \A j \in 1..n : q[j] \in Timers /\ q[j] # t
    BY DEF Insert, Elements
  <1> HIDE DEF r
  <1>2. r \in [1..(n + 1) -> Timers]
    BY <1>1
  <1>3. \A j \in 1..(n + 1) : \/ j < p /\ j \in 1..n /\ r[j] = q[j]
                              \/ j = p /\ r[j] = t
                              \/ j > p /\ j - 1 \in 1..n /\ r[j] = q[j - 1]
    BY <1>1
  <1>4. \A i, j \in 1..(n + 1) : r[i] = r[j] => i = j
    <2> SUFFICES ASSUME NEW i \in 1..(n + 1), NEW j \in 1..(n + 1), r[i] = r[j]
                 PROVE  i = j
      OBVIOUS
    <2>1. CASE i < p
      BY <2>1, <1>1, <1>3
    <2>2. CASE i = p
      BY <2>2, <1>1, <1>3
    <2>3. CASE i > p
      BY <2>3, <1>1, <1>3
    <2> QED BY <2>1, <2>2, <2>3
  <1>5. Sorted(expire, n + 1, r)
    <2> SUFFICES ASSUME NEW i \in 1..(n + 1), NEW j \in 1..(n + 1), i <= j
                 PROVE  expire[r[i]] <= expire[r[j]]
      BY DEF Sorted
    <2>0. \A a, b \in 1..n : a <= b => expire[q[a]] <= expire[q[b]]
      BY DEF Sorted
    <2>1. expire[t] \in Int
      OBVIOUS
    <2>2. CASE j < p
      BY <2>0, <2>2, <1>3
    <2>3. CASE i < p /\ j = p
      BY <2>3, <1>3
    <2>4. CASE i < p /\ j > p
      BY <2>0, <2>4, <1>3
    <2>5. CASE i = p /\ j = p
      BY <2>1, <2>5, <1>3
    <2>6. CASE i = p /\ j > p
      BY <2>6, <1>3
    <2>7. CASE i > p
      BY <2>0, <2>7, <1>3
    <2> QED BY <2>2, <2>3, <2>4, <2>5, <2>6, <2>7
  <1>6. Elements(n + 1, r) = Elements(n, q) \cup {t}
    <2>1. \A x \in Elements(n + 1, r) : x \in Elements(n, q) \cup {t}
      BY <1>3, SMTT(30) DEF Elements
    <2>2. t \in Elements(n + 1, r)
      BY <1>1 DEF Elements
    <2>3. ASSUME NEW j \in 1..n PROVE q[j] \in Elements(n + 1, r)
      <3>1. CASE j < p
        BY <3>1, <1>1 DEF Elements
      <3>2. CASE j >= p
        <4>1. j + 1 \in 1..(n + 1) /\ r[j + 1] = q[j]
          BY <3>2, <1>1
        <4> QED BY <4>1 DEF Elements
      <3> QED BY <3>1, <3>2
    <2>4. \A x \in Elements(n, q) : x \in Elements(n + 1, r)
      BY <2>3 DEF Elements
    <2> QED BY <2>1, <2>2, <2>4
  <1> QED BY <1>2, <1>4, <1>5, <1>6 DEF r, Inserted

\* The timers of q differ.
Distinct(n, q) ==
    /\ q \in [1..n -> Timers]
    /\ \A i, j \in 1..n : q[i] = q[j] => i = j

\* l2 is l with t linked in at place p.
LinkedIn(l, l2, n, q, p, t) ==
    /\ l2.head = IF p = 1 THEN t ELSE l.head
    /\ l2.tail = IF p = n + 1 THEN t ELSE l.tail
    /\ l2.next[t] = Place(n, q, p)
    /\ l2.prev[t] = IF p = 1 THEN Null ELSE q[p - 1]
    /\ p > 1 => l2.next[q[p - 1]] = t
    /\ p <= n => l2.prev[q[p]] = t
    /\ \A j \in 1..n : j # p - 1 => l2.next[q[j]] = l.next[q[j]]
    /\ \A j \in 1..n : j # p => l2.prev[q[j]] = l.prev[q[j]]

\* The pointers after an insertion at place p.
LEMMA InsertLists ==
    ASSUME NEW l, NEW n, NEW q, Lists(l, n, q),
           NEW t \in Timers, t \notin Elements(n, q), NEW p \in 1..(n + 1),
           Distinct(n + 1, Insert(n, q, p, t)),
           NEW l2, LinkedIn(l, l2, n, q, p, t)
    PROVE  Lists(l2, n + 1, Insert(n, q, p, t))
  <1> USE DEF LinkedIn
  <1> DEFINE r == Insert(n, q, p, t)
  <1>1. n \in Nat
    BY DEF Lists
  <1>2. \A j \in 1..(n + 1) : /\ j < p => r[j] = q[j]
                              /\ j = p => r[j] = t
                              /\ j > p => r[j] = q[j - 1]
    BY DEF Insert
  <1> HIDE DEF r
  <1>3. l2.head = r[1]
    BY <1>1, <1>2 DEF Lists
  <1>4. l2.tail = r[n + 1] /\ l2.next[r[n + 1]] = Null
    <2>1. CASE p = n + 1
      BY <2>1, <1>1, <1>2 DEF Place
    <2>2. CASE p <= n
      BY <2>2, <1>1, <1>2 DEF Lists
    <2> QED BY <2>1, <2>2, <1>1
  <1>5. l2.prev[r[1]] = Null
    <2>1. CASE p = 1
      BY <2>1, <1>1, <1>2
    <2>2. CASE p > 1
      BY <2>2, <1>1, <1>2 DEF Lists
    <2> QED BY <2>1, <2>2, <1>1
  <1>6. ASSUME NEW i \in 1..n
        PROVE  l2.next[r[i]] = r[i + 1] /\ l2.prev[r[i + 1]] = r[i]
    <2>0. \A j \in 1..(n - 1) : l.next[q[j]] = q[j + 1] /\ l.prev[q[j + 1]] = q[j]
      BY DEF Lists
    <2>1. CASE i + 1 < p
      BY <2>0, <2>1, <1>1, <1>2
    <2>2. CASE i + 1 = p
      BY <2>2, <1>1, <1>2
    <2>3. CASE i = p
      BY <2>3, <1>1, <1>2 DEF Place
    <2>4. CASE i > p
      <3>1. i - 1 \in 1..(n - 1) /\ (i - 1) + 1 = i /\ i \in 1..n
        BY <2>4, <1>1
      <3>2. r[i] = q[i - 1] /\ r[i + 1] = q[i]
        BY <2>4, <1>1, <1>2
      <3>3. i - 1 \in 1..n /\ i - 1 # p - 1 /\ i # p
        BY <2>4, <1>1
      <3>4. l2.next[q[i - 1]] = l.next[q[i - 1]] /\ l2.prev[q[i]] = l.prev[q[i]]
        BY <3>1, <3>3
      <3>5. l.next[q[i - 1]] = q[i] /\ l.prev[q[i]] = q[i - 1]
        BY <2>0, <3>1
      <3> QED BY <3>2, <3>4, <3>5
    <2> QED BY <2>1, <2>2, <2>3, <2>4, <1>1
  <1>7. n + 1 \in Nat /\ n + 1 > 0 /\ 1..((n + 1) - 1) = 1..n
    BY <1>1
  <1> QED BY <1>3, <1>4, <1>5, <1>6, <1>7 DEF Lists, Distinct, r

\* Without its p-th timer a sequence is still one, in order.
LEMMA RemoveFacts ==
    ASSUME NEW n \in Nat, NEW q \in [1..n -> Timers],
           \A i, j \in 1..n : q[i] = q[j] => i = j,
           NEW p \in 1..n
    PROVE  LET r == Remove(n, q, p)
           IN  /\ n - 1 \in Nat /\ r \in [1..(n - 1) -> Timers]
               /\ \A i, j \in 1..(n - 1) : r[i] = r[j] => i = j
               /\ \A expire \in [Timers -> Int] :
                     Sorted(expire, n, q) => Sorted(expire, n - 1, r)
               /\ Elements(n - 1, r) = Elements(n, q) \ {q[p]}
  <1> DEFINE r == Remove(n, q, p)
  <1>1. r = [j \in 1..(n - 1) |-> IF j < p THEN q[j] ELSE q[j + 1]]
    BY DEF Remove
  <1> HIDE DEF r
  <1>2. r \in [1..(n - 1) -> Timers]
    BY <1>1
  <1>3. \A j \in 1..(n - 1) : \/ j < p /\ j \in 1..n /\ r[j] = q[j]
                              \/ j >= p /\ j + 1 \in 1..n /\ r[j] = q[j + 1]
    BY <1>1
  <1>4. \A i, j \in 1..(n - 1) : r[i] = r[j] => i = j
    <2> SUFFICES ASSUME NEW i \in 1..(n - 1), NEW j \in 1..(n - 1), r[i] = r[j]
                 PROVE  i = j
      OBVIOUS
    <2>1. CASE i < p
      BY <2>1, <1>3
    <2>2. CASE i >= p
      BY <2>2, <1>3
    <2> QED BY <2>1, <2>2
  <1>5. ASSUME NEW expire \in [Timers -> Int], Sorted(expire, n, q)
        PROVE  Sorted(expire, n - 1, r)
    <2> SUFFICES ASSUME NEW i \in 1..(n - 1), NEW j \in 1..(n - 1), i <= j
                 PROVE  expire[r[i]] <= expire[r[j]]
      BY DEF Sorted
    <2>0. \A a, b \in 1..n : a <= b => expire[q[a]] <= expire[q[b]]
      BY <1>5 DEF Sorted
    <2>1. CASE i < p
      BY <2>0, <2>1, <1>3
    <2>2. CASE i >= p
      BY <2>0, <2>2, <1>3, SMTT(30)
    <2> QED BY <2>1, <2>2
  <1>6. Elements(n - 1, r) = Elements(n, q) \ {q[p]}
    <2>1. \A j \in 1..(n - 1) : r[j] \in Elements(n, q) \ {q[p]}
      BY <1>3 DEF Elements
    <2>2. ASSUME NEW j \in 1..n, j # p PROVE q[j] \in Elements(n - 1, r)
      <3>1. CASE j < p
        BY <3>1, <1>1 DEF Elements
      <3>2. CASE j > p
        <4>1. j - 1 \in 1..(n - 1) /\ r[j - 1] = q[j]
          BY <3>2, <1>1
        <4> QED BY <4>1 DEF Elements
      <3> QED BY <3>1, <3>2, <2>2
    <2> QED BY <2>1, <2>2 DEF Elements
  <1> QED BY <1>2, <1>4, <1>5, <1>6 DEF r

\* l2 is l with the p-th timer unlinked.
LinkedOut(l, l2, n, q, p) ==
    /\ l2.head = IF p = 1 THEN Place(n, q, 2) ELSE l.head
    /\ n > 1 => l2.tail = IF p = n THEN q[n - 1] ELSE l.tail
    /\ p > 1 => l2.next[q[p - 1]] = Place(n, q, p + 1)
    /\ p < n => l2.prev[q[p + 1]] = IF p = 1 THEN Null ELSE q[p - 1]
    /\ \A j \in 1..n : j # p - 1 /\ j # p => l2.next[q[j]] = l.next[q[j]]
    /\ \A j \in 1..n : j # p + 1 /\ j # p => l2.prev[q[j]] = l.prev[q[j]]

\* The pointers after the p-th timer is unlinked.
LEMMA RemoveLists ==
    ASSUME NEW l, NEW n, NEW q, Lists(l, n, q), NEW p \in 1..n,
           NEW l2, LinkedOut(l, l2, n, q, p)
    PROVE  Lists(l2, n - 1, Remove(n, q, p))
  <1> USE DEF LinkedOut
  <1> DEFINE r == Remove(n, q, p)
  <1>1. n \in Nat /\ n > 0
    BY DEF Lists
  <1>2. /\ r \in [1..(n - 1) -> Timers] /\ n - 1 \in Nat
        /\ \A i, j \in 1..(n - 1) : r[i] = r[j] => i = j
    BY RemoveFacts DEF Lists
  <1>3. \A j \in 1..(n - 1) : /\ j < p => r[j] = q[j]
                              /\ j >= p => r[j] = q[j + 1]
    BY DEF Remove
  <1> HIDE DEF r
  <1>4. l2.head = IF n - 1 = 0 THEN Null ELSE r[1]
    <2>1. CASE p = 1
      BY <2>1, <1>1, <1>3 DEF Place
    <2>2. CASE p > 1
      BY <2>2, <1>1, <1>3 DEF Lists
    <2> QED BY <2>1, <2>2, <1>1
  <1>5. ASSUME n - 1 > 0 PROVE l2.tail = r[n - 1] /\ l2.next[r[n - 1]] = Null
    <2>1. CASE p = n
      BY <1>5, <2>1, <1>1, <1>3 DEF Place
    <2>2. CASE p < n
      <3>1. r[n - 1] = q[n] /\ n \in 1..n /\ n # p - 1 /\ n # p
        BY <1>5, <2>2, <1>1, <1>3
      <3>2. l.next[q[n]] = Null /\ l.tail = q[n]
        BY <1>1 DEF Lists
      <3> QED BY <1>5, <2>2, <3>1, <3>2
    <2> QED BY <2>1, <2>2, <1>1
  <1>6. ASSUME n - 1 > 0 PROVE l2.prev[r[1]] = Null
    <2>1. CASE p = 1
      BY <1>6, <2>1, <1>1, <1>3
    <2>2. CASE p > 1
      <3>1. r[1] = q[1] /\ 1 \in 1..n /\ 1 # p + 1 /\ 1 # p
        BY <1>6, <2>2, <1>1, <1>3
      <3>2. l.prev[q[1]] = Null
        BY <1>1 DEF Lists
      <3> QED BY <3>1, <3>2
    <2> QED BY <2>1, <2>2, <1>1
  <1>7. ASSUME NEW i \in 1..((n - 1) - 1)
        PROVE  l2.next[r[i]] = r[i + 1] /\ l2.prev[r[i + 1]] = r[i]
    <2>0. \A j \in 1..(n - 1) : l.next[q[j]] = q[j + 1] /\ l.prev[q[j + 1]] = q[j]
      BY DEF Lists
    <2>1. CASE i + 1 < p
      <3>1. r[i] = q[i] /\ r[i + 1] = q[i + 1] /\ i \in 1..(n - 1) /\ i + 1 \in 1..n /\ i \in 1..n
        BY <2>1, <1>1, <1>3
      <3> QED BY <2>0, <2>1, <3>1, <1>1
    <2>2. CASE i + 1 = p
      <3>1. r[i] = q[p - 1] /\ r[i + 1] = q[p + 1] /\ p > 1 /\ p < n /\ p + 1 <= n
        BY <2>2, <1>1, <1>3
      <3> QED BY <3>1, <1>1 DEF Place
    <2>3. CASE i >= p
      <3>1. /\ r[i] = q[i + 1] /\ r[i + 1] = q[(i + 1) + 1] /\ i + 1 \in 1..(n - 1)
            /\ i + 1 \in 1..n /\ (i + 1) + 1 \in 1..n
        BY <2>3, <1>1, <1>3
      <3>2. i + 1 # p - 1 /\ i + 1 # p /\ (i + 1) + 1 # p + 1 /\ (i + 1) + 1 # p
        BY <2>3, <1>1
      <3>3. l2.next[q[i + 1]] = l.next[q[i + 1]]
        BY <3>1, <3>2
      <3>4. l2.prev[q[(i + 1) + 1]] = l.prev[q[(i + 1) + 1]]
        BY <3>1, <3>2
      <3> QED BY <2>0, <3>1, <3>3, <3>4
    <2> QED BY <2>1, <2>2, <2>3, <1>1
  <1> QED BY <1>2, <1>4, <1>5, <1>6, <1>7 DEF Lists, r

-----------------------------------------------------------------------------
(* The methods of sort_timer_lst.                                          *)

\* add_timer(timer, start) inserts at the place its loop finds.
LEMMA BehindListed ==
    ASSUME NEW l \in Pointers, NEW n, NEW q, Lists(l, n, q),
           NEW expire \in [Timers -> Int], Sorted(expire, n, q),
           NEW t \in Timers, t \notin Elements(n, q),
           NEW i \in 1..n, expire[q[i]] <= expire[t]
    PROVE  /\ add_timer_behind(l, expire, t, q[i]) \in Pointers
           /\ Listed(add_timer_behind(l, expire, t, q[i]), expire, Elements(n, q) \cup {t})
  <1> DEFINE x == l.next[q[i]]
             e == expire[t]
             s == Steps(l, x, expire, e)
             p == i + 1 + s
             tmp == Path(l, x)[s]
             l2 == add_timer_behind(l, expire, t, q[i])
  <1>1. n \in Nat /\ q \in [1..n -> Timers] /\ n > 0 /\ Null \notin Timers
    BY ListAssumption DEF Lists
  <1>2. x = Place(n, q, i + 1)
    BY DEF Lists, Place
  <1>3. i + 1 \in 1..(n + 1) /\ e \in Int
    BY <1>1
  <1>4. l2 = IF tmp # Null
             THEN [l EXCEPT !.next = [@ EXCEPT ![t] = tmp, ![l.prev[tmp]] = t],
                            !.prev = [@ EXCEPT ![t] = l.prev[tmp], ![tmp] = t]]
             ELSE [l EXCEPT !.next = [@ EXCEPT ![l.tail] = t, ![t] = Null],
                            !.prev[t] = l.tail,
                            !.tail = t]
    BY DEF add_timer_behind, StepsUntil, Steps, Ends
  <1> HIDE DEF x, e, l2
  <1>5. /\ s \in Nat /\ p <= n + 1
        /\ tmp = IF p <= n THEN q[p] ELSE Null
        /\ p <= n => e < expire[q[p]]
        /\ \A j \in (i + 1)..(p - 1) : expire[q[j]] <= e
    <2>1. Passes(l, n, q, i + 1, expire, e)
      BY <1>3, StepsFacts
    <2> QED BY <2>1, <1>2 DEF Passes, Place
  <1> HIDE DEF s, tmp
  <1>6. p \in 1..(n + 1) /\ p > 1 /\ p - 1 \in 1..n
    BY <1>1, <1>5
  <1> HIDE DEF p
  <1>7. \A j \in 1..(p - 1) : expire[q[j]] <= e
    <2> SUFFICES ASSUME NEW j \in 1..(p - 1) PROVE expire[q[j]] <= e
      OBVIOUS
    <2>1. CASE j <= i
      <3>1. j \in 1..n /\ expire[q[j]] <= expire[q[i]]
        BY <2>1, <1>1 DEF Sorted
      <3>2. expire[q[j]] \in Int /\ expire[q[i]] \in Int
        BY <3>1, <1>1
      <3> QED BY <3>1, <3>2, <1>3 DEF e
    <2>2. CASE j > i
      BY <2>2, <1>5
    <2> QED BY <2>1, <2>2
  <1>8. \A j \in p..n : e <= expire[q[j]]
    <2> SUFFICES ASSUME NEW j \in p..n PROVE e <= expire[q[j]]
      OBVIOUS
    <2>1. p \in 1..n /\ j \in 1..n /\ p <= j
      BY <1>1, <1>6
    <2>2. expire[q[p]] <= expire[q[j]] /\ e < expire[q[p]]
      BY <2>1, <1>5 DEF Sorted
    <2>3. expire[q[j]] \in Int /\ expire[q[p]] \in Int
      BY <2>1, <1>1
    <2> QED BY <2>2, <2>3, <1>3
  <1> DEFINE r == Insert(n, q, p, t)
  <1>9. /\ r \in [1..(n + 1) -> Timers]
        /\ \A a, b \in 1..(n + 1) : r[a] = r[b] => a = b
        /\ Sorted(expire, n + 1, r)
        /\ Elements(n + 1, r) = Elements(n, q) \cup {t}
    <2>1. \A a, b \in 1..n : q[a] = q[b] => a = b
      BY DEF Lists
    <2>2. Fits(expire, n, q, p, t)
      BY <1>7, <1>8 DEF Fits, e
    <2>3. Inserted(expire, n, q, p, t)
      BY <2>1, <2>2, <1>1, <1>6, InsertFacts
    <2> QED BY <2>3 DEF Inserted
  <1>10. \A j \in 1..n : q[j] \in Timers /\ q[j] # t
    BY <1>1 DEF Elements
  <1>11. \A a, b \in 1..n : q[a] = q[b] => a = b
    BY DEF Lists
  <1>12. Distinct(n + 1, r)
    BY <1>9 DEF Distinct
  <1>13. l2 \in Pointers /\ Lists(l2, n + 1, r)
    <2>1. CASE p <= n
      <3>1. tmp = q[p] /\ p \in 1..n /\ tmp \in Timers /\ tmp # Null /\ tmp # t
        BY <2>1, <1>1, <1>5, <1>6, <1>10
      <3>2. l.prev[tmp] = q[p - 1]
        <4>1. p - 1 \in 1..(n - 1) /\ (p - 1) + 1 = p
          BY <2>1, <1>1, <1>6
        <4> QED BY <3>1, <4>1 DEF Lists
      <3>3. q[p - 1] \in Timers /\ q[p - 1] # t
        BY <1>6, <1>10
      <3>4. /\ l2.head = l.head /\ l2.tail = l.tail
            /\ l2.next = [l.next EXCEPT ![t] = q[p], ![q[p - 1]] = t]
            /\ l2.prev = [l.prev EXCEPT ![t] = q[p - 1], ![q[p]] = t]
            /\ l2 \in Pointers
        BY <1>4, <3>1, <3>2, <3>3 DEF Pointers
      <3>5. l.next \in [Timers -> Timers \cup {Null}] /\ l.prev \in [Timers -> Timers \cup {Null}]
        BY DEF Pointers
      <3>6. /\ l2.next[t] = q[p] /\ l2.prev[t] = q[p - 1]
            /\ l2.next[q[p - 1]] = t /\ l2.prev[q[p]] = t
        BY <3>1, <3>3, <3>4, <3>5
      <3>7. \A j \in 1..n : j # p - 1 => l2.next[q[j]] = l.next[q[j]]
        BY <3>4, <3>5, <1>6, <1>10, <1>11
      <3>8. \A j \in 1..n : j # p => l2.prev[q[j]] = l.prev[q[j]]
        BY <3>1, <3>4, <3>5, <1>6, <1>10, <1>11
      <3>9. /\ l2.head = IF p = 1 THEN t ELSE l.head
            /\ l2.tail = IF p = n + 1 THEN t ELSE l.tail
            /\ l2.next[t] = Place(n, q, p)
            /\ l2.prev[t] = IF p = 1 THEN Null ELSE q[p - 1]
        BY <2>1, <3>4, <3>6, <1>1, <1>6 DEF Place
      <3> HIDE DEF r
      <3>10. LinkedIn(l, l2, n, q, p, t)
        BY <3>6, <3>7, <3>8, <3>9 DEF LinkedIn
      <3>11. Lists(l2, n + 1, Insert(n, q, p, t))
        BY <1>6, <1>12, <3>10, InsertLists DEF r
      <3> QED BY <3>4, <3>11 DEF r
    <2>2. CASE p = n + 1
      <3>1. tmp = Null /\ l.tail = q[n] /\ n \in 1..n /\ p - 1 = n
        BY <2>2, <1>1, <1>5 DEF Lists
      <3>2. /\ l2.head = l.head /\ l2.tail = t
            /\ l2.next = [l.next EXCEPT ![q[n]] = t, ![t] = Null]
            /\ l2.prev = [l.prev EXCEPT ![t] = q[n]]
            /\ l2 \in Pointers
        BY <1>4, <3>1, <1>10 DEF Pointers
      <3>3. l.next \in [Timers -> Timers \cup {Null}] /\ l.prev \in [Timers -> Timers \cup {Null}]
        BY DEF Pointers
      <3>4. /\ l2.next[t] = Null /\ l2.prev[t] = q[n] /\ l2.next[q[n]] = t
        BY <3>1, <3>2, <3>3, <1>10
      <3>5. \A j \in 1..n : j # n => l2.next[q[j]] = l.next[q[j]]
        BY <3>1, <3>2, <3>3, <1>10, <1>11
      <3>6. \A j \in 1..n : l2.prev[q[j]] = l.prev[q[j]]
        BY <3>1, <3>2, <3>3, <1>10
      <3>7. /\ l2.head = IF p = 1 THEN t ELSE l.head
            /\ l2.tail = IF p = n + 1 THEN t ELSE l.tail
            /\ l2.next[t] = Place(n, q, p)
            /\ l2.prev[t] = IF p = 1 THEN Null ELSE q[p - 1]
        BY <2>2, <3>1, <3>2, <3>4, <1>1, <1>6 DEF Place
      <3>8. /\ p > 1 => l2.next[q[p - 1]] = t
            /\ p <= n => l2.prev[q[p]] = t
            /\ \A j \in 1..n : j # p - 1 => l2.next[q[j]] = l.next[q[j]]
            /\ \A j \in 1..n : j # p => l2.prev[q[j]] = l.prev[q[j]]
        BY <2>2, <3>1, <3>4, <3>5, <3>6, <1>1
      <3> HIDE DEF r
      <3>9. LinkedIn(l, l2, n, q, p, t)
        BY <3>7, <3>8 DEF LinkedIn
      <3>10. Lists(l2, n + 1, Insert(n, q, p, t))
        BY <1>6, <1>12, <3>9, InsertLists DEF r
      <3> QED BY <3>2, <3>10 DEF r
    <2> QED BY <2>1, <2>2, <1>1, <1>6
  <1>14. n + 1 \in Nat
    BY <1>1
  <1> HIDE DEF r
  <1>15. Listed(l2, expire, Elements(n, q) \cup {t})
    BY <1>9, <1>13, <1>14 DEF Listed
  <1> QED BY <1>13, <1>15 DEF l2

\* l2 and l agree on the timers of S, and so does the order of their expiry.
SameLinks(l, l2, S) ==
    /\ l2.head = l.head /\ l2.tail = l.tail
    /\ \A x \in S : l2.next[x] = l.next[x] /\ l2.prev[x] = l.prev[x]
SameOrder(expire, expire2, S) ==
    \A x, y \in S : expire[x] <= expire[y] => expire2[x] <= expire2[y]

\* What is not in the list does not matter to it.
LEMMA FrameListed ==
    ASSUME NEW l, NEW expire, NEW S, Listed(l, expire, S),
           NEW l2, SameLinks(l, l2, S), NEW expire2, SameOrder(expire, expire2, S)
    PROVE  Listed(l2, expire2, S)
  <1>1. PICK n \in Nat : \E q \in [1..n -> Timers] :
            Lists(l, n, q) /\ Sorted(expire, n, q) /\ S = Elements(n, q)
    BY DEF Listed
  <1>2. PICK q \in [1..n -> Timers] :
            Lists(l, n, q) /\ Sorted(expire, n, q) /\ S = Elements(n, q)
    BY <1>1
  <1>3. \A i \in 1..n : q[i] \in S
    BY <1>2 DEF Elements
  <1>4. Lists(l2, n, q)
    <2>1. n > 0 => l2.tail = q[n] /\ l2.next[q[n]] = Null /\ l2.prev[q[1]] = Null
      BY <1>2, <1>3 DEF Lists, SameLinks
    <2>2. \A i \in 1..(n - 1) : l2.next[q[i]] = q[i + 1] /\ l2.prev[q[i + 1]] = q[i]
      BY <1>2, <1>3 DEF Lists, SameLinks
    <2> QED BY <1>2, <2>1, <2>2 DEF Lists, SameLinks
  <1>5. Sorted(expire2, n, q)
    BY <1>2, <1>3 DEF Sorted, SameOrder
  <1> QED BY <1>2, <1>4, <1>5 DEF Listed

\* add_timer() adds a new timer, whatever its expiry.
LEMMA AddListed ==
    ASSUME NEW l \in Pointers, NEW expire \in [Timers -> Int], NEW S,
           Listed(l, expire, S), NEW t \in Timers, t \notin S, NEW v \in Int,
           NEW expire2, expire2 = [expire EXCEPT ![t] = v]
    PROVE  /\ add_timer(NewTimer(l, t), expire2, t) \in Pointers
           /\ Listed(add_timer(NewTimer(l, t), expire2, t), expire2, S \cup {t})
  <1> DEFINE l1 == NewTimer(l, t)
             l2 == add_timer(l1, expire2, t)
  <1>1. /\ l1 \in Pointers /\ l1.head = l.head /\ l1.tail = l.tail
        /\ l1.prev = [l.prev EXCEPT ![t] = Null] /\ l1.next = [l.next EXCEPT ![t] = Null]
    BY DEF NewTimer, Pointers
  <1>2. l.prev \in [Timers -> Timers \cup {Null}] /\ l.next \in [Timers -> Timers \cup {Null}]
    BY DEF Pointers
  <1>3. S \subseteq Timers
    BY ListedFacts
  <1>4. l2 = IF l1.head = Null THEN [l1 EXCEPT !.head = t, !.tail = t]
             ELSE IF expire2[t] < expire2[l1.head]
             THEN [l1 EXCEPT !.prev[l1.head] = t, !.next[t] = l1.head, !.head = t]
             ELSE add_timer_behind(l1, expire2, t, l1.head)
    BY DEF add_timer
  <1> HIDE DEF l1, l2
  <1>5. Listed(l1, expire2, S)
    <2>1. SameLinks(l, l1, S)
      BY <1>1, <1>2, <1>3 DEF SameLinks
    <2>2. SameOrder(expire, expire2, S)
      BY <1>3 DEF SameOrder
    <2> QED BY <2>1, <2>2, FrameListed
  <1>6. expire2 \in [Timers -> Int]
    OBVIOUS
  <1>7. PICK n \in Nat : \E q \in [1..n -> Timers] :
            Lists(l1, n, q) /\ Sorted(expire2, n, q) /\ S = Elements(n, q)
    BY <1>5 DEF Listed
  <1>8. PICK q \in [1..n -> Timers] :
            Lists(l1, n, q) /\ Sorted(expire2, n, q) /\ S = Elements(n, q)
    BY <1>7
  <1>9. /\ l1.prev[t] = Null /\ l1.next[t] = Null
        /\ l1.prev \in [Timers -> Timers \cup {Null}]
        /\ l1.next \in [Timers -> Timers \cup {Null}]
    BY <1>1, <1>2
  <1>10. \A j \in 1..n : q[j] \in Timers /\ q[j] # t /\ expire2[q[j]] \in Int
    BY <1>6, <1>8 DEF Elements
  <1>11. Null \notin Timers
    BY ListAssumption
  <1>12. CASE n = 0 \/ expire2[t] < expire2[l1.head]
    <2>1. /\ l2.head = t /\ l2.next[t] = Place(n, q, 1) /\ l2.prev[t] = Null
          /\ l2.tail = IF n = 0 THEN t ELSE l1.tail
          /\ l2 \in Pointers
          /\ n > 0 => l2.prev[q[1]] = t
          /\ \A j \in 1..n : l2.next[q[j]] = l1.next[q[j]]
          /\ \A j \in 1..n : j # 1 => l2.prev[q[j]] = l1.prev[q[j]]
      <3>1. CASE n = 0
        <4>1. l1.head = Null
          BY <3>1, <1>8 DEF Lists
        <4>2. l2 = [l1 EXCEPT !.head = t, !.tail = t]
          BY <4>1, <1>4
        <4>3. /\ l2.head = t /\ l2.tail = t /\ l2 \in Pointers
              /\ l2.next = l1.next /\ l2.prev = l1.prev
          BY <4>2, <1>1 DEF Pointers
        <4> QED BY <3>1, <4>3, <1>9 DEF Place
      <3>2. CASE n > 0
        <4>1. l1.head = q[1] /\ 1 \in 1..n
          BY <3>2, <1>8 DEF Lists
        <4>2. l2 = [l1 EXCEPT !.prev[l1.head] = t, !.next[t] = l1.head, !.head = t]
          BY <3>2, <4>1, <1>10, <1>11, <1>12, <1>4
        <4>3. /\ l2.head = t /\ l2.tail = l1.tail
              /\ l2.next = [l1.next EXCEPT ![t] = q[1]]
              /\ l2.prev = [l1.prev EXCEPT ![q[1]] = t] /\ l2 \in Pointers
          BY <4>1, <4>2, <1>1, <1>10 DEF Pointers
        <4>4. \A j \in 1..n : j # 1 => q[j] # q[1]
          BY <4>1, <1>8 DEF Lists
        <4>5. l2.next[t] = q[1] /\ l2.prev[t] = Null /\ l2.prev[q[1]] = t
          BY <4>1, <4>3, <1>9, <1>10
        <4>6. \A j \in 1..n : l2.next[q[j]] = l1.next[q[j]]
          BY <4>3, <1>9, <1>10
        <4>7. \A j \in 1..n : j # 1 => l2.prev[q[j]] = l1.prev[q[j]]
          BY <4>1, <4>3, <4>4, <1>9, <1>10
        <4>8. l2.tail = IF n = 0 THEN t ELSE l1.tail
          BY <3>2, <4>3
        <4>9. Place(n, q, 1) = q[1]
          BY <3>2 DEF Place
        <4> QED BY <4>3, <4>5, <4>6, <4>7, <4>8, <4>9
      <3>3. n = 0 \/ n > 0
        OBVIOUS
      <3> QED BY <3>1, <3>2, <3>3
    <2>2. LinkedIn(l1, l2, n, q, 1, t)
      BY <2>1 DEF LinkedIn
    <2>3. \A j \in 1..n : expire2[t] <= expire2[q[j]]
      <3> SUFFICES ASSUME NEW j \in 1..n PROVE expire2[t] <= expire2[q[j]]
        OBVIOUS
      <3>1. 1 \in 1..n /\ l1.head = q[1]
        BY <1>8 DEF Lists
      <3>2. expire2[q[1]] <= expire2[q[j]]
        BY <3>1, <1>8 DEF Sorted
      <3>3. expire2[t] \in Int
        BY <1>6
      <3> QED BY <3>1, <3>2, <3>3, <1>10, <1>12
    <2> DEFINE r == Insert(n, q, 1, t)
    <2>4. /\ r \in [1..(n + 1) -> Timers]
          /\ \A a, b \in 1..(n + 1) : r[a] = r[b] => a = b
          /\ Sorted(expire2, n + 1, r)
          /\ Elements(n + 1, r) = Elements(n, q) \cup {t}
      <3>1. \A a, b \in 1..n : q[a] = q[b] => a = b
        BY <1>8 DEF Lists
      <3>2. 1 \in 1..(n + 1) /\ Fits(expire2, n, q, 1, t)
        BY <2>3 DEF Fits
      <3>3. t \notin Elements(n, q)
        BY <1>8
      <3>4. Inserted(expire2, n, q, 1, t)
        BY <3>1, <3>2, <3>3, <1>6, <1>8, InsertFacts
      <3> QED BY <3>4 DEF Inserted
    <2> HIDE DEF r
    <2>5. Lists(l2, n + 1, r)
      <3>1. Distinct(n + 1, r)
        BY <2>4 DEF Distinct
      <3>2. 1 \in 1..(n + 1)
        OBVIOUS
      <3> QED BY <3>1, <3>2, <2>2, <1>8, InsertLists DEF r
    <2>6. n + 1 \in Nat
      OBVIOUS
    <2>7. Listed(l2, expire2, S \cup {t})
      BY <2>4, <2>5, <2>6, <1>8 DEF Listed
    <2> QED BY <2>1, <2>7 DEF l1, l2
  <1>13. CASE n > 0 /\ ~(expire2[t] < expire2[l1.head])
    <2>1. l1.head = q[1] /\ 1 \in 1..n
      BY <1>8, <1>13 DEF Lists
    <2>2. l2 = add_timer_behind(l1, expire2, t, q[1])
      BY <2>1, <1>10, <1>11, <1>13, <1>4
    <2>3. expire2[q[1]] <= expire2[t]
      <3>1. expire2[t] \in Int
        BY <1>6
      <3> QED BY <3>1, <2>1, <1>10, <1>13
    <2>4. l2 \in Pointers /\ Listed(l2, expire2, Elements(n, q) \cup {t})
      BY <2>1, <2>2, <2>3, <1>1, <1>6, <1>8, BehindListed
    <2> QED BY <2>4, <1>8 DEF l1, l2
  <1> QED BY <1>12, <1>13

\* The same, without the sequence.
LEMMA InsertedBehind ==
    ASSUME NEW l \in Pointers, NEW expire \in [Timers -> Int], NEW S, Listed(l, expire, S),
           NEW t \in Timers, t \notin S, NEW y \in S, expire[y] <= expire[t]
    PROVE  /\ add_timer_behind(l, expire, t, y) \in Pointers
           /\ Listed(add_timer_behind(l, expire, t, y), expire, S \cup {t})
  <1>1. PICK n \in Nat : \E q \in [1..n -> Timers] :
            Lists(l, n, q) /\ Sorted(expire, n, q) /\ S = Elements(n, q)
    BY DEF Listed
  <1>2. PICK q \in [1..n -> Timers] :
            Lists(l, n, q) /\ Sorted(expire, n, q) /\ S = Elements(n, q)
    BY <1>1
  <1>3. PICK i \in 1..n : y = q[i]
    BY <1>2 DEF Elements
  <1> QED BY <1>2, <1>3, BehindListed

\* Unlinking the p-th timer takes it off the list.
LEMMA RemoveListed ==
    ASSUME NEW l, NEW expire \in [Timers -> Int], NEW n, NEW q,
           Lists(l, n, q), Sorted(expire, n, q),
           NEW p \in 1..n, NEW l2, LinkedOut(l, l2, n, q, p)
    PROVE  Listed(l2, expire, Elements(n, q) \ {q[p]})
  <1> DEFINE r == Remove(n, q, p)
  <1>1. /\ n - 1 \in Nat /\ r \in [1..(n - 1) -> Timers]
        /\ Sorted(expire, n - 1, r)
        /\ Elements(n - 1, r) = Elements(n, q) \ {q[p]}
    <2>1. /\ n \in Nat /\ q \in [1..n -> Timers]
          /\ \A i, j \in 1..n : q[i] = q[j] => i = j
      BY DEF Lists
    <2> QED BY <2>1, RemoveFacts
  <1>2. Lists(l2, n - 1, r)
    BY RemoveLists
  <1> HIDE DEF r
  <1> QED BY <1>1, <1>2 DEF Listed

\* Where a timer of the list is, and its neighbours.
Around(l, n, q, i) ==
    /\ n \in Nat /\ q[i] \in Timers /\ l.next[q[i]] = Place(n, q, i + 1)
    /\ l.prev[q[i]] = IF i = 1 THEN Null ELSE q[i - 1]
    /\ l.head = q[1] /\ l.tail = q[n]
    /\ q[i] = l.head <=> i = 1
    /\ q[i] = l.tail <=> i = n
    /\ i > 1 => q[i - 1] \in Timers
    /\ i < n => q[i + 1] \in Timers
    /\ \A j \in 1..n : q[j] \in Timers /\ (q[j] = q[i] => j = i)
    /\ i > 1 => \A j \in 1..n : q[j] = q[i - 1] => j = i - 1
    /\ i < n => \A j \in 1..n : q[j] = q[i + 1] => j = i + 1

\* The pointers of a timer of the list are its neighbours in the sequence.
LEMMA Neighbours ==
    ASSUME NEW l \in Pointers, NEW n, NEW q, Lists(l, n, q), NEW i \in 1..n
    PROVE  Around(l, n, q, i)
  <1>1. n \in Nat /\ n > 0 /\ q \in [1..n -> Timers] /\ 1 \in 1..n /\ n \in 1..n
    BY DEF Lists
  <1>2. \A a, b \in 1..n : q[a] = q[b] => a = b
    BY DEF Lists
  <1>3. l.head = q[1] /\ l.tail = q[n]
    BY <1>1 DEF Lists
  <1>4. l.next[q[i]] = Place(n, q, i + 1)
    BY <1>1 DEF Lists, Place
  <1>5. l.prev[q[i]] = IF i = 1 THEN Null ELSE q[i - 1]
    <2>1. CASE i = 1
      BY <2>1, <1>1 DEF Lists
    <2>2. CASE i > 1
      <3>1. i - 1 \in 1..(n - 1) /\ (i - 1) + 1 = i
        BY <2>2, <1>1
      <3> QED BY <2>2, <3>1 DEF Lists
    <2> QED BY <2>1, <2>2
  <1>6. i > 1 => i - 1 \in 1..n
    BY <1>1
  <1>7. i < n => i + 1 \in 1..n
    BY <1>1
  <1> QED BY <1>1, <1>2, <1>3, <1>4, <1>5, <1>6, <1>7 DEF Around

\* del_timer() unlinks its timer, wherever it is.
LEMMA DelListed ==
    ASSUME NEW l \in Pointers, NEW expire \in [Timers -> Int], NEW S, Listed(l, expire, S),
           NEW t \in S
    PROVE  del_timer(l, t) \in Pointers /\ Listed(del_timer(l, t), expire, S \ {t})
  <1>1. PICK n \in Nat : \E q \in [1..n -> Timers] :
            Lists(l, n, q) /\ Sorted(expire, n, q) /\ S = Elements(n, q)
    BY DEF Listed
  <1>2. PICK q \in [1..n -> Timers] :
            Lists(l, n, q) /\ Sorted(expire, n, q) /\ S = Elements(n, q)
    BY <1>1
  <1>3. PICK i \in 1..n : t = q[i]
    BY <1>2 DEF Elements
  <1> DEFINE l2 == del_timer(l, t)
  <1>4. l2 = IF t = l.head /\ t = l.tail THEN [l EXCEPT !.head = Null, !.tail = Null]
             ELSE IF t = l.head
             THEN [l EXCEPT !.prev[l.next[t]] = Null, !.head = l.next[t]]
             ELSE IF t = l.tail
             THEN [l EXCEPT !.next[l.prev[t]] = Null, !.tail = l.prev[t]]
             ELSE [l EXCEPT !.next[l.prev[t]] = l.next[t], !.prev[l.next[t]] = l.prev[t]]
    BY DEF del_timer
  <1> HIDE DEF l2
  <1>5. /\ l.next[t] = Place(n, q, i + 1) /\ l.prev[t] = IF i = 1 THEN Null ELSE q[i - 1]
        /\ l.head = q[1] /\ l.tail = q[n]
        /\ t = l.head <=> i = 1
        /\ t = l.tail <=> i = n
        /\ i > 1 => q[i - 1] \in Timers
        /\ i < n => q[i + 1] \in Timers
        /\ \A j \in 1..n : q[j] \in Timers
        /\ i > 1 => \A j \in 1..n : q[j] = q[i - 1] => j = i - 1
        /\ i < n => \A j \in 1..n : q[j] = q[i + 1] => j = i + 1
    <2>1. Around(l, n, q, i)
      BY <1>2, Neighbours
    <2> QED BY <2>1, <1>3 DEF Around
  <1>6. l.next \in [Timers -> Timers \cup {Null}] /\ l.prev \in [Timers -> Timers \cup {Null}]
    BY DEF Pointers
  <1>7. l2 \in Pointers /\ LinkedOut(l, l2, n, q, i)
    <2>1. CASE i = 1 /\ i = n
      <3>1. l2 = [l EXCEPT !.head = Null, !.tail = Null]
        BY <2>1, <1>4, <1>5
      <3>2. l2 \in Pointers /\ l2.head = Null /\ l2.next = l.next /\ l2.prev = l.prev
        BY <3>1 DEF Pointers
      <3> QED BY <2>1, <3>2 DEF LinkedOut, Place
    <2>2. CASE i = 1 /\ i < n
      <3>1. l2 = [l EXCEPT !.prev[l.next[t]] = Null, !.head = l.next[t]]
        BY <2>2, <1>4, <1>5
      <3>2. /\ l.next[t] = q[i + 1] /\ q[i + 1] \in Timers
            /\ Place(n, q, 2) = q[i + 1]
        BY <2>2, <1>5 DEF Place
      <3>3. /\ l2 \in Pointers /\ l2.head = q[i + 1] /\ l2.tail = l.tail /\ l2.next = l.next
            /\ l2.prev = [l.prev EXCEPT ![q[i + 1]] = Null]
        BY <3>1, <3>2 DEF Pointers
      <3>4. /\ l2.prev[q[i + 1]] = Null
            /\ \A j \in 1..n : j # i + 1 => l2.prev[q[j]] = l.prev[q[j]]
        BY <3>2, <3>3, <2>2, <1>5, <1>6
      <3> QED BY <2>2, <3>2, <3>3, <3>4 DEF LinkedOut
    <2>3. CASE i > 1 /\ i = n
      <3>1. l2 = [l EXCEPT !.next[l.prev[t]] = Null, !.tail = l.prev[t]]
        BY <2>3, <1>4, <1>5
      <3>2. l.prev[t] = q[i - 1] /\ q[i - 1] \in Timers /\ Place(n, q, i + 1) = Null
        BY <2>3, <1>5 DEF Place
      <3>3. /\ l2 \in Pointers /\ l2.head = l.head /\ l2.tail = q[i - 1] /\ l2.prev = l.prev
            /\ l2.next = [l.next EXCEPT ![q[i - 1]] = Null]
        BY <3>1, <3>2 DEF Pointers
      <3>4. /\ l2.next[q[i - 1]] = Null
            /\ \A j \in 1..n : j # i - 1 => l2.next[q[j]] = l.next[q[j]]
        BY <3>2, <3>3, <2>3, <1>5, <1>6
      <3> QED BY <2>3, <3>2, <3>3, <3>4 DEF LinkedOut
    <2>4. CASE i > 1 /\ i < n
      <3>1. l2 = [l EXCEPT !.next[l.prev[t]] = l.next[t], !.prev[l.next[t]] = l.prev[t]]
        BY <2>4, <1>4, <1>5
      <3>2. /\ l.prev[t] = q[i - 1] /\ q[i - 1] \in Timers
            /\ l.next[t] = q[i + 1] /\ q[i + 1] \in Timers /\ Place(n, q, i + 1) = q[i + 1]
        BY <2>4, <1>5 DEF Place
      <3>3. /\ l2 \in Pointers /\ l2.head = l.head /\ l2.tail = l.tail
            /\ l2.next = [l.next EXCEPT ![q[i - 1]] = q[i + 1]]
            /\ l2.prev = [l.prev EXCEPT ![q[i + 1]] = q[i - 1]]
        BY <3>1, <3>2 DEF Pointers
      <3>4. /\ l2.next[q[i - 1]] = q[i + 1]
            /\ \A j \in 1..n : j # i - 1 => l2.next[q[j]] = l.next[q[j]]
        BY <3>2, <3>3, <2>4, <1>5, <1>6
      <3>5. /\ l2.prev[q[i + 1]] = q[i - 1]
            /\ \A j \in 1..n : j # i + 1 => l2.prev[q[j]] = l.prev[q[j]]
        BY <3>2, <3>3, <2>4, <1>5, <1>6
      <3> QED BY <2>4, <3>2, <3>3, <3>4, <3>5 DEF LinkedOut
    <2> QED BY <2>1, <2>2, <2>3, <2>4
  <1>8. Listed(l2, expire, S \ {t})
    BY <1>2, <1>3, <1>7, RemoveListed
  <1> QED BY <1>7, <1>8 DEF l2

\* adjust_timer() moves a timer whose expiry was postponed to its new place.
LEMMA AdjustListed ==
    ASSUME NEW l \in Pointers, NEW expire \in [Timers -> Int], NEW S, Listed(l, expire, S),
           NEW t \in S, NEW v \in Int, expire[t] <= v,
           NEW expire2, expire2 = [expire EXCEPT ![t] = v]
    PROVE  /\ adjust_timer(l, expire2, t) \in Pointers
           /\ Listed(adjust_timer(l, expire2, t), expire2, S)
  <1>1. PICK n \in Nat : \E q \in [1..n -> Timers] :
            Lists(l, n, q) /\ Sorted(expire, n, q) /\ S = Elements(n, q)
    BY DEF Listed
  <1>2. PICK q \in [1..n -> Timers] :
            Lists(l, n, q) /\ Sorted(expire, n, q) /\ S = Elements(n, q)
    BY <1>1
  <1>3. PICK i \in 1..n : t = q[i]
    BY <1>2 DEF Elements
  <1>4. /\ t \in Timers /\ S \subseteq Timers
        /\ l.next[t] = Place(n, q, i + 1) /\ l.prev[t] = IF i = 1 THEN Null ELSE q[i - 1]
        /\ t = l.head <=> i = 1
        /\ i > 1 => q[i - 1] \in Timers
        /\ i < n => q[i + 1] \in Timers
        /\ \A j \in 1..n : q[j] \in Timers /\ (q[j] = t => j = i)
        /\ i > 1 => \A j \in 1..n : q[j] = q[i - 1] => j = i - 1
        /\ i < n => \A j \in 1..n : q[j] = q[i + 1] => j = i + 1
    <2>1. Around(l, n, q, i)
      BY <1>2, Neighbours
    <2> QED BY <2>1, <1>3, ListedFacts DEF Around
  <1>5. /\ expire2 \in [Timers -> Int] /\ expire2[t] = v
        /\ \A x \in Timers : x # t => expire2[x] = expire[x]
    BY <1>4
  <1>6. Null \notin Timers
    BY ListAssumption
  <1> DEFINE l2 == adjust_timer(l, expire2, t)
             y == l.next[t]
             head == [l EXCEPT !.head = y, !.prev[y] = Null, !.next[t] = Null]
             middle == [l EXCEPT !.prev[y] = l.prev[t], !.next[l.prev[t]] = y]
  <1>7. l2 = IF y = Null \/ expire2[t] < expire2[y] THEN l
             ELSE IF t = l.head THEN add_timer_behind(head, expire2, t, y)
             ELSE add_timer_behind(middle, expire2, t, y)
    BY DEF adjust_timer
  <1> HIDE DEF l2
  <1>8. CASE i = n \/ expire2[t] < expire2[y]
    <2>1. l2 = l
      BY <1>4, <1>6, <1>7, <1>8 DEF Place
    <2>2. Sorted(expire2, n, q)
      <3> SUFFICES ASSUME NEW a \in 1..n, NEW b \in 1..n, a <= b
                   PROVE  expire2[q[a]] <= expire2[q[b]]
        BY DEF Sorted
      <3>0. /\ \A c, d \in 1..n : c <= d => expire[q[c]] <= expire[q[d]]
            /\ \A c \in 1..n : expire[q[c]] \in Int /\ expire2[q[c]] \in Int
        BY <1>2, <1>4, <1>5 DEF Sorted
      <3>1. CASE a # i /\ b # i
        BY <3>0, <3>1, <1>4, <1>5
      <3>2. CASE a = i /\ b = i
        BY <3>0, <3>2
      <3>3. CASE a # i /\ b = i
        <4>1. expire[q[a]] <= expire[t] /\ expire2[q[a]] = expire[q[a]]
          BY <3>0, <3>3, <1>3, <1>4, <1>5
        <4> QED BY <4>1, <3>0, <3>3, <1>3, <1>5
      <3>4. CASE a = i /\ b # i
        <4>1. i < n /\ i + 1 \in 1..n /\ i + 1 <= b /\ y = q[i + 1] /\ i + 1 # i
          BY <3>4, <1>4 DEF Place
        <4>2. v < expire[q[i + 1]]
          BY <4>1, <1>4, <1>5, <1>8
        <4>3. expire[q[i + 1]] <= expire[q[b]] /\ expire2[q[b]] = expire[q[b]]
          BY <4>1, <3>0, <3>4, <1>4, <1>5
        <4>4. expire2[q[a]] = v
          BY <3>4, <1>3, <1>5
        <4> QED BY <4>1, <4>2, <4>3, <4>4, <3>0
      <3> QED BY <3>1, <3>2, <3>3, <3>4
    <2> QED BY <2>1, <2>2, <1>2 DEF Listed, l2
  <1>9. CASE i < n /\ ~(expire2[t] < expire2[y])
    <2>1. y = q[i + 1] /\ y \in Timers /\ y # t /\ y \in S /\ i + 1 \in 1..n
      BY <1>2, <1>4, <1>9 DEF Place, Elements
    <2>2. expire2[y] <= expire2[t]
      BY <2>1, <1>4, <1>5, <1>9
    <2>3. l.next \in [Timers -> Timers \cup {Null}] /\ l.prev \in [Timers -> Timers \cup {Null}]
      BY DEF Pointers
    <2> HIDE DEF y
    <2>4. ASSUME NEW u \in Pointers, LinkedOut(l, u, n, q, i)
          PROVE  /\ add_timer_behind(u, expire2, t, y) \in Pointers
                 /\ Listed(add_timer_behind(u, expire2, t, y), expire2, S)
      <3>1. Listed(u, expire, S \ {t})
        BY <2>4, <1>2, <1>3, RemoveListed
      <3>2. SameLinks(u, u, S \ {t}) /\ SameOrder(expire, expire2, S \ {t})
        BY <1>4, <1>5 DEF SameLinks, SameOrder
      <3>3. Listed(u, expire2, S \ {t})
        BY <3>1, <3>2, FrameListed
      <3>4. (S \ {t}) \cup {t} = S /\ y \in S \ {t}
        BY <2>1
      <3>5. t \in Timers /\ t \notin S \ {t}
        BY <1>4
      <3>6. /\ add_timer_behind(u, expire2, t, y) \in Pointers
            /\ Listed(add_timer_behind(u, expire2, t, y), expire2, (S \ {t}) \cup {t})
        BY <2>2, <3>3, <3>4, <3>5, <1>5, InsertedBehind
      <3> QED BY <3>4, <3>6
    <2>5. CASE i = 1
      <3>1. l2 = add_timer_behind(head, expire2, t, y)
        BY <2>1, <2>5, <1>4, <1>6, <1>7, <1>9
      <3>2. /\ head \in Pointers /\ head.head = y /\ head.tail = l.tail
            /\ head.next = [l.next EXCEPT ![t] = Null]
            /\ head.prev = [l.prev EXCEPT ![y] = Null]
        BY <2>1, <1>4 DEF Pointers
      <3> HIDE DEF head
      <3>3. \A j \in 1..n : j # i => head.next[q[j]] = l.next[q[j]]
        BY <3>2, <2>3, <1>4
      <3>4. /\ head.prev[y] = Null
            /\ \A j \in 1..n : j # i + 1 => head.prev[q[j]] = l.prev[q[j]]
        BY <3>2, <2>1, <2>3, <1>4, <1>9, SMTT(30)
      <3>5. Place(n, q, 2) = y
        BY <2>1, <2>5, <1>9 DEF Place
      <3>6. LinkedOut(l, head, n, q, i)
        BY <3>2, <3>3, <3>4, <3>5, <2>1, <2>5, <1>9, SMTT(30) DEF LinkedOut
      <3> QED BY <3>1, <3>2, <3>6, <2>4 DEF l2
    <2>6. CASE i > 1
      <3>1. l2 = add_timer_behind(middle, expire2, t, y)
        BY <2>1, <2>6, <1>4, <1>6, <1>7, <1>9
      <3>2. l.prev[t] = q[i - 1] /\ q[i - 1] \in Timers
        BY <2>6, <1>4
      <3>3. /\ middle \in Pointers /\ middle.head = l.head /\ middle.tail = l.tail
            /\ middle.next = [l.next EXCEPT ![q[i - 1]] = y]
            /\ middle.prev = [l.prev EXCEPT ![y] = q[i - 1]]
        BY <3>2, <2>1, <1>4 DEF Pointers
      <3> HIDE DEF middle
      <3>4. /\ middle.next[q[i - 1]] = y
            /\ \A j \in 1..n : j # i - 1 => middle.next[q[j]] = l.next[q[j]]
        BY <3>2, <3>3, <2>3, <2>6, <1>4
      <3>5. /\ middle.prev[y] = q[i - 1]
            /\ \A j \in 1..n : j # i + 1 => middle.prev[q[j]] = l.prev[q[j]]
        BY <3>3, <2>1, <2>3, <1>4, <1>9
      <3>6. Place(n, q, i + 1) = y
        BY <2>1 DEF Place
      <3>7. LinkedOut(l, middle, n, q, i)
        BY <3>3, <3>4, <3>5, <3>6, <2>1, <2>6, <1>9 DEF LinkedOut
      <3> QED BY <3>1, <3>3, <3>7, <2>4 DEF l2
    <2> QED BY <2>5, <2>6
  <1> QED BY <1>8, <1>9

Ticked(l, expire, S, now) ==
    /\ Fired(l, expire, now) = {x \in S : expire[x] <= now}
    /\ tick(l, expire, now) \in Pointers
    /\ Listed(tick(l, expire, now), expire, {x \in S : now < expire[x]})

\* tick() takes off just the timers that have expired.
LEMMA TickListed ==
    ASSUME NEW l \in Pointers, NEW expire \in [Timers -> Int], NEW S, Listed(l, expire, S),
           NEW now \in Int
    PROVE  Ticked(l, expire, S, now)
  <1>1. PICK n \in Nat : \E q \in [1..n -> Timers] :
            Lists(l, n, q) /\ Sorted(expire, n, q) /\ S = Elements(n, q)
    BY DEF Listed
  <1>2. PICK q \in [1..n -> Timers] :
            Lists(l, n, q) /\ Sorted(expire, n, q) /\ S = Elements(n, q)
    BY <1>1
  <1> DEFINE p == Path(l, l.head)
             s == Steps(l, l.head, expire, now)
             h == p[s]
             l2 == tick(l, expire, now)
             F == Fired(l, expire, now)
  <1>3. F = {p[k] : k \in 0..(s - 1)}
    BY DEF Fired, StepsUntil, Steps, Ends
  <1>4. l2 = IF h = Null \/ h = l.head THEN [l EXCEPT !.head = h]
             ELSE [l EXCEPT !.head = h, !.prev[h] = Null]
    BY DEF tick, StepsUntil, Steps, Ends
  <1>5. l.head = Place(n, q, 1)
    BY <1>2 DEF Lists, Place
  <1>6. /\ s \in Nat /\ s <= n
        /\ s < n => now < expire[q[s + 1]]
        /\ \A j \in 1..s : expire[q[j]] <= now
        /\ \A k \in 0..s : p[k] = Place(n, q, 1 + k)
    <2>1. 1 \in 1..(n + 1)
      OBVIOUS
    <2>2. Passes(l, n, q, 1, expire, now)
      BY <2>1, <1>2, StepsFacts
    <2>3. /\ s \in Nat /\ 1 + s <= n + 1
          /\ 1 + s <= n => now < expire[q[1 + s]]
          /\ \A j \in 1..(1 + s - 1) : expire[q[j]] <= now
          /\ \A k \in 0..s : p[k] = Place(n, q, 1 + k)
      BY <2>2, <1>5 DEF Passes
    <2> HIDE DEF s, p
    <2>4. 1 + s - 1 = s /\ 1 + s = s + 1
      BY <2>3
    <2> QED BY <2>3, <2>4
  <1> HIDE DEF p, s, l2, F
  <1>7. \A j \in 1..n : q[j] \in Timers /\ expire[q[j]] \in Int
    OBVIOUS
  <1>8. \A j \in (s + 1)..n : now < expire[q[j]]
    <2> SUFFICES ASSUME NEW j \in (s + 1)..n PROVE now < expire[q[j]]
      OBVIOUS
    <2>1. s + 1 \in 1..n /\ j \in 1..n /\ s + 1 <= j
      BY <1>6
    <2>2. expire[q[s + 1]] <= expire[q[j]]
      BY <2>1, <1>2 DEF Sorted
    <2> QED BY <2>1, <2>2, <1>6, <1>7
  <1>9. F = {x \in S : expire[x] <= now}
    <2>1. ASSUME NEW x \in F PROVE x \in S /\ expire[x] <= now
      <3>1. PICK k \in 0..(s - 1) : x = p[k]
        BY <1>3
      <3>2. 1 + k \in 1..s /\ 1 + k \in 1..n /\ x = q[1 + k]
        BY <3>1, <1>6 DEF Place
      <3> QED BY <3>2, <1>2, <1>6 DEF Elements
    <2>2. ASSUME NEW j \in 1..n, expire[q[j]] <= now PROVE q[j] \in F
      <3>1. j <= s
        BY <2>2, <1>6, <1>7, <1>8
      <3>2. j - 1 \in 0..(s - 1) /\ j - 1 \in 0..s /\ 1 + (j - 1) = j
        BY <3>1, <1>6
      <3>3. p[j - 1] = q[j]
        BY <3>2, <1>6 DEF Place
      <3> QED BY <3>2, <3>3, <1>3
    <2>3. \A x \in S : expire[x] <= now => x \in F
      BY <2>2, <1>2 DEF Elements
    <2> QED BY <2>1, <2>3
  <1> DEFINE m == n - s
             r == [j \in 1..m |-> q[j + s]]
  <1>10. h = Place(n, q, s + 1) /\ m \in Nat
    BY <1>6
  <1> HIDE DEF h
  <1>11. /\ \A j \in 1..m : j + s \in 1..n /\ r[j] = q[j + s]
         /\ r \in [1..m -> Timers] /\ m \in Nat
    BY <1>6, <1>10
  <1>12. \A a, b \in 1..m : r[a] = r[b] => a = b
    <2> SUFFICES ASSUME NEW a \in 1..m, NEW b \in 1..m, r[a] = r[b] PROVE a = b
      OBVIOUS
    <2>1. a + s = b + s
      BY <1>2, <1>11 DEF Lists
    <2> QED BY <2>1, <1>6
  <1>13. Sorted(expire, m, r)
    <2> SUFFICES ASSUME NEW a \in 1..m, NEW b \in 1..m, a <= b
                 PROVE  expire[r[a]] <= expire[r[b]]
      BY DEF Sorted
    <2>1. a + s <= b + s
      BY <1>6
    <2> QED BY <2>1, <1>2, <1>11 DEF Sorted
  <1>14. Elements(m, r) = {x \in S : now < expire[x]}
    <2>1. ASSUME NEW a \in 1..m PROVE r[a] \in S /\ now < expire[r[a]]
      <3>1. a + s \in (s + 1)..n
        BY <1>6, <1>11
      <3> QED BY <3>1, <1>2, <1>8, <1>11 DEF Elements
    <2>2. ASSUME NEW j \in 1..n, now < expire[q[j]] PROVE q[j] \in Elements(m, r)
      <3>1. j > s
        BY <2>2, <1>6, <1>7
      <3>2. j - s \in 1..m /\ (j - s) + s = j
        BY <3>1, <1>6
      <3>3. r[j - s] = q[j]
        BY <3>2, <1>11
      <3> HIDE DEF r, m
      <3> QED BY <3>2, <3>3 DEF Elements
    <2> HIDE DEF r, m
    <2>3. \A x \in Elements(m, r) : x \in S /\ now < expire[x]
      BY <2>1 DEF Elements
    <2>4. \A x \in S : now < expire[x] => x \in Elements(m, r)
      BY <2>2, <1>2 DEF Elements
    <2> QED BY <2>3, <2>4
  <1>15. l2 \in Pointers /\ l2.head = h /\ l2.tail = l.tail /\ l2.next = l.next
    <2>1. h \in Timers \cup {Null}
      <3>1. s + 1 <= n => s + 1 \in 1..n
        BY <1>6
      <3> QED BY <3>1, <1>7, <1>10 DEF Place
    <2>2. CASE h = Null \/ h = l.head
      BY <2>1, <2>2, <1>4 DEF Pointers
    <2>3. CASE ~(h = Null \/ h = l.head)
      BY <2>1, <2>3, <1>4 DEF Pointers
    <2> QED BY <2>2, <2>3
  <1>16. /\ h = IF m = 0 THEN Null ELSE r[1]
         /\ m > 0 => l2.prev[r[1]] = Null
         /\ \A j \in 1..n : j # s + 1 => l2.prev[q[j]] = l.prev[q[j]]
    <2>1. CASE m = 0
      <3>1. h = Null
        BY <2>1, <1>6, <1>10 DEF Place
      <3>2. l2.prev = l.prev
        BY <3>1, <1>4 DEF Pointers
      <3> QED BY <2>1, <3>1, <3>2
    <2>2. CASE m > 0
      <3>1. h = r[1] /\ h = q[s + 1] /\ s + 1 \in 1..n /\ h \in Timers /\ h # Null
        BY <2>2, <1>6, <1>7, <1>10, <1>11, ListAssumption DEF Place
      <3>2. CASE h = l.head
        <4>1. l2.prev = l.prev
          BY <3>2, <1>4 DEF Pointers
        <4>2. h = q[1] /\ n > 0
          BY <3>1, <3>2, <1>2 DEF Lists
        <4>3. l.prev[h] = Null
          BY <4>2, <1>2 DEF Lists
        <4> QED BY <2>2, <3>1, <4>1, <4>3
      <3>3. CASE h # l.head
        <4>1. l2.prev = [l.prev EXCEPT ![h] = Null]
          BY <3>1, <3>3, <1>4 DEF Pointers
        <4>2. l.prev \in [Timers -> Timers \cup {Null}]
          BY DEF Pointers
        <4>3. \A j \in 1..n : j # s + 1 => q[j] # h
          BY <3>1, <1>2 DEF Lists
        <4>4. l2.prev[h] = Null
          BY <3>1, <4>1, <4>2
        <4>5. \A j \in 1..n : j # s + 1 => l2.prev[q[j]] = l.prev[q[j]]
          BY <3>1, <4>1, <4>2, <4>3, <1>7
        <4> QED BY <2>2, <3>1, <4>4, <4>5
      <3> QED BY <3>2, <3>3
    <2> QED BY <2>1, <2>2, <1>10
  <1>17. Lists(l2, m, r)
    <2>1. ASSUME m > 0 PROVE l2.tail = r[m] /\ l2.next[r[m]] = Null
      <3>1. m \in 1..m /\ m + s = n /\ n > 0
        BY <2>1, <1>6, <1>10
      <3>2. r[m] = q[n]
        BY <3>1, <1>11
      <3> QED BY <3>1, <3>2, <1>2, <1>15 DEF Lists
    <2>2. ASSUME NEW a \in 1..(m - 1)
          PROVE  l2.next[r[a]] = r[a + 1] /\ l2.prev[r[a + 1]] = r[a]
      <3>1. /\ a \in 1..m /\ a + 1 \in 1..m /\ a + s \in 1..(n - 1)
            /\ (a + 1) + s = (a + s) + 1 /\ (a + s) + 1 # s + 1 /\ (a + s) + 1 \in 1..n
        BY <1>6, <1>10
      <3>2. r[a] = q[a + s] /\ r[a + 1] = q[(a + s) + 1]
        BY <3>1, <1>11
      <3>3. l.next[q[a + s]] = q[(a + s) + 1] /\ l.prev[q[(a + s) + 1]] = q[a + s]
        BY <3>1, <1>2 DEF Lists
      <3> QED BY <3>1, <3>2, <3>3, <1>15, <1>16
    <2> HIDE DEF r, m
    <2> QED BY <2>1, <2>2, <1>11, <1>12, <1>15, <1>16 DEF Lists
  <1> HIDE DEF r, m
  <1>18. Listed(l2, expire, {x \in S : now < expire[x]})
    BY <1>11, <1>13, <1>14, <1>17 DEF Listed
  <1> QED BY <1>9, <1>15, <1>18 DEF F, l2, Ticked

-----------------------------------------------------------------------------
(* The server.  Every open connection has a timer of its own in the list,  *)
(* and its time left and its idle time make up its lifetime.               *)
Matched ==
    /\ lst \in Pointers /\ Listed(lst, ttl, live)
    /\ live = {timer[c] : c \in open}
    /\ \A c \in open : owner[timer[c]] = c /\ ttl[timer[c]] + idle[c] = Lifetime

\* What is in the batch can be handled.
Waiting ==
    /\ stage = "wait" => batch = {}
    /\ ListenFd \in batch => backlog > 0
    /\ \A c \in Conns : c \in batch => c \in open

\* The next tick is announced in one of three ways.
Chain ==
    Running => /\ \/ alarm > 0 /\ "ALRM" \notin pipe /\ ~timeout
                  \/ alarm = 0 /\ "ALRM" \in pipe /\ ~timeout
                  \/ alarm = 0 /\ "ALRM" \notin pipe /\ timeout
               /\ pipe # {} => PipeFd \in ready \cup batch

\* The inductive invariant of the server.
IInv == TypeOK /\ Matched /\ Waiting /\ Chain

\* The constants.
LEMMA ServerFacts ==
    /\ TIMESLOT \in Nat /\ TIMESLOT > 0 /\ Lifetime \in Nat /\ Lifetime > 0
    /\ MaxBacklog \in Nat /\ MaxData \in Nat /\ Conns \subseteq Nat
    /\ ListenFd # PipeFd /\ ListenFd \notin Conns /\ PipeFd \notin Conns
    /\ Null \notin Timers
  BY ServerAssumption, ListAssumption DEF Lifetime

\* accept() returns the lowest descriptor that is free.
LEMMA LowestFree ==
    ASSUME open \subseteq Conns, open # Conns
    PROVE  LowestFd(Conns \ open) \in Conns \ open
  <1>1. Conns \ open \in SUBSET Nat /\ Conns \ open # {}
    BY ServerFacts
  <1>2. \E x \in Conns \ open : \A y \in Conns \ open : x <= y
    BY <1>1, LeastOf
  <1> QED BY <1>2 DEF LowestFd

\* The server starts without connections and with an alarm.
LEMMA InitInv == Init => IInv
  <1> SUFFICES ASSUME Init PROVE IInv
    OBVIOUS
  <1> USE ServerFacts
  <1>1. TypeOK
    <2>1. ttl \in [Timers -> 0..Lifetime] /\ idle \in [Conns -> 0..Lifetime]
      BY DEF Init
    <2>2. data \in [Conns -> 0..MaxData] /\ backlog \in 0..MaxBacklog /\ alarm \in 0..TIMESLOT
      BY DEF Init
    <2>3. owner \in [Timers -> Conns \cup {Null}] /\ timer \in [Conns -> Timers \cup {Null}]
      BY DEF Init
    <2> QED BY <2>1, <2>2, <2>3 DEF Init, TypeOK
  <1>2. Matched
    <2>1. lst \in Pointers /\ lst.head = Null
      BY DEF Init, EmptyList, Pointers
    <2> DEFINE q == [i \in 1..0 |-> Null]
    <2>2. q \in [1..0 -> Timers] /\ 0 \in Nat /\ 1..0 = {}
      OBVIOUS
    <2>3. Lists(lst, 0, q) /\ Sorted(ttl, 0, q) /\ live = Elements(0, q)
      BY <2>1, <2>2 DEF Lists, Sorted, Elements, Init
    <2> HIDE DEF q
    <2>4. Listed(lst, ttl, live)
      BY <2>2, <2>3 DEF Listed
    <2> QED BY <2>1, <2>4 DEF Matched, Init
  <1>3. Waiting /\ Chain
    BY DEF Init, Waiting, Chain
  <1> QED BY <1>1, <1>2, <1>3 DEF IInv

\* A step of the specification is a step of one of its actions.
LEMMA Actions ==
    ASSUME [Next]_vars
    PROVE  \/ UNCHANGED vars
           \/ Running /\ (Connect \/ Terminate \/ Clock)
           \/ \E c \in Conns : ClientSends(c) \/ ClientLeaves(c)
           \/ EpollWait \/ Accept \/ AcceptFails \/ ReadSignals \/ EndBatch
           \/ \E c \in Conns : ReadData(c) \/ ReadEnd(c)
  BY DEF Next, MainStep, WorldStep

\* The timers of open connections.
LEMMA TimerOf ==
    ASSUME TypeOK, Matched, NEW c \in open
    PROVE  /\ timer[c] \in live /\ timer[c] \in Timers /\ owner[timer[c]] = c
           /\ ttl[timer[c]] + idle[c] = Lifetime
           /\ \A d \in open : timer[d] = timer[c] => d = c
  BY DEF TypeOK, Matched

\* tick() fires the timers of the connections that were idle for their lifetime.
LEMMA FiredFacts ==
    ASSUME TypeOK, Matched
    PROVE  /\ Fired(lst, ttl, 0) = {timer[c] : c \in {d \in open : idle[d] = Lifetime}}
           /\ {owner[t] : t \in Fired(lst, ttl, 0)} = {d \in open : idle[d] = Lifetime}
           /\ Fired(lst, ttl, 0) \subseteq live
           /\ tick(lst, ttl, 0) \in Pointers
           /\ Listed(tick(lst, ttl, 0), ttl, live \ Fired(lst, ttl, 0))
  <1> USE ServerFacts
  <1> DEFINE F == Fired(lst, ttl, 0)
  <1>1. ttl \in [Timers -> Int] /\ \A t \in Timers : ttl[t] \in Nat
    BY DEF TypeOK
  <1>2. /\ F = {t \in live : ttl[t] <= 0}
        /\ tick(lst, ttl, 0) \in Pointers
        /\ Listed(tick(lst, ttl, 0), ttl, {t \in live : 0 < ttl[t]})
    <2>1. lst \in Pointers /\ Listed(lst, ttl, live) /\ 0 \in Int
      BY DEF Matched
    <2>2. Ticked(lst, ttl, live, 0)
      BY <2>1, <1>1, TickListed
    <2> QED BY <2>2 DEF Ticked
  <1> HIDE DEF F
  <1>3. {t \in live : 0 < ttl[t]} = live \ F
    BY <1>1, <1>2 DEF TypeOK
  <1>4. \A c \in open : idle[c] \in Nat
    BY DEF TypeOK
  <1>5. \A c \in open : timer[c] \in F <=> idle[c] = Lifetime
    BY <1>1, <1>2, <1>4, TimerOf
  <1>6. \A t \in F : \E c \in open : t = timer[c]
    BY <1>2 DEF Matched
  <1>7. F = {timer[c] : c \in {d \in open : idle[d] = Lifetime}}
    BY <1>5, <1>6
  <1>8. {owner[t] : t \in F} = {d \in open : idle[d] = Lifetime}
    BY <1>5, <1>6, TimerOf
  <1> QED BY <1>2, <1>3, <1>7, <1>8 DEF F

\* cb_func() keeps the types of what it touches.
LEMMA CloseFacts ==
    ASSUME TypeOK, NEW C, cb_func(C)
    PROVE  /\ open' = open \ C /\ open' \subseteq Conns /\ gone' \subseteq open'
           /\ data' \in [Conns -> 0..MaxData] /\ idle' \in [Conns -> 0..Lifetime]
           /\ \A c \in open' : idle'[c] = idle[c]
           /\ ready' = ready \ C /\ backlog' = backlog
  <1> USE ServerFacts
  <1>1. 0 \in 0..MaxData /\ 0 \in 0..Lifetime
    OBVIOUS
  <1> QED BY <1>1 DEF cb_func, TypeOK

\* delete leaves the timers of the list alone.
LEMMA DeleteFacts ==
    ASSUME TypeOK, NEW l \in Pointers, NEW T, NEW S, Listed(l, ttl, S), S \cap T = {},
           delete(l, T)
    PROVE  /\ lst' \in Pointers /\ Listed(lst', ttl', S)
           /\ live' = live \ T /\ ttl' \in [Timers -> 0..Lifetime]
           /\ owner' \in [Timers -> Conns \cup {Null}]
           /\ \A t \in Timers \ T : ttl'[t] = ttl[t] /\ owner'[t] = owner[t]
  <1> USE ServerFacts
  <1>1. S \subseteq Timers
    BY ListedFacts
  <1>2. ttl' \in [Timers -> 0..Lifetime] /\ \A t \in Timers \ T : ttl'[t] = ttl[t]
    <2>1. 0 \in 0..Lifetime
      OBVIOUS
    <2> QED BY <2>1 DEF delete, TypeOK
  <1>3. /\ owner' \in [Timers -> Conns \cup {Null}]
        /\ \A t \in Timers \ T : owner'[t] = owner[t]
    BY DEF delete, TypeOK
  <1>4. /\ lst' \in Pointers /\ lst'.head = l.head /\ lst'.tail = l.tail
        /\ lst'.prev = [t \in Timers |-> IF t \in T THEN Null ELSE l.prev[t]]
        /\ lst'.next = [t \in Timers |-> IF t \in T THEN Null ELSE l.next[t]]
    BY DEF delete, Pointers
  <1>5. SameLinks(l, lst', S)
    BY <1>1, <1>4 DEF SameLinks
  <1>6. SameOrder(ttl, ttl', S)
    BY <1>1, <1>2 DEF SameOrder
  <1>7. Listed(lst', ttl', S)
    BY <1>5, <1>6, FrameListed
  <1> QED BY <1>2, <1>3, <1>4, <1>7 DEF delete

\* What the list of timers has to do with is left alone.
LEMMA MatchedSame ==
    ASSUME Matched, UNCHANGED <<lists, open, idle>>
    PROVE  Matched'
  BY DEF Matched, lists

\* New events of the world leave the types as they are.
LEMMA WorldStepInv ==
    ASSUME IInv,
           \/ Running /\ (Connect \/ Terminate)
           \/ \E c \in Conns : ClientSends(c) \/ ClientLeaves(c)
    PROVE  IInv'
  <1> USE ServerFacts
  <1>1. CASE Running /\ Connect
    <2>1. TypeOK'
      <3>1. backlog' \in 0..MaxBacklog
        BY <1>1 DEF IInv, TypeOK, Connect
      <3> QED BY <1>1, <3>1 DEF IInv, TypeOK, Connect, sigs, lists
    <2>2. Matched'
      BY <1>1, MatchedSame DEF IInv, Connect
    <2>3. Waiting' /\ Chain'
      BY <1>1 DEF IInv, TypeOK, Waiting, Chain, Running, Connect, sigs
    <2> QED BY <2>1, <2>2, <2>3 DEF IInv
  <1>2. CASE Running /\ Terminate
    <2>1. TypeOK'
      BY <1>2 DEF IInv, TypeOK, Terminate, sig_handler, net, lists
    <2>2. Matched'
      BY <1>2, MatchedSame DEF IInv, Terminate, net
    <2>3. Waiting'
      BY <1>2 DEF IInv, Waiting, Terminate, net
    <2>4. Chain'
      <3>1. "ALRM" \in pipe' <=> "ALRM" \in pipe
        BY <1>2 DEF Terminate, sig_handler
      <3>2. PipeFd \in ready'
        BY <1>2 DEF Terminate, sig_handler
      <3> QED BY <1>2, <3>1, <3>2 DEF IInv, Chain, Running, Terminate
    <2> QED BY <2>1, <2>2, <2>3, <2>4 DEF IInv
  <1>3. ASSUME NEW c \in Conns, ClientSends(c) PROVE IInv'
    <2>1. TypeOK'
      <3>1. data' \in [Conns -> 0..MaxData]
        <4>1. data[c] + 1 \in 0..MaxData
          BY <1>3 DEF IInv, TypeOK, ClientSends
        <4> QED BY <1>3, <4>1 DEF IInv, TypeOK, ClientSends
      <3> QED BY <1>3, <3>1 DEF IInv, TypeOK, ClientSends, sigs, lists
    <2>2. Matched'
      BY <1>3, MatchedSame DEF IInv, ClientSends
    <2>3. Waiting' /\ Chain'
      BY <1>3 DEF IInv, Waiting, Chain, Running, ClientSends, sigs
    <2> QED BY <2>1, <2>2, <2>3 DEF IInv
  <1>4. ASSUME NEW c \in Conns, ClientLeaves(c) PROVE IInv'
    <2>1. TypeOK'
      BY <1>4 DEF IInv, TypeOK, ClientLeaves, sigs, lists
    <2>2. Matched'
      BY <1>4, MatchedSame DEF IInv, ClientLeaves
    <2>3. Waiting' /\ Chain'
      BY <1>4 DEF IInv, Waiting, Chain, Running, ClientLeaves, sigs
    <2> QED BY <2>1, <2>2, <2>3 DEF IInv
  <1> QED BY <1>1, <1>2, <1>3, <1>4

\* A second takes the same off every timer and adds it to the idle times.
LEMMA ClockStep ==
    ASSUME IInv, Running, Clock
    PROVE  IInv'
  <1> USE ServerFacts
  <1>1. \A k \in Nat : Less(k) \in Nat /\ Less(k) <= k
    BY DEF Less
  <1>2. /\ ttl' = [t \in Timers |-> Less(ttl[t])]
        /\ \A t \in Timers : ttl[t] \in Nat /\ ttl[t] <= Lifetime
    BY DEF Clock, IInv, TypeOK
  <1>3. ttl' \in [Timers -> 0..Lifetime]
    BY <1>1, <1>2
  <1>4. /\ \A c \in Conns : /\ idle[c] \in Nat /\ idle[c] <= Lifetime
                            /\ idle'[c] = IF c \in open /\ idle[c] < Lifetime
                                          THEN idle[c] + 1 ELSE idle[c]
        /\ idle' = [c \in Conns |-> idle'[c]]
    BY DEF Clock, IInv, TypeOK
  <1>5. idle' \in [Conns -> 0..Lifetime]
    BY <1>4
  <1>6. alarm \in Nat /\ alarm <= TIMESLOT /\ alarm' = Less(alarm) /\ alarm' \in 0..TIMESLOT
    BY <1>1 DEF Clock, IInv, TypeOK
  <1>7. TypeOK'
    BY <1>3, <1>5, <1>6 DEF Clock, sig_handler, net, IInv, TypeOK
  <1>8. Matched'
    <2>1. SameLinks(lst, lst', live) /\ lst' = lst /\ live' = live /\ timer' = timer
          /\ owner' = owner /\ open' = open
      BY DEF Clock, SameLinks, net
    <2>2. SameOrder(ttl, ttl', live)
      BY <1>2 DEF SameOrder, IInv, TypeOK, Less
    <2>3. Listed(lst', ttl', live)
      BY <2>1, <2>2, FrameListed DEF IInv, Matched
    <2>4. ASSUME NEW c \in open PROVE ttl'[timer[c]] + idle'[c] = Lifetime
      <3>1. c \in Conns /\ timer[c] \in Timers /\ ttl[timer[c]] + idle[c] = Lifetime
        BY TimerOf DEF IInv, TypeOK
      <3>2. ttl'[timer[c]] = Less(ttl[timer[c]])
        BY <3>1, <1>2
      <3> QED BY <3>1, <3>2, <1>2, <1>4 DEF Less
    <2> QED BY <2>1, <2>3, <2>4 DEF IInv, Matched
  <1>9. Waiting'
    BY DEF Clock, net, IInv, Waiting
  <1>10. Chain'
    <2>1. CASE alarm = 1
      <3>1. pipe' = pipe \cup {"ALRM"} /\ PipeFd \in ready' /\ alarm' = 0
        BY <2>1, <1>6 DEF Clock, sig_handler, Less
      <3> QED BY <2>1, <3>1 DEF Clock, IInv, Chain, Running
    <2>2. CASE alarm # 1
      <3>1. /\ pipe' = pipe /\ ready' = ready
            /\ (alarm' > 0 <=> alarm > 0) /\ (alarm' = 0 <=> alarm = 0)
        BY <2>2, <1>6 DEF Clock, sig_handler, Less
      <3> QED BY <3>1 DEF Clock, IInv, Chain, Running
    <2> QED BY <2>1, <2>2
  <1> QED BY <1>7, <1>8, <1>9, <1>10 DEF IInv

\* epoll_wait() reports what can be read.
LEMMA WaitStep ==
    ASSUME IInv, EpollWait
    PROVE  IInv'
  <1> USE ServerFacts
  <1>1. TypeOK'
    BY DEF IInv, TypeOK, EpollWait, net, sigs, lists
  <1>2. Matched'
    BY MatchedSame DEF IInv, EpollWait, net
  <1>3. Waiting'
    BY DEF IInv, TypeOK, Waiting, EpollWait, Readable, net
  <1>4. Chain'
    <2>1. pipe' # {} => PipeFd \in batch'
      BY DEF IInv, Waiting, Chain, Running, EpollWait, Readable, sigs
    <2> QED BY <2>1 DEF IInv, Chain, Running, EpollWait, sigs
  <1> QED BY <1>1, <1>2, <1>3, <1>4 DEF IInv

\* The listening socket without a free descriptor, and the pipe.
LEMMA SignalStep ==
    ASSUME IInv, AcceptFails \/ ReadSignals
    PROVE  IInv'
  <1> USE ServerFacts
  <1>1. CASE AcceptFails
    <2>1. TypeOK'
      BY <1>1 DEF IInv, TypeOK, AcceptFails, Take, net, sigs, lists
    <2>2. Matched'
      BY <1>1, MatchedSame DEF IInv, AcceptFails, net
    <2>3. Waiting' /\ Chain'
      BY <1>1 DEF IInv, Waiting, Chain, Running, AcceptFails, Take, net
    <2> QED BY <2>1, <2>2, <2>3 DEF IInv
  <1>2. CASE ReadSignals
    <2>1. timeout' \in BOOLEAN /\ stop_server' \in BOOLEAN
      BY <1>2 DEF ReadSignals
    <2>2. TypeOK'
      BY <1>2, <2>1 DEF IInv, TypeOK, ReadSignals, Take, net, lists
    <2>3. Matched'
      BY <1>2, MatchedSame DEF IInv, ReadSignals, net
    <2>4. Waiting'
      BY <1>2 DEF IInv, Waiting, ReadSignals, Take, net
    <2>5. Chain'
      BY <1>2 DEF IInv, Chain, Running, ReadSignals, Take
    <2> QED BY <2>2, <2>3, <2>4, <2>5 DEF IInv
  <1> QED BY <1>1, <1>2

\* A new connection gets a descriptor and a timer nobody has.
LEMMA AcceptStep ==
    ASSUME IInv, Accept
    PROVE  IInv'
  <1> USE ServerFacts
  <1> DEFINE c == LowestFd(Conns \ open)
  <1>1. c \in Conns /\ c \notin open
    BY LowestFree DEF IInv, TypeOK, Accept
  <1> HIDE DEF c
  <1>2. PICK t \in Timers \ live :
           /\ open' = open \cup {c}
           /\ idle' = [idle EXCEPT ![c] = 0]
           /\ live' = live \cup {t}
           /\ owner' = [owner EXCEPT ![t] = c]
           /\ ttl' = [ttl EXCEPT ![t] = Lifetime]
           /\ timer' = [timer EXCEPT ![c] = t]
           /\ lst' = add_timer(NewTimer(lst, t), ttl', t)
    BY DEF Accept, c
  <1>3. /\ Take(ListenFd) /\ backlog' = backlog - 1
        /\ UNCHANGED <<stage, ready, data, gone, sigs>>
    BY DEF Accept
  <1>4. TypeOK'
    <2>1. backlog' \in 0..MaxBacklog
      BY <1>3 DEF IInv, TypeOK, Waiting, Take
    <2>2. ttl' \in [Timers -> 0..Lifetime] /\ idle' \in [Conns -> 0..Lifetime]
      <3>1. 0 \in 0..Lifetime /\ Lifetime \in 0..Lifetime
        OBVIOUS
      <3> QED BY <3>1, <1>2 DEF IInv, TypeOK
    <2>3. owner' \in [Timers -> Conns \cup {Null}] /\ timer' \in [Conns -> Timers \cup {Null}]
      BY <1>1, <1>2 DEF IInv, TypeOK
    <2>4. open' \subseteq Conns /\ gone' \subseteq open' /\ live' \subseteq Timers
      BY <1>1, <1>2, <1>3 DEF IInv, TypeOK
    <2> QED BY <2>1, <2>2, <2>3, <2>4, <1>3 DEF IInv, TypeOK, Take, sigs
  <1>5. Matched'
    <2>1. lst' \in Pointers /\ Listed(lst', ttl', live \cup {t})
      <3>1. ttl \in [Timers -> Int] /\ Lifetime \in Int
        BY DEF IInv, TypeOK
      <3> QED BY <3>1, <1>2, AddListed DEF IInv, Matched
    <2>2. \A d \in open : /\ timer'[d] = timer[d] /\ timer[d] \in live
                          /\ timer[d] \in Timers /\ timer[d] # t
      BY <1>1, <1>2, TimerOf DEF IInv, TypeOK
    <2>3. timer'[c] = t /\ owner'[t] = c /\ ttl'[t] = Lifetime /\ idle'[c] = 0
      BY <1>1, <1>2 DEF IInv, TypeOK
    <2>4. live' = {timer'[d] : d \in open'}
      BY <2>2, <2>3, <1>2 DEF IInv, Matched
    <2>5. ASSUME NEW d \in open'
          PROVE  owner'[timer'[d]] = d /\ ttl'[timer'[d]] + idle'[d] = Lifetime
      <3>1. CASE d = c
        BY <3>1, <2>3
      <3>2. CASE d # c
        <4>1. /\ d \in open /\ d \in Conns /\ owner[timer[d]] = d
              /\ ttl[timer[d]] + idle[d] = Lifetime
          BY <3>2, <1>2, TimerOf DEF IInv, TypeOK
        <4>2. owner'[timer[d]] = d /\ ttl'[timer[d]] = ttl[timer[d]] /\ idle'[d] = idle[d]
          BY <3>2, <4>1, <2>2, <1>2 DEF IInv, TypeOK
        <4> QED BY <4>1, <4>2, <2>2
      <3> QED BY <3>1, <3>2
    <2> QED BY <2>1, <2>4, <2>5, <1>2 DEF Matched
  <1>6. Waiting' /\ Chain'
    BY <1>2, <1>3 DEF IInv, Waiting, Chain, Running, Take, sigs
  <1> QED BY <1>4, <1>5, <1>6 DEF IInv

\* Data that is read postpones the timer of its connection, and no other.
LEMMA ReadDataStep ==
    ASSUME IInv, NEW c \in Conns, ReadData(c)
    PROVE  IInv'
  <1> USE ServerFacts
  <1>1. c \in open
    BY DEF IInv, Waiting, ReadData, Take
  <1> DEFINE t == timer[c]
  <1>2. /\ t \in live /\ t \in Timers /\ owner[t] = c
        /\ \A d \in open : timer[d] = t => d = c
    BY <1>1, TimerOf DEF IInv
  <1> HIDE DEF t
  <1>3. /\ ttl' = [ttl EXCEPT ![t] = Lifetime] /\ lst' = adjust_timer(lst, ttl', t)
        /\ idle' = [idle EXCEPT ![c] = 0] /\ data' = [data EXCEPT ![c] = @ - 1]
        /\ data[c] > 0 /\ batch' = batch \ {c} /\ stage = "batch"
        /\ UNCHANGED <<stage, ready, backlog, open, gone, sigs, live, owner, timer>>
    BY DEF ReadData, Take, t
  <1>4. TypeOK'
    <2>1. 0 \in 0..Lifetime /\ Lifetime \in 0..Lifetime /\ data[c] - 1 \in 0..MaxData
      BY <1>3 DEF IInv, TypeOK
    <2>2. ttl' \in [Timers -> 0..Lifetime] /\ idle' \in [Conns -> 0..Lifetime]
      BY <2>1, <1>3 DEF IInv, TypeOK
    <2>3. data' \in [Conns -> 0..MaxData]
      BY <2>1, <1>3 DEF IInv, TypeOK
    <2> QED BY <2>2, <2>3, <1>3 DEF IInv, TypeOK, sigs
  <1>5. Matched'
    <2>1. lst' \in Pointers /\ Listed(lst', ttl', live)
      <3>1. ttl \in [Timers -> Int] /\ Lifetime \in Int /\ ttl[t] <= Lifetime
        BY <1>2 DEF IInv, TypeOK
      <3> QED BY <3>1, <1>2, <1>3, AdjustListed DEF IInv, Matched
    <2>2. ASSUME NEW d \in open
          PROVE  owner[timer[d]] = d /\ ttl'[timer[d]] + idle'[d] = Lifetime
      <3>1. /\ timer[d] \in Timers /\ owner[timer[d]] = d /\ d \in Conns
            /\ ttl[timer[d]] + idle[d] = Lifetime
        BY TimerOf DEF IInv, TypeOK
      <3>2. CASE d = c
        BY <3>2, <1>2, <1>3 DEF IInv, TypeOK, t
      <3>3. CASE d # c
        <4>1. timer[d] # t
          BY <3>3, <1>2
        <4> QED BY <3>1, <3>3, <4>1, <1>3 DEF IInv, TypeOK
      <3> QED BY <3>1, <3>2, <3>3
    <2> QED BY <2>1, <2>2, <1>3 DEF IInv, Matched
  <1>6. Waiting' /\ Chain'
    BY <1>3 DEF IInv, Waiting, Chain, Running, sigs
  <1> QED BY <1>4, <1>5, <1>6 DEF IInv

\* The timers of C are taken off with the connections of C.
LEMMA Disposed ==
    ASSUME IInv, NEW C, C \subseteq open, NEW l \in Pointers,
           Listed(l, ttl, live \ {timer[c] : c \in C}),
           cb_func(C), delete(l, {timer[c] : c \in C}), UNCHANGED timer
    PROVE  /\ Matched' /\ open' = open \ C /\ backlog' = backlog
           /\ open' \subseteq Conns /\ gone' \subseteq open' /\ live' \subseteq Timers
           /\ data' \in [Conns -> 0..MaxData] /\ idle' \in [Conns -> 0..Lifetime]
           /\ ttl' \in [Timers -> 0..Lifetime] /\ owner' \in [Timers -> Conns \cup {Null}]
           /\ ready' = ready \ C
  <1> DEFINE T == {timer[c] : c \in C}
  <1>1. (live \ T) \cap T = {}
    OBVIOUS
  <1>2. /\ open' = open \ C /\ open' \subseteq Conns /\ gone' \subseteq open'
        /\ data' \in [Conns -> 0..MaxData] /\ idle' \in [Conns -> 0..Lifetime]
        /\ \A c \in open' : idle'[c] = idle[c]
        /\ ready' = ready \ C /\ backlog' = backlog
    BY CloseFacts DEF IInv
  <1>3. \A c \in open' : timer[c] \in live /\ timer[c] \in Timers /\ timer[c] \notin T
    BY <1>2, TimerOf DEF IInv
  <1>4. live \ T = {timer[c] : c \in open'}
    BY <1>2, <1>3 DEF IInv, Matched
  <1> HIDE DEF T
  <1>5. /\ lst' \in Pointers /\ Listed(lst', ttl', live \ T)
        /\ live' = live \ T /\ ttl' \in [Timers -> 0..Lifetime]
        /\ owner' \in [Timers -> Conns \cup {Null}]
        /\ \A t \in Timers \ T : ttl'[t] = ttl[t] /\ owner'[t] = owner[t]
    BY <1>1, DeleteFacts DEF IInv, T
  <1>6. \A c \in open' : owner'[timer[c]] = c /\ ttl'[timer[c]] + idle'[c] = Lifetime
    BY <1>2, <1>3, <1>5, TimerOf DEF IInv
  <1>7. Matched'
    BY <1>4, <1>5, <1>6 DEF Matched
  <1> QED BY <1>2, <1>5, <1>7 DEF IInv, TypeOK

\* A connection whose client has gone is disposed of with its timer.
LEMMA ReadEndStep ==
    ASSUME IInv, NEW c \in Conns, ReadEnd(c)
    PROVE  IInv'
  <1> USE ServerFacts
  <1>1. c \in open
    BY DEF IInv, Waiting, ReadEnd, Take
  <1>2. timer[c] \in live /\ {timer[d] : d \in {c}} = {timer[c]} /\ {c} \subseteq open
    BY <1>1, TimerOf DEF IInv
  <1>3. ttl \in [Timers -> Int]
    BY DEF IInv, TypeOK
  <1>4. /\ del_timer(lst, timer[c]) \in Pointers
        /\ Listed(del_timer(lst, timer[c]), ttl, live \ {timer[c]})
    BY <1>2, <1>3, DelListed DEF IInv, Matched
  <1>5. /\ cb_func({c}) /\ delete(del_timer(lst, timer[c]), {timer[c]}) /\ UNCHANGED timer
        /\ stage = "batch" /\ batch' = batch \ {c} /\ UNCHANGED <<stage, sigs>>
    BY DEF ReadEnd, Take
  <1>6. /\ Matched' /\ open' = open \ {c} /\ backlog' = backlog
        /\ open' \subseteq Conns /\ gone' \subseteq open' /\ live' \subseteq Timers
        /\ data' \in [Conns -> 0..MaxData] /\ idle' \in [Conns -> 0..Lifetime]
        /\ ttl' \in [Timers -> 0..Lifetime] /\ owner' \in [Timers -> Conns \cup {Null}]
        /\ ready' = ready \ {c}
    BY <1>2, <1>4, <1>5, Disposed
  <1>7. TypeOK'
    BY <1>5, <1>6 DEF IInv, TypeOK, sigs
  <1>8. Waiting'
    BY <1>5, <1>6 DEF IInv, Waiting
  <1>9. Chain'
    BY <1>5, <1>6 DEF IInv, Chain, Running, sigs
  <1> QED BY <1>6, <1>7, <1>8, <1>9 DEF IInv

\* After the batch: the timers that expired go with their connections, and the
\* next alarm is set.
LEMMA EndStep ==
    ASSUME IInv, EndBatch
    PROVE  /\ IInv'
           /\ timeout => open' = {c \in open : idle[c] < Lifetime}
  <1> USE ServerFacts
  <1>1. /\ stage = "batch" /\ batch = {} /\ timeout' = FALSE
        /\ stage' = IF stop_server THEN "exited" ELSE "wait"
        /\ UNCHANGED <<batch, pipe, stop_server>>
    BY DEF EndBatch
  <1>2. CASE timeout
    <2> DEFINE C == {d \in open : idle[d] = Lifetime}
               F == Fired(lst, ttl, 0)
               l == tick(lst, ttl, 0)
    <2>1. /\ F = {timer[c] : c \in C} /\ {owner[t] : t \in F} = C
          /\ l \in Pointers /\ Listed(l, ttl, live \ F)
      BY FiredFacts DEF IInv
    <2>2. /\ cb_func({owner[t] : t \in F}) /\ delete(l, F)
          /\ alarm' = TIMESLOT /\ UNCHANGED timer
      BY <1>2 DEF EndBatch, timer_handler
    <2>3. C \subseteq open /\ open \ C = {c \in open : idle[c] < Lifetime}
      <3>1. \A c \in open : idle[c] \in Nat /\ idle[c] <= Lifetime
        BY DEF IInv, TypeOK
      <3>2. \A c \in open : idle[c] < Lifetime <=> ~(idle[c] = Lifetime)
        BY <3>1
      <3> QED BY <3>2
    <2> HIDE DEF C, F, l
    <2>4. /\ Matched' /\ open' = open \ C /\ backlog' = backlog
          /\ open' \subseteq Conns /\ gone' \subseteq open' /\ live' \subseteq Timers
          /\ data' \in [Conns -> 0..MaxData] /\ idle' \in [Conns -> 0..Lifetime]
          /\ ttl' \in [Timers -> 0..Lifetime] /\ owner' \in [Timers -> Conns \cup {Null}]
          /\ ready' = ready \ C
      BY <2>1, <2>2, <2>3, Disposed
    <2>5. TypeOK'
      <3>1. alarm' \in 0..TIMESLOT
        BY <2>2
      <3> QED BY <3>1, <2>2, <2>4, <1>1 DEF IInv, TypeOK
    <2>6. Waiting'
      BY <1>1 DEF IInv, Waiting
    <2>7. Chain'
      <3>1. PipeFd \in ready => PipeFd \in ready'
        BY <2>3, <2>4 DEF IInv, TypeOK
      <3> QED BY <3>1, <2>2, <1>1, <1>2 DEF IInv, Chain, Running
    <2> QED BY <2>3, <2>4, <2>5, <2>6, <2>7 DEF IInv
  <1>3. CASE ~timeout
    <2>1. UNCHANGED <<ready, net, alarm, lists, idle>>
      BY <1>3 DEF EndBatch
    <2>2. TypeOK'
      BY <2>1, <1>1 DEF IInv, TypeOK, net, lists
    <2>3. Matched'
      BY <2>1, MatchedSame DEF IInv, net
    <2>4. Waiting' /\ Chain'
      BY <2>1, <1>1, <1>3 DEF IInv, Waiting, Chain, Running
    <2> QED BY <2>2, <2>3, <2>4, <1>3 DEF IInv
  <1> QED BY <1>2, <1>3

\* Every step keeps the invariant.
LEMMA InvStep == IInv /\ [Next]_vars => IInv'
  <1> SUFFICES ASSUME IInv, [Next]_vars PROVE IInv'
    OBVIOUS
  <1>1. CASE UNCHANGED vars
    <2>1. UNCHANGED <<stage, batch, ready, net, sigs, lists, idle>>
      BY <1>1 DEF vars
    <2>2. TypeOK'
      BY <2>1 DEF IInv, TypeOK, net, sigs, lists
    <2>3. Matched'
      BY <2>1, MatchedSame DEF IInv, net
    <2>4. Waiting' /\ Chain'
      BY <2>1 DEF IInv, Waiting, Chain, Running, net, sigs
    <2> QED BY <2>2, <2>3, <2>4 DEF IInv
  <1> QED BY <1>1, Actions, WorldStepInv, ClockStep, WaitStep, SignalStep, AcceptStep,
             ReadDataStep, ReadEndStep, EndStep

\* The invariant holds in every state, for any number of connections and timers.
THEOREM Inductive == Spec => []IInv
  BY InitInv, InvStep, PTL DEF Spec

\* timer_lst and users[] never part: the list holds the timer of every connection
\* main() accepted and has not closed, and no other, in order and with sound
\* pointers, whatever mix of accept, recv, hang-up and tick() came before.
THEOREM ListMatchesConnections == Spec => []TimersMatchConnections
  <1>1. IInv => TimersMatchConnections
    BY ListedFacts DEF IInv, Matched, TimersMatchConnections
  <1> QED BY <1>1, Inductive, PTL

\* The chain alarm() -> sig_handler() -> pipe -> timeout -> timer_handler() never
\* breaks and never doubles while main() runs: the next tick is always under way in
\* exactly one of these places, and a byte in the pipe is always announced.
THEOREM AlarmNeverLost == Spec => []AlarmChain
  <1>1. IInv => AlarmChain
    <2> SUFFICES ASSUME IInv, Running PROVE AlarmChain
      BY DEF AlarmChain
    <2> DEFINE K == {k \in {"alarm", "pipe", "flag"} :
                        \/ k = "alarm" /\ alarm > 0
                        \/ k = "pipe" /\ "ALRM" \in pipe
                        \/ k = "flag" /\ timeout}
    <2>1. K = {"alarm"} \/ K = {"pipe"} \/ K = {"flag"}
      BY DEF IInv, Chain
    <2> HIDE DEF K
    <2>2. Cardinality(K) = 1
      BY <2>1, FS_Singleton
    <2> QED BY <2>2 DEF K, AlarmChain, IInv, Chain
  <1> QED BY <1>1, Inductive, PTL

\* timer_handler() closes every connection that was idle for 3 * TIMESLOT and no
\* connection that was read from since: tick() stopping at the first timer that has
\* not expired loses none, for adjust_timer() has kept the list in order.
THEOREM TickClosesIdle == Spec => TickExact
  <1>1. IInv /\ [Next]_vars =>
          ((stage = "batch" /\ stage' \in {"wait", "exited"} /\ timeout)
             => open' = {c \in open : idle[c] < Lifetime})
    <2> SUFFICES ASSUME IInv, [Next]_vars,
                        stage = "batch", stage' \in {"wait", "exited"}, timeout
                 PROVE  open' = {c \in open : idle[c] < Lifetime}
      OBVIOUS
    <2>1. EndBatch
      BY Actions DEF vars, Connect, Terminate, Clock, ClientSends, ClientLeaves, EpollWait,
         Accept, AcceptFails, ReadSignals, ReadData, ReadEnd
    <2> QED BY <2>1, EndStep
  <1> QED BY <1>1, Inductive, PTL DEF Spec, TickExact

-----------------------------------------------------------------------------
(* The list in the hands of any program (TimerList).                       *)

\* The inductive invariant: the list is that of the allocated timers.
ListInv == ListTypeOK /\ list \in Pointers /\ Listed(list, expiry, allocated)

\* The pointers start empty.
LEMMA ListStart == ListInit => ListInv
  <1> SUFFICES ASSUME ListInit PROVE ListInv
    OBVIOUS
  <1>1. list = EmptyList /\ allocated = {} /\ time = 0 /\ expiry = [t \in Timers |-> 0]
    BY DEF ListInit
  <1>2. list \in Pointers /\ list.head = Null
    BY <1>1 DEF EmptyList, Pointers
  <1>3. ListTypeOK
    <2>1. 0 \in 0..MaxTime
      BY TimeAssumption
    <2>2. expiry \in [Timers -> 0..MaxTime]
      BY <1>1, <2>1
    <2> QED BY <2>1, <2>2, <1>1, <1>2 DEF ListTypeOK, Times, Pointers
  <1> DEFINE q == [i \in 1..0 |-> Null]
  <1>4. q \in [1..0 -> Timers] /\ 0 \in Nat /\ 1..0 = {}
    OBVIOUS
  <1>5. Lists(list, 0, q) /\ Sorted(expiry, 0, q) /\ allocated = Elements(0, q)
    BY <1>1, <1>2, <1>4 DEF Lists, Sorted, Elements
  <1> HIDE DEF q
  <1>6. Listed(list, expiry, allocated)
    BY <1>4, <1>5 DEF Listed
  <1> QED BY <1>2, <1>3, <1>6 DEF ListInv

\* What each step does to the list, the times and the allocated timers.
LEMMA ListSteps ==
    ASSUME ListInv
    PROVE  /\ \A t \in Timers, e \in 0..MaxTime : Add(t, e) \/ Adjust(t, e) => ListInv'
           /\ \A t \in Timers : Del(t) => ListInv' /\ allocated' = allocated \ {t}
           /\ Tick => ListInv' /\ allocated' = {x \in allocated : time < expiry[x]}
           /\ TimePasses => ListInv'
  <1> USE DEF ListInv
  <1>1. expiry \in [Timers -> Int] /\ time \in Int /\ allocated \subseteq Timers
    BY DEF ListTypeOK, Times
  <1>2. ASSUME list' \in Pointers, Listed(list', expiry', allocated'), allocated' \subseteq Timers,
               expiry' \in [Timers -> 0..MaxTime], time' \in 0..MaxTime
        PROVE  ListInv'
    BY <1>2 DEF ListTypeOK, Times, Pointers
  <1>3. ASSUME NEW t \in Timers, NEW e \in 0..MaxTime, Add(t, e)
        PROVE  ListInv'
    <2>1. /\ t \notin allocated /\ allocated' = allocated \cup {t} /\ time' = time /\ e \in Int
          /\ expiry' = [expiry EXCEPT ![t] = e]
          /\ list' = add_timer(NewTimer(list, t), expiry', t)
      BY <1>3 DEF Add
    <2>2. list' \in Pointers /\ Listed(list', expiry', allocated')
      BY <1>1, <2>1, AddListed
    <2>3. expiry' \in [Timers -> 0..MaxTime]
      BY <2>1 DEF ListTypeOK, Times
    <2> QED BY <1>1, <1>2, <2>1, <2>2, <2>3 DEF ListTypeOK, Times
  <1>4. ASSUME NEW t \in Timers, NEW e \in 0..MaxTime, Adjust(t, e)
        PROVE  ListInv'
    <2>1. /\ t \in allocated /\ expiry[t] <= e /\ allocated' = allocated /\ time' = time /\ e \in Int
          /\ expiry' = [expiry EXCEPT ![t] = e]
          /\ list' = adjust_timer(list, expiry', t)
      BY <1>1, <1>4 DEF Adjust
    <2>2. list' \in Pointers /\ Listed(list', expiry', allocated')
      BY <1>1, <2>1, AdjustListed
    <2>3. expiry' \in [Timers -> 0..MaxTime]
      BY <2>1 DEF ListTypeOK, Times
    <2> QED BY <1>1, <1>2, <2>1, <2>2, <2>3 DEF ListTypeOK, Times
  <1>5. ASSUME NEW t \in Timers, Del(t)
        PROVE  ListInv' /\ allocated' = allocated \ {t}
    <2>1. /\ t \in allocated /\ allocated' = allocated \ {t} /\ time' = time /\ expiry' = expiry
          /\ list' = del_timer(list, t)
      BY <1>5 DEF Del
    <2>2. list' \in Pointers /\ Listed(list', expiry', allocated')
      BY <1>1, <2>1, DelListed
    <2> QED BY <1>1, <1>2, <2>1, <2>2 DEF ListTypeOK, Times
  <1>6. ASSUME Tick
        PROVE  ListInv' /\ allocated' = {x \in allocated : time < expiry[x]}
    <2>1. /\ list' = tick(list, expiry, time) /\ allocated' = allocated \ Fired(list, expiry, time)
          /\ expiry' = expiry /\ time' = time
      BY <1>6 DEF Tick
    <2>2. Ticked(list, expiry, allocated, time)
      BY <1>1, TickListed
    <2>3. allocated' = {x \in allocated : time < expiry[x]}
      BY <1>1, <2>1, <2>2 DEF Ticked
    <2>4. list' \in Pointers /\ Listed(list', expiry', allocated')
      BY <2>1, <2>2, <2>3 DEF Ticked
    <2> QED BY <1>1, <1>2, <2>1, <2>3, <2>4 DEF ListTypeOK, Times
  <1>7. ASSUME TimePasses
        PROVE  ListInv'
    <2>1. time' \in 0..MaxTime
      BY <1>7, TimeAssumption DEF TimePasses, ListTypeOK, Times
    <2> QED BY <1>1, <1>2, <1>7, <2>1 DEF TimePasses, ListTypeOK, Times
  <1> QED BY <1>3, <1>4, <1>5, <1>6, <1>7

\* The invariant holds in every state.
THEOREM ListInductive == ListSpec => []ListInv
  <1>1. ListInit => ListInv
    BY ListStart
  <1>2. ListInv /\ [ListNext]_listVars => ListInv'
    <2> SUFFICES ASSUME ListInv, [ListNext]_listVars PROVE ListInv'
      OBVIOUS
    <2>1. CASE ListNext
      BY <2>1, ListSteps DEF ListNext, Times
    <2>2. CASE UNCHANGED listVars
      BY <2>2 DEF listVars, ListInv, ListTypeOK
    <2> QED BY <2>1, <2>2
  <1> QED BY <1>1, <1>2, PTL DEF ListSpec

\* Whatever a program does with a sort_timer_lst - add timers with any expiry,
\* postpone them, delete them, call tick() at any time - the two chains of
\* pointers agree, end at tail, hold the allocated timers and no other, and are
\* in order: add_timer(), adjust_timer(), del_timer() and tick() keep them so.
THEOREM ListStaysIntact == ListSpec => []ListIntact
  <1>1. ListInv => ListIntact
    BY ListedFacts DEF ListInv, ListIntact
  <1> QED BY <1>1, ListInductive, PTL

\* The allocated timers with their expiry times, as the abstract container.
Pending == [t \in allocated |-> expiry[t]]

\* The refinement mapping shows just these.
LEMMA PendingFacts ==
    ListInv => [t \in Nodes(list) |-> expiry[t]] = Pending /\ DOMAIN Pending = allocated
  <1> SUFFICES ASSUME ListInv PROVE Nodes(list) = allocated
    BY DEF Pending
  <1> QED BY ListedFacts DEF ListInv

\* The list does what a timer container promises: every step of it adds,
\* postpones or cancels just the timer it names, or removes every expired timer
\* and no other, or changes nothing that the container shows.
THEOREM ListRefinesQueue == ListSpec => ListImplementsQueue
  <1>1. ListInit => ListQueue!Init
    <2> SUFFICES ASSUME ListInit PROVE ListQueue!Init
      OBVIOUS
    <2>1. Pending = [t \in Nodes(list) |-> expiry[t]] /\ allocated = {} /\ time = 0
      BY ListStart, PendingFacts DEF ListInit
    <2>2. Pending = << >>
      BY <2>1 DEF Pending
    <2> QED BY <2>1, <2>2 DEF ListQueue!Init
  <1>2. ListInv /\ [ListNext]_listVars => [ListQueue!Next]_ListQueue!vars
    <2> SUFFICES ASSUME ListInv, [ListNext]_listVars
                 PROVE  [ListQueue!Next]_ListQueue!vars
      OBVIOUS
    <2>1. ListInv'
      <3>1. CASE ListNext
        BY <3>1, ListSteps DEF ListNext, Times
      <3>2. CASE UNCHANGED listVars
        BY <3>2 DEF listVars, ListInv, ListTypeOK
      <3> QED BY <3>1, <3>2
    <2>2. /\ Pending = [t \in Nodes(list) |-> expiry[t]] /\ DOMAIN Pending = allocated
          /\ Pending' = [t \in Nodes(list') |-> expiry'[t]]
      <3>1. Nodes(list') = allocated'
        BY <2>1, ListedFacts DEF ListInv
      <3> QED BY <3>1, PendingFacts DEF Pending
    <2>3. expiry \in [Timers -> Int] /\ time \in Int /\ allocated \subseteq Timers
      BY DEF ListInv, ListTypeOK, Times
    <2>4. ASSUME NEW t \in Timers, NEW e \in 0..MaxTime, Add(t, e)
          PROVE  ListQueue!Schedule(t, e)
      <3>1. /\ t \notin allocated /\ allocated' = allocated \cup {t} /\ time' = time
            /\ expiry' = [expiry EXCEPT ![t] = e]
        BY <2>4 DEF Add
      <3>2. Pending' = [x \in allocated \cup {t} |-> IF x = t THEN e ELSE Pending[x]]
        BY <3>1, <2>3 DEF Pending
      <3> QED BY <2>2, <3>1, <3>2 DEF ListQueue!Schedule
    <2>5. ASSUME NEW t \in Timers, NEW e \in 0..MaxTime, Adjust(t, e)
          PROVE  ListQueue!Postpone(t, e)
      <3>1. /\ t \in allocated /\ allocated' = allocated /\ time' = time /\ e >= Pending[t]
            /\ expiry' = [expiry EXCEPT ![t] = e]
        BY <2>5 DEF Adjust, Pending
      <3>2. Pending' = [Pending EXCEPT ![t] = e]
        BY <3>1, <2>3 DEF Pending
      <3> QED BY <2>2, <3>1, <3>2 DEF ListQueue!Postpone
    <2>6. ASSUME NEW t \in Timers, Del(t)
          PROVE  ListQueue!Cancel(t)
      <3>1. t \in allocated /\ allocated' = allocated \ {t} /\ time' = time /\ expiry' = expiry
        BY <2>6 DEF Del
      <3>2. Pending' = [x \in allocated \ {t} |-> Pending[x]]
        BY <3>1 DEF Pending
      <3> QED BY <2>2, <3>1, <3>2 DEF ListQueue!Cancel, ListQueue!Restrict
    <2>7. ASSUME Tick
          PROVE  ListQueue!Expire
      <3>1. /\ allocated' = {x \in allocated : time < expiry[x]} /\ time' = time
            /\ expiry' = expiry
        BY <2>7, ListSteps DEF Tick
      <3>2. allocated' = {x \in allocated : Pending[x] > time}
        BY <3>1, <2>3 DEF Pending
      <3>3. Pending' = [x \in {x \in allocated : Pending[x] > time} |-> Pending[x]]
        BY <3>1, <3>2 DEF Pending
      <3> QED BY <2>2, <3>1, <3>3 DEF ListQueue!Expire, ListQueue!Restrict
    <2>8. ASSUME TimePasses
          PROVE  ListQueue!Advance
      <3>1. time' > time /\ UNCHANGED <<list, expiry>>
        BY <2>3, <2>8 DEF TimePasses
      <3> QED BY <3>1 DEF ListQueue!Advance
    <2>9. ASSUME UNCHANGED listVars
          PROVE  UNCHANGED ListQueue!vars
      BY <2>9 DEF listVars, ListQueue!vars
    <2>10. CASE ListNext
      BY <2>10, <2>4, <2>5, <2>6, <2>7, <2>8 DEF ListNext, ListQueue!Next, Times
    <2> QED BY <2>9, <2>10
  <1> QED BY <1>1, <1>2, ListInductive, PTL DEF ListSpec, ListImplementsQueue, ListQueue!Spec
=============================================================================
