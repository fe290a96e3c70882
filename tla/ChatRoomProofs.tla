--------------------------- MODULE ChatRoomProofs ---------------------------
(***************************************************************************)
(* Proofs about ChatRoom, for any number of users, descriptors, clients    *)
(* and messages and any size of the buffers.                               *)
(***************************************************************************)
EXTENDS ChatRoom, FiniteSetTheorems, WellFoundedInduction, NaturalsInduction, TLAPS

Entry == [fd : Fds, out : BOOLEAN, revents : SUBSET Events]

\* No descriptor is in the table twice.
Distinct == \A j, k \in DOMAIN fds : fds[j].fd = fds[k].fd => j = k

\* What poll() reported and is not handled yet is ahead of the loop.
Ahead == \A fd \in todo : \E k \in DOMAIN fds :
            k >= i /\ fds[k].fd = fd /\ fds[k].revents # {}

TableInv ==
    /\ TypeOK
    /\ Distinct
    /\ Present = {fd \in Fds : who[fd] # NULL}
    /\ i <= Len(fds) + 1
    /\ listening => backlog # <<>>
    /\ Ahead

\* A null pointer is no descriptor and no client.
LEMMA NullFacts == NULL \notin Fds /\ NULL \notin Clients
  BY ChatAssumption DEF NULL

\* Min() finds what it is asked for.
LEMMA MinFacts ==
    ASSUME NEW T \in SUBSET Nat, T # {}
    PROVE  Min(T) \in T /\ \A y \in T : Min(T) <= y
  <1>1. PICK x \in T : \A y \in T : ~(<<y, x>> \in OpToRel(<, Nat))
    BY NatLessThanWellFounded, WFMin
  <1>2. \A y \in T : ~(y < x)
    BY <1>1 DEF OpToRel
  <1>3. \A y \in T : x <= y
    BY <1>2
  <1> QED BY <1>3 DEF Min

\* A function on 1..n is a sequence of length n.
LEMMA SeqOfLength ==
    ASSUME NEW S, NEW n \in Nat, NEW f \in [1..n -> S]
    PROVE  f \in Seq(S) /\ Len(f) = n
  OBVIOUS

\* As many descriptors are present as elements are used.
LEMMA PresentCounted ==
    ASSUME fds \in Seq(Entry), Distinct
    PROVE  Cardinality(Present) = Len(fds) /\ Present \subseteq Fds
  <1> DEFINE f == [k \in DOMAIN fds |-> fds[k].fd]
  <1>1. DOMAIN fds = 1..Len(fds) /\ Len(fds) \in Nat /\ \A k \in DOMAIN fds : fds[k] \in Entry
    OBVIOUS
  <1>2. f \in [1..Len(fds) -> Present] /\ Present \subseteq Fds
    BY <1>1 DEF Present, Entry
  <1>3. f \in Injection(1..Len(fds), Present)
    BY <1>1, <1>2 DEF Injection, IsInjective, Distinct
  <1>4. f \in Surjection(1..Len(fds), Present)
    BY <1>1, <1>2 DEF Surjection, Present
  <1>5. IsFiniteSet(1..Len(fds)) /\ Cardinality(1..Len(fds)) = Len(fds)
    BY <1>1, FS_Interval
  <1>6. Cardinality(Present) = Cardinality(1..Len(fds))
    BY <1>3, <1>4, <1>5, FS_Surjection
  <1> QED BY <1>2, <1>5, <1>6

\* accept() finds a free descriptor.
LEMMA FreeFd ==
    ASSUME TableInv
    PROVE  LET connfd == Min({fd \in Fds : who[fd] = NULL})
           IN  connfd \in Fds /\ who[connfd] = NULL
  <1> DEFINE free == {fd \in Fds : who[fd] = NULL}
  <1>1. Len(fds) \in Nat /\ fds \in Seq(Entry) /\ Len(fds) <= USER_LIMIT
    BY DEF TableInv, TypeOK, Entry, user_counter
  <1>2. Present # Fds
    <2>1. Cardinality(Fds) \in Nat /\ USER_LIMIT \in Nat /\ Cardinality(Fds) > USER_LIMIT
      BY ChatAssumption, FS_CardinalityType
    <2>2. Cardinality(Present) = Len(fds)
      BY <1>1, PresentCounted DEF TableInv
    <2> QED BY <1>1, <2>1, <2>2
  <1>3. Present \subseteq Fds
    BY <1>1, PresentCounted DEF TableInv
  <1>4. free # {} /\ free \in SUBSET Nat
    BY <1>2, <1>3, ChatAssumption DEF TableInv
  <1>5. Min(free) \in free
    BY <1>4, MinFacts
  <1> QED BY <1>5

\* What copying the last element of fds[] over the k-th leaves of the array.
LEMMA MoveFacts ==
    ASSUME fds \in Seq(Entry), NEW k \in DOMAIN fds
    PROVE  /\ Len(fds) \in Nat /\ Len(fds) > 0 /\ k \in 1..Len(fds)
           /\ Last(fds) = fds[Len(fds)] /\ Last(fds) \in Entry
           /\ MoveLast(k) \in Seq(Entry)
           /\ Len(MoveLast(k)) = Len(fds) - 1
           /\ \A j \in 1..(Len(fds) - 1) :
                MoveLast(k)[j] = IF j = k THEN fds[Len(fds)] ELSE fds[j]
  <1>1. /\ Len(fds) \in Nat /\ Len(fds) > 0 /\ k \in 1..Len(fds)
        /\ Last(fds) = fds[Len(fds)] /\ Last(fds) \in Entry
    BY DEF Last
  <1> DEFINE s == [fds EXCEPT ![k] = Last(fds)]
  <1>2. s \in Seq(Entry) /\ Len(s) = Len(fds)
        /\ \A j \in 1..Len(fds) : s[j] = IF j = k THEN fds[Len(fds)] ELSE fds[j]
    BY <1>1
  <1> HIDE DEF s
  <1>3. /\ SubSeq(s, 1, Len(s) - 1) \in Seq(Entry)
        /\ Len(SubSeq(s, 1, Len(s) - 1)) = Len(s) - 1
        /\ \A j \in 1..(Len(s) - 1) : SubSeq(s, 1, Len(s) - 1)[j] = s[j]
    BY <1>1, <1>2
  <1>4. MoveLast(k) = SubSeq(s, 1, Len(s) - 1)
    BY DEF MoveLast, Front, s
  <1> QED BY <1>1, <1>2, <1>3, <1>4
-----------------------------------------------------------------------------
\* A step of the specification is a step of one of its actions.
LEMMA Steps ==
    ASSUME [Next]_vars
    PROVE  \/ UNCHANGED vars
           \/ Poll \/ PollFails \/ AcceptFails \/ Refuse \/ Accept \/ NoConnection
           \/ \E fd \in Fds :
                \/ FetchError(fd) \/ Leave(fd) \/ RecvFails(fd)
                \/ Receive(fd) \/ Send(fd) \/ NothingToSend(fd) \/ NoEvent(fd)
           \/ \E c \in Clients :
                Connect(c) \/ ClientSends(c) \/ ClientLeaves(c) \/ ClientResets(c)
  BY DEF Next, ServerStep, WorldStep

\* What the steps below use of the state before.
LEMMA Before1 ==
    ASSUME TableInv
    PROVE  /\ fds \in Seq(Entry) /\ Len(fds) \in Nat /\ DOMAIN fds = 1..Len(fds)
           /\ Len(fds) <= USER_LIMIT /\ USER_LIMIT \in Nat \ {0} /\ i \in Nat
           /\ i <= Len(fds) + 1
           /\ \A k \in 1..Len(fds) : fds[k] \in Entry /\ fds[k].fd \in Fds
  <1>1. fds \in Seq(Entry) /\ Len(fds) \in Nat /\ DOMAIN fds = 1..Len(fds)
    BY DEF TableInv, TypeOK, Entry
  <1>2. /\ Len(fds) <= USER_LIMIT /\ USER_LIMIT \in Nat \ {0} /\ i \in Nat
        /\ i <= Len(fds) + 1
    BY ChatAssumption DEF TableInv, TypeOK, user_counter
  <1>3. \A k \in 1..Len(fds) : fds[k] \in Entry
    BY <1>1
  <1> QED BY <1>1, <1>2, <1>3 DEF Entry

\* The element the loop stands at is of an open connection.
LEMMA AtFacts ==
    ASSUME TableInv, NEW fd \in Fds, At(fd)
    PROVE  /\ i \in 1..Len(fds) /\ fds[i].fd = fd
           /\ fd \in Present /\ Client(fd) = who[fd] /\ who[fd] \in Clients
  <1>1. i \in 1..Len(fds) /\ fds[i].fd = fd /\ fd \in Present
    BY Before1 DEF At, Present
  <1> QED BY <1>1 DEF TableInv, TypeOK, Client

\* The texts keep their type.
LEMMA TextFacts ==
    ASSUME TypeOK
    PROVE  /\ \A c \in Clients : inbox[c] \in Text /\ got[c] \in Text
           /\ \A fd \in Fds : users[fd].buf \in Text /\ users[fd].write_buf \in Fds \cup {NULL}
           /\ <<>> \in Text
           /\ \A s \in Text : Len(s) \in Nat /\ DOMAIN s = 1..Len(s)
           /\ \A s \in Text : \A k \in DOMAIN s : s[k] \in Clients \X Nat
           /\ \A s, t \in Text : s \o t \in Text
           /\ \A s \in Text : \A n \in 0..Len(s) :
                 SubSeq(s, 1, n) \in Text /\ SubSeq(s, n + 1, Len(s)) \in Text
  <1>1. /\ \A c \in Clients : inbox[c] \in Text /\ got[c] \in Text
        /\ \A fd \in Fds : users[fd].buf \in Text /\ users[fd].write_buf \in Fds \cup {NULL}
    BY DEF TypeOK
  <1>2. <<>> \in Text /\ \A s \in Text : Len(s) \in Nat /\ DOMAIN s = 1..Len(s)
    BY DEF Text
  <1>3. \A s \in Text : \A k \in DOMAIN s : s[k] \in Clients \X Nat
    BY DEF Text
  <1>4. \A s, t \in Text : s \o t \in Text
    BY DEF Text
  <1>5. \A s \in Text : \A n \in 0..Len(s) :
           SubSeq(s, 1, n) \in Text /\ SubSeq(s, n + 1, Len(s)) \in Text
    BY DEF Text
  <1> QED BY <1>1, <1>2, <1>3, <1>4, <1>5

\* What recv() takes.
LEMMA TakenFacts ==
    ASSUME TypeOK, NEW c \in Clients
    PROVE  LET n == Min({BUFFER_SIZE - 1, Len(inbox[c])})
           IN  /\ n \in 0..Len(inbox[c]) /\ n < BUFFER_SIZE
               /\ Len(SubSeq(inbox[c], 1, n)) < BUFFER_SIZE
  <1> DEFINE n == Min({BUFFER_SIZE - 1, Len(inbox[c])})
  <1>1. BUFFER_SIZE - 1 \in Nat /\ Len(inbox[c]) \in Nat /\ BUFFER_SIZE \in Nat
    BY TextFacts, ChatAssumption
  <1>2. n <= BUFFER_SIZE - 1 /\ n <= Len(inbox[c]) /\ n \in Nat
    BY <1>1, MinFacts
  <1> HIDE DEF n
  <1>3. Len(SubSeq(inbox[c], 1, n)) = n
    BY <1>1, <1>2, TextFacts DEF Text
  <1> QED BY <1>1, <1>2, <1>3 DEF n

\* Leaving the table: the bookkeeping of Drop().
LEMMA DropTable ==
    ASSUME TableInv, NEW fd \in Fds, At(fd), Drop(fd), todo' = todo \ {fd},
           UNCHANGED <<listening, ended, fresh, backlog, peer, sends>>
    PROVE  TableInv'
  <1> DEFINE n == Len(fds)
  <1>1. /\ i \in 1..n /\ fds[i].fd = fd /\ fd \in Present
        /\ Client(fd) = who[fd] /\ who[fd] \in Clients
    BY AtFacts
  <1>2. /\ fds' \in Seq(Entry) /\ Len(fds') = n - 1 /\ n > 0 /\ n \in Nat
        /\ \A j \in 1..(n - 1) : fds'[j] = IF j = i THEN fds[n] ELSE fds[j]
        /\ Last(fds) = fds[n] /\ DOMAIN fds' = 1..(n - 1)
    <2>1. i \in DOMAIN fds /\ fds \in Seq(Entry) /\ fds' = MoveLast(i)
      BY <1>1, Before1 DEF Drop
    <2>2. /\ fds' \in Seq(Entry) /\ Len(fds') = n - 1 /\ n > 0 /\ n \in Nat
          /\ \A j \in 1..(n - 1) : fds'[j] = IF j = i THEN fds[n] ELSE fds[j]
          /\ Last(fds) = fds[n]
      BY <2>1, MoveFacts
    <2> QED BY <2>2
  <1>3. Distinct'
    <2> SUFFICES ASSUME NEW j \in 1..(n - 1), NEW k \in 1..(n - 1), fds'[j].fd = fds'[k].fd
                 PROVE  j = k
      BY <1>2 DEF Distinct
    <2>1. \A a, b \in 1..n : fds[a].fd = fds[b].fd => a = b
      BY Before1 DEF TableInv, Distinct
    <2> QED BY <1>1, <1>2, <2>1
  <1>4. Present' = Present \ {fd}
    <2>1. \A a, b \in 1..n : fds[a].fd = fds[b].fd => a = b
      BY Before1 DEF TableInv, Distinct
    <2>2. Present' = {fds'[k].fd : k \in 1..(n - 1)} /\ Present = {fds[k].fd : k \in 1..n}
      BY <1>2, Before1 DEF Present
    <2>3. ASSUME NEW g \in Present' PROVE g \in Present \ {fd}
      <3>1. PICK k \in 1..(n - 1) : g = fds'[k].fd
        BY <2>2, <2>3
      <3>2. CASE k = i
        BY <1>1, <1>2, <2>1, <2>2, <3>1, <3>2
      <3>3. CASE k # i
        BY <1>1, <1>2, <2>1, <2>2, <3>1, <3>3
      <3> QED BY <3>2, <3>3
    <2>4. ASSUME NEW g \in Present \ {fd} PROVE g \in Present'
      <3>1. PICK k \in 1..n : g = fds[k].fd
        BY <2>2, <2>4
      <3>2. CASE k = n
        <4>1. i \in 1..(n - 1) /\ fds'[i] = fds[n]
          BY <1>1, <1>2, <3>1, <3>2
        <4> QED BY <2>2, <3>1, <3>2, <4>1
      <3>3. CASE k # n
        <4>1. k \in 1..(n - 1) /\ k # i /\ fds'[k] = fds[k]
          BY <1>1, <1>2, <3>1, <3>3
        <4> QED BY <2>2, <3>1, <4>1
      <3> QED BY <3>2, <3>3
    <2> QED BY <2>3, <2>4
  <1>5. who' = [who EXCEPT ![fd] = NULL] /\ who \in [Fds -> Clients \cup {NULL}]
        /\ i' = i /\ i' <= Len(fds') + 1
    BY <1>1, <1>2 DEF Drop, TableInv, TypeOK
  <1>6. Present' = {g \in Fds : who'[g] # NULL}
    BY <1>4, <1>5, NullFacts DEF TableInv
  <1>7. Ahead'
    <2> SUFFICES ASSUME NEW g \in todo \ {fd}
                 PROVE  \E k \in 1..(n - 1) :
                           k >= i /\ fds'[k].fd = g /\ fds'[k].revents # {}
      BY <1>2, <1>5 DEF Ahead
    <2>1. PICK k \in 1..n : k >= i /\ fds[k].fd = g /\ fds[k].revents # {}
      BY Before1 DEF TableInv, Ahead
    <2>2. k # i
      BY <1>1, <2>1
    <2>3. CASE k = n
      <3>1. i \in 1..(n - 1) /\ fds'[i] = fds[n] /\ i >= i
        BY <1>1, <1>2, <2>2, <2>3
      <3> QED BY <2>1, <2>3, <3>1
    <2>4. CASE k # n
      <3>1. k \in 1..(n - 1) /\ fds'[k] = fds[k]
        BY <1>2, <2>2, <2>4
      <3> QED BY <2>1, <3>1
    <2> QED BY <2>3, <2>4
  <1>8. TypeOK'
    <2>1. fds' \in Seq([fd : Fds, out : BOOLEAN, revents : SUBSET Events])
          /\ user_counter' <= USER_LIMIT /\ i' \in 0..(USER_LIMIT + 1)
      BY <1>2, <1>5, Before1 DEF TableInv, TypeOK, Entry, user_counter
    <2>2. users' = [users EXCEPT ![fd] = users[Last(fds).fd]] /\ Last(fds).fd \in Fds
      BY <1>2, Before1 DEF Drop
    <2>3. users' \in [Fds -> [buf : {b \in Text : Len(b) < BUFFER_SIZE},
                              write_buf : Fds \cup {NULL}]]
      BY <2>2 DEF TableInv, TypeOK
    <2>4. who' \in [Fds -> Clients \cup {NULL}]
      BY <1>5
    <2>5. inbox' \in [Clients -> Text] /\ got' \in [Clients -> Text]
      <3>1. /\ inbox' = [inbox EXCEPT ![who[fd]] = <<>>]
            /\ got' = [got EXCEPT ![who[fd]] = <<>>]
        BY <1>1 DEF Drop
      <3>2. <<>> \in Text /\ inbox \in [Clients -> Text] /\ got \in [Clients -> Text]
        BY TextFacts DEF TableInv, TypeOK
      <3> QED BY <1>1, <3>1, <3>2
    <2> QED BY <2>1, <2>3, <2>4, <2>5 DEF TableInv, TypeOK
  <1> QED BY <1>3, <1>5, <1>6, <1>7, <1>8 DEF TableInv

\* The elements stay where they are: only their flags change.
LEMMA SameTable ==
    ASSUME TableInv, fds' \in Seq(Entry), Len(fds') = Len(fds),
           \A k \in 1..Len(fds) : fds'[k].fd = fds[k].fd
    PROVE  /\ Distinct' /\ Present' = Present
           /\ user_counter' <= USER_LIMIT
           /\ fds' \in Seq([fd : Fds, out : BOOLEAN, revents : SUBSET Events])
  <1>1. DOMAIN fds' = 1..Len(fds) /\ DOMAIN fds = 1..Len(fds)
    BY Before1
  <1>2. Distinct'
    BY <1>1 DEF TableInv, Distinct
  <1>3. Present' = Present
    BY <1>1 DEF Present
  <1> QED BY <1>2, <1>3, Before1 DEF user_counter, Entry

\* recv() and the broadcast leave the table as it is.
LEMMA ReceiveTable ==
    ASSUME TableInv, NEW fd \in Fds, Receive(fd)
    PROVE  TableInv'
  <1> DEFINE c == who[fd]
             n == Min({BUFFER_SIZE - 1, Len(inbox[c])})
             text == SubSeq(inbox[c], 1, n)
  <1>1. /\ i \in 1..Len(fds) /\ fds[i].fd = fd /\ Client(fd) = c /\ c \in Clients /\ At(fd)
    BY AtFacts DEF Receive, Takes
  <1>2. /\ i' = i + 1 /\ todo' = todo \ {fd}
        /\ inbox' = [inbox EXCEPT ![c] = SubSeq(@, n + 1, Len(@))]
        /\ Broadcast(fd, text)
        /\ UNCHANGED <<listening, who, ended, fresh, backlog, peer, sends, got, stale>>
    BY <1>1 DEF Receive, Takes
  <1>3. n \in 0..Len(inbox[c]) /\ Len(text) < BUFFER_SIZE
    BY <1>1, TakenFacts DEF TableInv
  <1> HIDE DEF n
  <1>4. text \in Text /\ SubSeq(inbox[c], n + 1, Len(inbox[c])) \in Text
    BY <1>1, <1>3, TextFacts DEF TableInv
  <1> HIDE DEF text
  <1>5. /\ fds' \in Seq(Entry) /\ Len(fds') = Len(fds)
        /\ \A k \in 1..Len(fds) : /\ fds'[k].fd = fds[k].fd
                                  /\ fds'[k].revents = fds[k].revents
    <2>1. fds' = [k \in 1..Len(fds) |-> [fds[k] EXCEPT !.out = @ \/ fds[k].fd # fd]]
      BY <1>2, Before1 DEF Broadcast
    <2>2. \A k \in 1..Len(fds) : /\ [fds[k] EXCEPT !.out = @ \/ fds[k].fd # fd] \in Entry
                                 /\ fds'[k].fd = fds[k].fd
                                 /\ fds'[k].revents = fds[k].revents
      BY <2>1, Before1 DEF Entry
    <2>3. fds' \in [1..Len(fds) -> Entry] /\ Len(fds) \in Nat
      BY <2>1, <2>2, Before1
    <2>4. fds' \in Seq(Entry) /\ Len(fds') = Len(fds)
      BY <2>3, SeqOfLength
    <2> QED BY <2>2, <2>4
  <1>6. users' \in [Fds -> [buf : {b \in Text : Len(b) < BUFFER_SIZE},
                            write_buf : Fds \cup {NULL}]]
    <2> DEFINE R == [buf : {b \in Text : Len(b) < BUFFER_SIZE}, write_buf : Fds \cup {NULL}]
               rec(g) == IF g = fd THEN [users[g] EXCEPT !.buf = text]
                         ELSE IF g \in Present THEN [users[g] EXCEPT !.write_buf = fd]
                         ELSE users[g]
    <2>1. \A g \in Fds : users[g] \in R
      BY DEF TableInv, TypeOK
    <2>2. \A g \in Fds : rec(g) \in R
      BY <1>3, <1>4, <2>1
    <2>3. users' = [g \in Fds |-> rec(g)]
      BY <1>2 DEF Broadcast
    <2> HIDE DEF rec
    <2> QED BY <2>2, <2>3
  <1>7. inbox' \in [Clients -> Text]
    BY <1>2, <1>4, <1>1 DEF TableInv, TypeOK
  <1>8. i' \in 0..(USER_LIMIT + 1) /\ i' <= Len(fds') + 1
    BY <1>1, <1>2, <1>5, Before1
  <1>9. TypeOK'
    BY <1>2, <1>5, <1>6, <1>7, <1>8, SameTable DEF TableInv, TypeOK
  <1>10. Ahead'
    <2> SUFFICES ASSUME NEW g \in todo \ {fd}
                 PROVE  \E k \in 1..Len(fds) :
                           k >= i + 1 /\ fds'[k].fd = g /\ fds'[k].revents # {}
      BY <1>2, <1>5 DEF Ahead
    <2>1. PICK k \in 1..Len(fds) : k >= i /\ fds[k].fd = g /\ fds[k].revents # {}
      BY Before1 DEF TableInv, Ahead
    <2>2. k # i
      BY <1>1, <2>1
    <2> QED BY <1>1, <1>5, <2>1, <2>2
  <1> QED BY <1>2, <1>5, <1>8, <1>9, <1>10, SameTable DEF TableInv

\* The loop goes on to the next element, and the table stays.
LEMMA NextElement ==
    ASSUME TableInv, NEW fd \in Fds, At(fd), i' = i + 1,
           todo' = todo \ {fd} \/ (todo' = todo /\ fds[i].revents = {}),
           UNCHANGED <<fds, listening, who, fresh, backlog, sends, inbox>>,
           users' \in [Fds -> [buf : {b \in Text : Len(b) < BUFFER_SIZE},
                               write_buf : Fds \cup {NULL}]],
           peer' \in [Clients -> {"up", "fin", "reset", "broken", "dead"}],
           got' \in [Clients -> Text]
    PROVE  TableInv'
  <1>1. i \in 1..Len(fds) /\ fds[i].fd = fd
    BY AtFacts
  <1>2. i' \in 0..(USER_LIMIT + 1) /\ i' <= Len(fds') + 1
    BY <1>1, Before1
  <1>3. TypeOK'
    BY <1>2 DEF TableInv, TypeOK, user_counter
  <1>4. Distinct' /\ Present' = Present
    BY DEF TableInv, Distinct, Present
  <1>5. Ahead'
    <2> SUFFICES ASSUME NEW g \in todo'
                 PROVE  \E k \in 1..Len(fds) :
                           k >= i + 1 /\ fds[k].fd = g /\ fds[k].revents # {}
      BY Before1 DEF Ahead
    <2>1. PICK k \in 1..Len(fds) : k >= i /\ fds[k].fd = g /\ fds[k].revents # {}
      BY Before1 DEF TableInv, Ahead
    <2>2. k # i
      BY <1>1, <2>1
    <2> QED BY <1>1, <2>1, <2>2
  <1> QED BY <1>2, <1>3, <1>4, <1>5 DEF TableInv

\* poll() starts a turn with the events of every open connection ahead.
LEMMA PollTable ==
    ASSUME TableInv, Poll
    PROVE  TableInv'
  <1> DEFINE n == Len(fds)
             new == [k \in DOMAIN fds |-> [fds[k] EXCEPT !.revents = Revents(fds[k])]]
  <1>1. /\ fds' = new /\ i' = 0 /\ listening' = (backlog # <<>>)
        /\ todo' = {new[k].fd : k \in {j \in DOMAIN new : new[j].revents # {}}}
        /\ UNCHANGED <<users, who, ended, world, got, stale>>
    BY DEF Poll
  <1>2. \A e : Revents(e) \subseteq Events
    BY DEF Revents
  <1>3. \A k \in 1..n : fds'[k] \in Entry /\ fds'[k].fd = fds[k].fd
    BY <1>1, <1>2, Before1 DEF Entry
  <1>4. fds' \in Seq(Entry) /\ Len(fds') = n
    <2>1. DOMAIN fds' = 1..n /\ fds' = [k \in 1..n |-> fds'[k]]
      BY <1>1, Before1
    <2>2. fds' \in [1..n -> Entry] /\ n \in Nat
      BY <1>3, <2>1, Before1
    <2> HIDE DEF n
    <2> QED BY <2>2, SeqOfLength
  <1>5. todo' = {fds'[k].fd : k \in {j \in 1..n : fds'[j].revents # {}}}
    BY <1>1, Before1
  <1> HIDE DEF new
  <1>6. todo' \subseteq Fds
    BY <1>3, <1>5, Before1
  <1>7. i' \in 0..(USER_LIMIT + 1) /\ i' <= Len(fds') + 1
    BY <1>1, <1>4, Before1
  <1>8. TypeOK'
    BY <1>1, <1>3, <1>4, <1>6, <1>7, SameTable DEF TableInv, TypeOK, world
  <1>9. Ahead'
    <2>1. DOMAIN fds' = 1..n
      BY <1>4, Before1
    <2> SUFFICES ASSUME NEW g \in todo'
                 PROVE  \E k \in 1..n : k >= 0 /\ fds'[k].fd = g /\ fds'[k].revents # {}
      BY <1>1, <2>1 DEF Ahead
    <2>2. PICK k \in 1..n : fds'[k].revents # {} /\ g = fds'[k].fd
      BY <1>5
    <2> QED BY <2>2
  <1> QED BY <1>1, <1>3, <1>4, <1>7, <1>8, <1>9, SameTable DEF TableInv, world

\* accept() adds a connection and its element behind the others.
LEMMA AcceptTable ==
    ASSUME TableInv, Accept
    PROVE  TableInv'
  <1> DEFINE n == Len(fds)
             connfd == Min({fd \in Fds : who[fd] = NULL})
             new == [fd |-> connfd, out |-> FALSE, revents |-> {}]
  <1>1. connfd \in Fds /\ who[connfd] = NULL
    BY FreeFd
  <1>2. /\ backlog # <<>> /\ i' = 1 /\ ~listening' /\ backlog' = Tail(backlog)
        /\ who' = [who EXCEPT ![connfd] = Head(backlog)] /\ fds' = Append(fds, new)
        /\ n < USER_LIMIT
        /\ UNCHANGED <<users, ended, fresh, peer, sends, inbox, todo, got, stale>>
    BY Before1 DEF Accept, AtListen, Full, TableInv, user_counter
  <1> HIDE DEF connfd
  <1>3. new \in Entry /\ new.fd = connfd
    BY <1>1 DEF Entry
  <1> HIDE DEF new
  <1>4. /\ fds' \in Seq(Entry) /\ Len(fds') = n + 1 /\ DOMAIN fds' = 1..(n + 1) /\ n \in Nat
        /\ fds'[n + 1] = new /\ \A k \in 1..n : fds'[k] = fds[k]
    BY <1>2, <1>3, Before1
  <1> HIDE DEF n
  <1>5. Head(backlog) \in Clients /\ Tail(backlog) \in Seq(Clients)
    BY <1>2 DEF TableInv, TypeOK
  <1>6. connfd \notin Present
    BY <1>1 DEF TableInv
  <1>7. 1..(n + 1) = (1..n) \cup {n + 1}
    BY <1>4
  <1>8. Present = {fds[k].fd : k \in 1..n} /\ Present' = {fds'[k].fd : k \in 1..(n + 1)}
    BY <1>4, Before1 DEF Present, n
  <1>9. Present' = Present \cup {connfd}
    BY <1>3, <1>4, <1>7, <1>8
  <1>10. Distinct'
    <2> SUFFICES ASSUME NEW j \in 1..(n + 1), NEW k \in 1..(n + 1), fds'[j].fd = fds'[k].fd
                 PROVE  j = k
      BY <1>4 DEF Distinct
    <2>1. \A a, b \in 1..n : fds[a].fd = fds[b].fd => a = b
      BY Before1 DEF TableInv, Distinct, n
    <2> QED BY <1>3, <1>4, <1>6, <1>7, <1>8, <2>1
  <1>11. who' \in [Fds -> Clients \cup {NULL}]
         /\ Present' = {fd \in Fds : who'[fd] # NULL}
    BY <1>1, <1>2, <1>5, <1>9, NullFacts DEF TableInv, TypeOK
  <1>12. i' \in 0..(USER_LIMIT + 1) /\ i' <= Len(fds') + 1 /\ user_counter' <= USER_LIMIT
    BY <1>2, <1>4, Before1 DEF user_counter
  <1>13. TypeOK'
    BY <1>2, <1>4, <1>5, <1>11, <1>12 DEF TableInv, TypeOK, Entry
  <1>14. Ahead'
    <2> SUFFICES ASSUME NEW g \in todo
                 PROVE  \E k \in 1..(n + 1) :
                           k >= 1 /\ fds'[k].fd = g /\ fds'[k].revents # {}
      BY <1>2, <1>4 DEF Ahead
    <2>1. PICK k \in 1..n : fds[k].fd = g /\ fds[k].revents # {}
      BY Before1 DEF TableInv, Ahead, n
    <2> QED BY <1>4, <1>7, <2>1
  <1> QED BY <1>2, <1>10, <1>11, <1>12, <1>13, <1>14 DEF TableInv

\* Every step keeps the table.
LEMMA TableStep ==
    ASSUME TableInv, [Next]_vars
    PROVE  TableInv'
  <1> USE DEF TableInv
  <1>1. CASE UNCHANGED vars
    <2>1. TypeOK'
      BY <1>1 DEF vars, server, world, TypeOK, user_counter
    <2> QED BY <1>1, <2>1 DEF vars, server, world, Distinct, Present, Ahead
  <1>2. CASE PollFails
    BY <1>2 DEF PollFails, world, TypeOK, user_counter, Distinct, Present, Ahead
  <1>3. CASE AcceptFails \/ Refuse
    <2>1. /\ backlog # <<>> /\ i = 0 /\ i' = 1 /\ ~listening' /\ backlog' = Tail(backlog)
          /\ UNCHANGED <<fds, users, who, ended, fresh, peer, sends, inbox, todo, got, stale>>
      BY <1>3 DEF AcceptFails, Refuse, AtListen
    <2>2. backlog' \in Seq(Clients)
      BY <2>1 DEF TypeOK
    <2>3. i' \in 0..(USER_LIMIT + 1) /\ i' <= Len(fds') + 1
      BY <2>1, Before1
    <2>4. TypeOK'
      BY <2>1, <2>2, <2>3 DEF TypeOK, user_counter
    <2>5. Ahead'
      BY <2>1, Before1 DEF Ahead
    <2> QED BY <2>1, <2>3, <2>4, <2>5 DEF Distinct, Present
  <1>4. CASE NoConnection
    <2>1. /\ i = 0 /\ i' = 1 /\ ~listening'
          /\ UNCHANGED <<fds, users, who, ended, world, todo, got, stale>>
      BY <1>4 DEF NoConnection, AtListen
    <2>3. i' \in 0..(USER_LIMIT + 1) /\ i' <= Len(fds') + 1
      BY <2>1, Before1
    <2>4. TypeOK'
      BY <2>1, <2>3 DEF TypeOK, user_counter, world
    <2>5. Ahead'
      BY <2>1, Before1 DEF Ahead
    <2> QED BY <2>1, <2>3, <2>4, <2>5 DEF Distinct, Present
  <1>5. ASSUME NEW fd \in Fds, FetchError(fd) PROVE TableInv'
    <2>1. At(fd) /\ who[fd] \in Clients /\ Client(fd) = who[fd]
      BY <1>5, AtFacts DEF FetchError, Takes
    <2>2. peer' \in [Clients -> {"up", "fin", "reset", "broken", "dead"}]
      BY <1>5, <2>1 DEF FetchError, TypeOK
    <2> QED BY <1>5, <2>1, <2>2, NextElement DEF FetchError, Takes, TypeOK
  <1>6. ASSUME NEW fd \in Fds, Leave(fd) PROVE TableInv'
    BY <1>6, DropTable DEF Leave, Takes
  <1>7. ASSUME NEW fd \in Fds, RecvFails(fd) PROVE TableInv'
    BY <1>7, DropTable DEF RecvFails, Takes
  <1>8. ASSUME NEW fd \in Fds, Send(fd) PROVE TableInv'
    <2>1. At(fd) /\ who[fd] \in Clients /\ Client(fd) = who[fd]
      BY <1>8, AtFacts DEF Send, Takes
    <2>2. peer' \in [Clients -> {"up", "fin", "reset", "broken", "dead"}]
      BY <1>8, <2>1 DEF Send, TypeOK
    <2>3. users' \in [Fds -> [buf : {b \in Text : Len(b) < BUFFER_SIZE},
                              write_buf : Fds \cup {NULL}]]
      BY <1>8 DEF Send, TypeOK
    <2>4. got' \in [Clients -> Text]
      <3>1. users[fd].write_buf \in Fds
        BY <1>8 DEF Send, TypeOK
      <3>2. got[who[fd]] \o users[users[fd].write_buf].buf \in Text
        BY <2>1, <3>1, TextFacts
      <3>3. got' \in {got, [got EXCEPT ![who[fd]] = got[who[fd]] \o users[users[fd].write_buf].buf]}
        BY <1>8, <2>1 DEF Send
      <3> QED BY <2>1, <3>2, <3>3 DEF TypeOK
    <2> QED BY <1>8, <2>1, <2>2, <2>3, <2>4, NextElement DEF Send, Takes
  <1>9. ASSUME NEW fd \in Fds, NothingToSend(fd) \/ NoEvent(fd) PROVE TableInv'
    BY <1>9, NextElement DEF NothingToSend, NoEvent, Takes, world, TypeOK
  <1>10. ASSUME NEW c \in Clients, Connect(c) PROVE TableInv'
    <2>1. /\ fresh' = fresh \ {c} /\ backlog' = Append(backlog, c)
          /\ UNCHANGED <<server, peer, sends, inbox, todo, got, stale>>
      BY <1>10 DEF Connect
    <2>2. backlog' \in Seq(Clients) /\ backlog' # <<>>
      BY <2>1 DEF TypeOK
    <2>3. TypeOK'
      BY <2>1, <2>2 DEF TypeOK, server, user_counter
    <2> QED BY <2>1, <2>2, <2>3 DEF server, Distinct, Present, Ahead
  <1>11. ASSUME NEW c \in Clients, ClientSends(c) PROVE TableInv'
    <2>1. /\ sends' = [sends EXCEPT ![c] = @ + 1]
          /\ inbox' = [inbox EXCEPT ![c] = Append(@, <<c, sends[c] + 1>>)]
          /\ UNCHANGED <<server, fresh, backlog, peer, todo, got, stale>>
      BY <1>11 DEF ClientSends
    <2>2. Append(inbox[c], <<c, sends[c] + 1>>) \in Text
      BY DEF TypeOK, Text
    <2>3. sends' \in [Clients -> Nat] /\ inbox' \in [Clients -> Text]
      BY <2>1, <2>2 DEF TypeOK
    <2>4. TypeOK'
      BY <2>1, <2>3 DEF TypeOK, server, user_counter
    <2> QED BY <2>1, <2>4 DEF server, Distinct, Present, Ahead
  <1>12. ASSUME NEW c \in Clients, ClientLeaves(c) \/ ClientResets(c) PROVE TableInv'
    <2>1. UNCHANGED <<server, fresh, backlog, sends, todo, got, stale>>
      BY <1>12 DEF ClientLeaves, ClientResets
    <2>2. peer' \in [Clients -> {"up", "fin", "reset", "broken", "dead"}]
      BY <1>12 DEF ClientLeaves, ClientResets, TypeOK
    <2>3. inbox' \in [Clients -> Text]
      BY <1>12, TextFacts DEF ClientLeaves, ClientResets, TypeOK
    <2>4. TypeOK'
      BY <2>1, <2>2, <2>3 DEF TypeOK, server, user_counter
    <2> QED BY <2>1, <2>4 DEF server, Distinct, Present, Ahead
  <1> QED
    BY <1>1, <1>2, <1>3, <1>4, <1>5, <1>6, <1>7, <1>8, <1>9, <1>10, <1>11, <1>12,
       PollTable, AcceptTable, ReceiveTable, Steps
-----------------------------------------------------------------------------
(* Texts.  The pieces of one client come in order in Ordered(s), those of  *)
(* s come before those of t in Before(s, t), and SentBy(s, n) says that    *)
(* client c has sent n[c] pieces.                                          *)

Ordered(s) == \A k \in DOMAIN s : \A j \in 1..(k - 1) :
                 s[j][1] = s[k][1] => s[j][2] < s[k][2]
Before(s, t) == \A j \in DOMAIN s : \A k \in DOMAIN t :
                   s[j][1] = t[k][1] => s[j][2] < t[k][2]
From(c, s) == \E k \in DOMAIN s : s[k][1] = c
SentBy(s, n) == \A k \in DOMAIN s : s[k][2] <= n[s[k][1]]

\* A buffer without text is in order and from nobody.
LEMMA EmptyText ==
    ASSUME NEW s, NEW n, NEW c
    PROVE  /\ Ordered(<<>>) /\ Before(<<>>, s) /\ Before(s, <<>>)
           /\ ~From(c, <<>>) /\ SentBy(<<>>, n)
  <1>1. DOMAIN <<>> = {}
    OBVIOUS
  <1> QED BY <1>1 DEF Ordered, Before, From, SentBy

\* One more piece behind all of its client.
LEMMA AppendText ==
    ASSUME NEW s \in Text, NEW t \in Text, NEW c \in Clients,
           NEW n \in [Clients -> Nat], SentBy(s, n), SentBy(t, n)
    PROVE  LET u == Append(s, <<c, n[c] + 1>>)
               m == [n EXCEPT ![c] = @ + 1]
           IN  /\ Ordered(s) => Ordered(u)
               /\ Before(t, s) => Before(t, u)
               /\ (\A k \in DOMAIN s : s[k][1] = c) => \A k \in DOMAIN u : u[k][1] = c
               /\ SentBy(u, m) /\ SentBy(t, m)
  <1> DEFINE p == <<c, n[c] + 1>>
             u == Append(s, p)
             m == [n EXCEPT ![c] = @ + 1]
  <1>1. /\ Len(s) \in Nat /\ DOMAIN s = 1..Len(s) /\ DOMAIN u = 1..(Len(s) + 1)
        /\ u[Len(s) + 1] = p /\ \A k \in 1..Len(s) : u[k] = s[k]
    BY DEF Text
  <1>2. 1..(Len(s) + 1) = (1..Len(s)) \cup {Len(s) + 1}
    BY <1>1
  <1>3. p[1] = c /\ p[2] = n[c] + 1
    OBVIOUS
  <1>4. /\ \A k \in DOMAIN s : s[k][1] \in Clients /\ s[k][2] \in Nat
        /\ \A k \in DOMAIN t : t[k][1] \in Clients /\ t[k][2] \in Nat
    BY DEF Text
  <1>5. /\ \A k \in DOMAIN s : s[k][1] = c => s[k][2] < n[c] + 1
        /\ \A k \in DOMAIN t : t[k][1] = c => t[k][2] < n[c] + 1
    BY <1>4 DEF SentBy
  <1>6. m \in [Clients -> Nat] /\ m[c] = n[c] + 1 /\ \A e \in Clients : n[e] <= m[e]
    OBVIOUS
  <1> HIDE DEF p, u, m
  <1>7. Ordered(s) => Ordered(u)
    <2> SUFFICES ASSUME Ordered(s), NEW k \in 1..(Len(s) + 1), NEW j \in 1..(k - 1),
                        u[j][1] = u[k][1]
                 PROVE  u[j][2] < u[k][2]
      BY <1>1 DEF Ordered
    <2>1. j \in 1..Len(s)
      BY <1>1
    <2>2. CASE k \in 1..Len(s)
      BY <1>1, <2>1, <2>2 DEF Ordered
    <2>3. CASE k = Len(s) + 1
      BY <1>1, <1>3, <1>5, <2>1, <2>3
    <2> QED BY <1>2, <2>2, <2>3
  <1>8. Before(t, s) => Before(t, u)
    <2> SUFFICES ASSUME Before(t, s), NEW j \in DOMAIN t, NEW k \in 1..(Len(s) + 1),
                        t[j][1] = u[k][1]
                 PROVE  t[j][2] < u[k][2]
      BY <1>1 DEF Before
    <2>1. CASE k \in 1..Len(s)
      BY <1>1, <2>1 DEF Before
    <2>2. CASE k = Len(s) + 1
      BY <1>1, <1>3, <1>5, <2>2
    <2> QED BY <1>2, <2>1, <2>2
  <1>9. (\A k \in DOMAIN s : s[k][1] = c) => \A k \in DOMAIN u : u[k][1] = c
    BY <1>1, <1>2, <1>3
  <1>10. SentBy(t, m)
    BY <1>4, <1>6 DEF SentBy
  <1>11. SentBy(u, m)
    <2> SUFFICES ASSUME NEW k \in 1..(Len(s) + 1) PROVE u[k][2] <= m[u[k][1]]
      BY <1>1 DEF SentBy
    <2>1. CASE k \in 1..Len(s)
      <3>1. s[k][2] <= n[s[k][1]] /\ n[s[k][1]] <= m[s[k][1]]
        BY <1>1, <1>4, <1>6, <2>1 DEF SentBy
      <3> QED BY <1>1, <1>4, <1>6, <2>1, <3>1, SMTT(30)
    <2>2. CASE k = Len(s) + 1
      BY <1>1, <1>3, <1>6, <2>2
    <2> QED BY <1>2, <2>1, <2>2
  <1> QED BY <1>7, <1>8, <1>9, <1>10, <1>11 DEF u, m, p

\* A text is cut in two.
LEMMA CutText ==
    ASSUME NEW s \in Text, NEW n \in 0..Len(s), NEW t \in Text, NEW c, NEW f
    PROVE  LET a == SubSeq(s, 1, n)
               b == SubSeq(s, n + 1, Len(s))
           IN  /\ Ordered(s) => Ordered(a) /\ Ordered(b) /\ Before(a, b)
               /\ Before(t, s) => Before(t, a) /\ Before(t, b)
               /\ From(c, a) \/ From(c, b) => From(c, s)
               /\ SentBy(s, f) => SentBy(a, f) /\ SentBy(b, f)
               /\ (\A k \in DOMAIN s : s[k][1] = c) => \A k \in DOMAIN b : b[k][1] = c
  <1> DEFINE a == SubSeq(s, 1, n)
             b == SubSeq(s, n + 1, Len(s))
  <1>1. /\ Len(s) \in Nat /\ n \in Nat /\ n <= Len(s) /\ DOMAIN s = 1..Len(s)
        /\ DOMAIN a = 1..n /\ DOMAIN b = 1..(Len(s) - n)
        /\ \A k \in 1..n : a[k] = s[k]
        /\ \A k \in 1..(Len(s) - n) : b[k] = s[k + n]
    BY DEF Text
  <1>2. \A k \in 1..(Len(s) - n) : k + n \in 1..Len(s)
    BY <1>1
  <1>3. \A k \in 1..n : k \in 1..Len(s)
    BY <1>1
  <1> HIDE DEF a, b
  <1>4. Ordered(s) => Ordered(a)
    <2> SUFFICES ASSUME Ordered(s), NEW k \in 1..n, NEW j \in 1..(k - 1),
                        a[j][1] = a[k][1]
                 PROVE  a[j][2] < a[k][2]
      BY <1>1 DEF Ordered
    <2>1. j \in 1..n /\ k \in DOMAIN s
      BY <1>1
    <2>2. a[j] = s[j] /\ a[k] = s[k]
      BY <1>1, <2>1
    <2> QED BY <2>1, <2>2 DEF Ordered
  <1>5. Ordered(s) => Ordered(b)
    <2> SUFFICES ASSUME Ordered(s), NEW k \in 1..(Len(s) - n), NEW j \in 1..(k - 1),
                        b[j][1] = b[k][1]
                 PROVE  b[j][2] < b[k][2]
      BY <1>1 DEF Ordered
    <2>1. j \in 1..(Len(s) - n) /\ j + n \in 1..((k + n) - 1) /\ k + n \in DOMAIN s
      BY <1>1
    <2>2. b[j] = s[j + n] /\ b[k] = s[k + n]
      BY <1>1, <2>1
    <2>3. s[j + n][1] = s[k + n][1] => s[j + n][2] < s[k + n][2]
      BY <2>1 DEF Ordered
    <2> QED BY <2>2, <2>3
  <1>6. Ordered(s) => Before(a, b)
    <2> SUFFICES ASSUME Ordered(s), NEW j \in 1..n, NEW k \in 1..(Len(s) - n),
                        a[j][1] = b[k][1]
                 PROVE  a[j][2] < b[k][2]
      BY <1>1 DEF Before
    <2>1. j \in 1..((k + n) - 1) /\ k + n \in DOMAIN s
      BY <1>1
    <2>2. a[j] = s[j] /\ b[k] = s[k + n]
      BY <1>1
    <2>3. s[j][1] = s[k + n][1] => s[j][2] < s[k + n][2]
      BY <2>1 DEF Ordered
    <2> QED BY <2>2, <2>3
  <1>11. /\ \A k \in DOMAIN a : k \in DOMAIN s /\ a[k] = s[k]
         /\ \A k \in DOMAIN b : k + n \in DOMAIN s /\ b[k] = s[k + n]
    BY <1>1, <1>2, <1>3
  <1>7. Before(t, s) => Before(t, a) /\ Before(t, b)
    BY <1>11 DEF Before
  <1>8. From(c, a) \/ From(c, b) => From(c, s)
    BY <1>1, <1>2, <1>3 DEF From
  <1>9. SentBy(s, f) => SentBy(a, f) /\ SentBy(b, f)
    BY <1>1, <1>2, <1>3 DEF SentBy
  <1>10. (\A k \in DOMAIN s : s[k][1] = c) => \A k \in DOMAIN b : b[k][1] = c
    BY <1>11
  <1> QED BY <1>4, <1>5, <1>6, <1>7, <1>8, <1>9, <1>10 DEF a, b

\* A text is put behind another.
LEMMA JoinText ==
    ASSUME NEW s \in Text, NEW t \in Text, NEW u \in Text, NEW c, NEW f
    PROVE  /\ Ordered(s) /\ Ordered(t) /\ Before(s, t) => Ordered(s \o t)
           /\ Before(s, u) /\ Before(t, u) => Before(s \o t, u)
           /\ From(c, s \o t) => From(c, s) \/ From(c, t)
           /\ SentBy(s, f) /\ SentBy(t, f) => SentBy(s \o t, f)
  <1> DEFINE v == s \o t
  <1>1. /\ Len(s) \in Nat /\ Len(t) \in Nat /\ DOMAIN s = 1..Len(s) /\ DOMAIN t = 1..Len(t)
        /\ DOMAIN v = 1..(Len(s) + Len(t))
        /\ \A k \in 1..Len(s) : v[k] = s[k]
        /\ \A k \in (Len(s) + 1)..(Len(s) + Len(t)) : v[k] = t[k - Len(s)]
    BY DEF Text
  <1>2. \A k \in DOMAIN v :
           \/ k \in 1..Len(s) /\ v[k] = s[k]
           \/ k - Len(s) \in 1..Len(t) /\ v[k] = t[k - Len(s)] /\ k > Len(s)
    BY <1>1
  <1> HIDE DEF v
  <1>3. ASSUME Ordered(s), Ordered(t), Before(s, t) PROVE Ordered(v)
    <2> SUFFICES ASSUME NEW k \in DOMAIN v, NEW j \in 1..(k - 1), v[j][1] = v[k][1]
                 PROVE  v[j][2] < v[k][2]
      BY DEF Ordered
    <2>1. j \in DOMAIN v /\ j < k /\ j \in Nat /\ k \in Nat
      BY <1>1
    <2>2. CASE k \in 1..Len(s) /\ v[k] = s[k]
      <3>1. j \in 1..Len(s) /\ v[j] = s[j]
        BY <1>1, <2>1, <2>2
      <3> QED BY <1>1, <1>3, <2>2, <3>1 DEF Ordered
    <2>3. CASE k - Len(s) \in 1..Len(t) /\ v[k] = t[k - Len(s)] /\ k > Len(s)
      <3>1. CASE j \in 1..Len(s) /\ v[j] = s[j]
        BY <1>1, <1>3, <2>3, <3>1 DEF Before
      <3>2. CASE j - Len(s) \in 1..Len(t) /\ v[j] = t[j - Len(s)]
        <4>1. j - Len(s) \in 1..((k - Len(s)) - 1)
          BY <1>1, <2>1, <3>2
        <4> QED BY <1>1, <1>3, <2>3, <3>2, <4>1 DEF Ordered
      <3> QED BY <1>2, <2>1, <3>1, <3>2
    <2> QED BY <1>2, <2>2, <2>3
  <1>4. Before(s, u) /\ Before(t, u) => Before(v, u)
    <2> SUFFICES ASSUME Before(s, u), Before(t, u), NEW j \in DOMAIN v, NEW k \in DOMAIN u,
                        v[j][1] = u[k][1]
                 PROVE  v[j][2] < u[k][2]
      BY DEF Before
    <2>1. CASE j \in DOMAIN s /\ v[j] = s[j]
      BY <2>1 DEF Before
    <2>2. CASE j - Len(s) \in DOMAIN t /\ v[j] = t[j - Len(s)]
      BY <2>2 DEF Before
    <2> QED BY <1>1, <1>2, <2>1, <2>2
  <1>5. From(c, v) => From(c, s) \/ From(c, t)
    BY <1>1, <1>2 DEF From
  <1>6. SentBy(s, f) /\ SentBy(t, f) => SentBy(v, f)
    BY <1>1, <1>2 DEF SentBy
  <1> QED BY <1>3, <1>4, <1>5, <1>6 DEF v
-----------------------------------------------------------------------------
\* A client has one descriptor.
OneClient == \A f, g \in Fds : who[f] = who[g] /\ who[f] # NULL => f = g

\* Nothing is known yet of a client that is not accepted.
Newcomer(c) == c \in fresh \/ c \in ToSet(backlog)
Newcomers ==
    /\ \A j, k \in DOMAIN backlog : backlog[j] = backlog[k] => j = k
    /\ fresh \cap ToSet(backlog) = {}
    /\ \A c \in Clients : Newcomer(c) =>
          /\ got[c] = <<>>
          /\ \A fd \in Fds : who[fd] # c /\ ~From(c, users[fd].buf)

\* The socket of a client holds what it has sent, in order.
InboxOK ==
    \A c \in Clients : /\ Ordered(inbox[c]) /\ SentBy(inbox[c], sends)
                       /\ \A k \in DOMAIN inbox[c] : inbox[c][k][1] = c

\* What is in a buffer, or was sent to a client, comes before what is unread.
BufOK ==
    \A fd \in Fds : /\ Ordered(users[fd].buf) /\ SentBy(users[fd].buf, sends)
                    /\ \A e \in Clients : Before(users[fd].buf, inbox[e])
GotOK ==
    \A c \in Clients : /\ SentBy(got[c], sends)
                       /\ \A e \in Clients : Before(got[c], inbox[e])
                       /\ ~stale => Ordered(got[c]) /\ ~From(c, got[c])

\* The buffer that a user's write_buf points at is not his own, and has news.
Pointed ==
    ~stale =>
       /\ \A fd \in Fds : users[fd].write_buf # fd
       /\ \A fd \in Fds : who[fd] # NULL /\ users[fd].write_buf # NULL =>
             /\ ~From(who[fd], users[users[fd].write_buf].buf)
             /\ Before(got[who[fd]], users[users[fd].write_buf].buf)

TextInv == OneClient /\ Newcomers /\ InboxOK /\ BufOK /\ GotOK /\ Pointed

\* A queue of different clients stays one when its head is taken or a new
\* client is appended.
LEMMA QueueFacts ==
    ASSUME NEW s \in Seq(Clients), \A j, k \in DOMAIN s : s[j] = s[k] => j = k
    PROVE  /\ s # <<>> =>
                /\ Head(s) \in ToSet(s) /\ ToSet(Tail(s)) \subseteq ToSet(s)
                /\ Head(s) \notin ToSet(Tail(s))
                /\ \A j, k \in DOMAIN Tail(s) : Tail(s)[j] = Tail(s)[k] => j = k
           /\ \A c \in Clients :
                /\ ToSet(Append(s, c)) = ToSet(s) \cup {c}
                /\ c \notin ToSet(s) =>
                     \A j, k \in DOMAIN Append(s, c) :
                        Append(s, c)[j] = Append(s, c)[k] => j = k
  <1>1. Len(s) \in Nat /\ DOMAIN s = 1..Len(s)
    OBVIOUS
  <1>2. ASSUME s # <<>>
        PROVE  /\ Head(s) \in ToSet(s) /\ ToSet(Tail(s)) \subseteq ToSet(s)
               /\ Head(s) \notin ToSet(Tail(s))
               /\ \A j, k \in DOMAIN Tail(s) : Tail(s)[j] = Tail(s)[k] => j = k
    <2>1. /\ Len(s) > 0 /\ Head(s) = s[1] /\ DOMAIN Tail(s) = 1..(Len(s) - 1)
          /\ \A k \in 1..(Len(s) - 1) : Tail(s)[k] = s[k + 1] /\ k + 1 \in DOMAIN s
      BY <1>1, <1>2
    <2>2. \A j, k \in 1..(Len(s) - 1) : Tail(s)[j] = Tail(s)[k] => j = k
      <3> SUFFICES ASSUME NEW j \in 1..(Len(s) - 1), NEW k \in 1..(Len(s) - 1),
                          Tail(s)[j] = Tail(s)[k]
                   PROVE  j = k
        OBVIOUS
      <3>1. j + 1 = k + 1
        BY <2>1
      <3> QED BY <3>1
    <2>3. Head(s) \in ToSet(s) /\ ToSet(Tail(s)) \subseteq ToSet(s)
      BY <1>1, <2>1 DEF ToSet
    <2>4. Head(s) \notin ToSet(Tail(s))
      <3> SUFFICES ASSUME NEW k \in 1..(Len(s) - 1), Tail(s)[k] = Head(s) PROVE FALSE
        BY <2>1 DEF ToSet
      <3>1. k + 1 = 1
        BY <1>1, <2>1
      <3> QED BY <3>1
    <2> QED BY <2>1, <2>2, <2>3, <2>4
  <1>3. ASSUME NEW c \in Clients
        PROVE  /\ ToSet(Append(s, c)) = ToSet(s) \cup {c}
               /\ c \notin ToSet(s) =>
                    \A j, k \in DOMAIN Append(s, c) :
                       Append(s, c)[j] = Append(s, c)[k] => j = k
    <2> DEFINE t == Append(s, c)
    <2>1. /\ DOMAIN t = 1..(Len(s) + 1) /\ t[Len(s) + 1] = c
          /\ \A k \in 1..Len(s) : t[k] = s[k]
          /\ 1..(Len(s) + 1) = (1..Len(s)) \cup {Len(s) + 1}
      BY <1>1
    <2> HIDE DEF t
    <2>2. ToSet(t) = ToSet(s) \cup {c}
      BY <1>1, <2>1 DEF ToSet
    <2>3. c \notin ToSet(s) => \A j, k \in DOMAIN t : t[j] = t[k] => j = k
      BY <1>1, <2>1 DEF ToSet
    <2> QED BY <2>2, <2>3 DEF t
  <1> QED BY <1>2, <1>3

\* A client that waits in the backlog has neither sent nor got a text.
LEMMA ConnectText ==
    ASSUME TableInv, TextInv, NEW c \in Clients, Connect(c)
    PROVE  TextInv'
  <1>1. /\ c \in fresh /\ fresh' = fresh \ {c} /\ backlog' = Append(backlog, c)
        /\ UNCHANGED <<users, who, sends, inbox, got, stale>> /\ backlog \in Seq(Clients)
    BY DEF Connect, server, TableInv, TypeOK
  <1>2. /\ ToSet(backlog') = ToSet(backlog) \cup {c}
        /\ \A j, k \in DOMAIN backlog' : backlog'[j] = backlog'[k] => j = k
    BY <1>1, QueueFacts DEF TextInv, Newcomers
  <1>3. Newcomers'
    BY <1>1, <1>2 DEF TextInv, Newcomers, Newcomer
  <1> QED BY <1>1, <1>3 DEF TextInv, OneClient, InboxOK, BufOK, GotOK, Pointed

\* A new text is later than all its client has sent before.
LEMMA SendsText ==
    ASSUME TableInv, TextInv, NEW c \in Clients, ClientSends(c)
    PROVE  TextInv'
  <1>1. /\ sends' = [sends EXCEPT ![c] = @ + 1]
        /\ inbox' = [inbox EXCEPT ![c] = Append(inbox[c], <<c, sends[c] + 1>>)]
        /\ UNCHANGED <<users, who, fresh, backlog, got, stale>>
    BY DEF ClientSends, server
  <1>2. /\ sends \in [Clients -> Nat] /\ inbox \in [Clients -> Text]
        /\ \A e \in Clients : inbox[e] \in Text /\ got[e] \in Text
        /\ \A fd \in Fds : users[fd].buf \in Text
    BY TextFacts DEF TableInv, TypeOK
  <1>3. /\ inbox'[c] = Append(inbox[c], <<c, sends[c] + 1>>)
        /\ \A e \in Clients \ {c} : inbox'[e] = inbox[e]
    BY <1>1, <1>2
  <1>4. InboxOK'
    <2>1. ASSUME NEW e \in Clients
          PROVE  /\ Ordered(inbox'[e]) /\ SentBy(inbox'[e], sends')
                 /\ \A k \in DOMAIN inbox'[e] : inbox'[e][k][1] = e
      <3>1. CASE e = c
        <4> DEFINE u == Append(inbox[c], <<c, sends[c] + 1>>)
        <4>1. /\ inbox[c] \in Text /\ Ordered(inbox[c]) /\ SentBy(inbox[c], sends)
              /\ \A k \in DOMAIN inbox[c] : inbox[c][k][1] = c
          BY <1>2 DEF TextInv, InboxOK
        <4>2. Ordered(u) /\ SentBy(u, sends')
          BY <1>1, <1>2, <4>1, AppendText
        <4>3. \A k \in DOMAIN u : u[k][1] = c
          BY <1>2, <4>1, AppendText
        <4> QED BY <1>3, <3>1, <4>2, <4>3
      <3>2. CASE e # c
        BY <1>1, <1>2, <1>3, <3>2, AppendText DEF TextInv, InboxOK
      <3> QED BY <3>1, <3>2
    <2> QED BY <2>1 DEF InboxOK
  <1>5. ASSUME NEW s \in Text, SentBy(s, sends), \A e \in Clients : Before(s, inbox[e])
        PROVE  SentBy(s, sends') /\ \A e \in Clients : Before(s, inbox'[e])
    <2>1. SentBy(inbox[c], sends) /\ inbox[c] \in Text
      BY <1>2 DEF TextInv, InboxOK
    <2>2. SentBy(s, sends') /\ Before(s, inbox'[c])
      BY <1>1, <1>2, <1>3, <1>5, <2>1, AppendText
    <2> QED BY <1>3, <1>5, <2>2
  <1>6. BufOK'
    BY <1>1, <1>2, <1>5 DEF TextInv, BufOK
  <1>7. GotOK'
    BY <1>1, <1>2, <1>5 DEF TextInv, GotOK
  <1> QED
    BY <1>1, <1>4, <1>6, <1>7 DEF TextInv, OneClient, Newcomers, Newcomer, Pointed

\* A reset drops the unread texts of the client.
LEMMA ResetsText ==
    ASSUME TableInv, TextInv, NEW c \in Clients, ClientResets(c)
    PROVE  TextInv'
  <1>1. UNCHANGED <<users, who, fresh, backlog, sends, got, stale>>
    BY DEF ClientResets, server
  <1>2. \A e \in Clients : inbox'[e] \in {inbox[e], <<>>}
    BY DEF ClientResets, TableInv, TypeOK
  <1>3. InboxOK'
    <2>1. ASSUME NEW e \in Clients
          PROVE  /\ Ordered(inbox'[e]) /\ SentBy(inbox'[e], sends)
                 /\ \A k \in DOMAIN inbox'[e] : inbox'[e][k][1] = e
      <3>1. CASE inbox'[e] = inbox[e]
        BY <3>1 DEF TextInv, InboxOK
      <3>2. CASE inbox'[e] = <<>>
        <4>1. DOMAIN <<>> = {}
          OBVIOUS
        <4> QED BY <3>2, <4>1, EmptyText
      <3> QED BY <1>2, <3>1, <3>2
    <2> QED BY <1>1, <2>1 DEF InboxOK
  <1>4. ASSUME NEW s, \A e \in Clients : Before(s, inbox[e])
        PROVE  \A e \in Clients : Before(s, inbox'[e])
    BY <1>2, <1>4, EmptyText
  <1>5. BufOK' /\ GotOK'
    BY <1>1, <1>4 DEF TextInv, BufOK, GotOK
  <1> QED BY <1>1, <1>3, <1>5 DEF TextInv, OneClient, Newcomers, Newcomer, Pointed

\* A refused client is not among those texts are about.
LEMMA RefuseText ==
    ASSUME TableInv, TextInv, AcceptFails \/ Refuse
    PROVE  TextInv'
  <1>1. /\ backlog # <<>> /\ backlog' = Tail(backlog) /\ backlog \in Seq(Clients)
        /\ UNCHANGED <<users, who, fresh, sends, inbox, got, stale>>
    BY DEF AcceptFails, Refuse, AtListen, TableInv, TypeOK
  <1>2. Newcomers'
    <2>1. /\ ToSet(backlog') \subseteq ToSet(backlog)
          /\ \A j, k \in DOMAIN backlog' : backlog'[j] = backlog'[k] => j = k
      BY <1>1, QueueFacts DEF TextInv, Newcomers
    <2> QED BY <1>1, <2>1 DEF TextInv, Newcomers, Newcomer
  <1> QED BY <1>1, <1>2 DEF TextInv, OneClient, InboxOK, BufOK, GotOK, Pointed

\* A new connection starts without texts, whoever had its descriptor before.
LEMMA AcceptText ==
    ASSUME TableInv, TextInv, Accept
    PROVE  TextInv'
  <1> DEFINE connfd == Min({fd \in Fds : who[fd] = NULL})
             c == Head(backlog)
  <1>1. connfd \in Fds /\ who[connfd] = NULL
    BY FreeFd
  <1>2. /\ backlog # <<>> /\ backlog' = Tail(backlog) /\ backlog \in Seq(Clients)
        /\ who' = [who EXCEPT ![connfd] = c] /\ who \in [Fds -> Clients \cup {NULL}]
        /\ UNCHANGED <<users, fresh, sends, inbox, got, stale>>
    BY DEF Accept, AtListen, TableInv, TypeOK
  <1> HIDE DEF connfd
  <1>3. /\ c \in Clients /\ c \in ToSet(backlog) /\ ToSet(backlog') \subseteq ToSet(backlog)
        /\ c \notin ToSet(backlog')
        /\ \A j, k \in DOMAIN backlog' : backlog'[j] = backlog'[k] => j = k
    BY <1>2, QueueFacts DEF TextInv, Newcomers
  <1>4. /\ got[c] = <<>> /\ \A fd \in Fds : who[fd] # c /\ ~From(c, users[fd].buf)
        /\ c \notin fresh
    BY <1>3 DEF TextInv, Newcomers, Newcomer
  <1> HIDE DEF c
  <1>5. who'[connfd] = c /\ \A fd \in Fds \ {connfd} : who'[fd] = who[fd]
    BY <1>1, <1>2
  <1>6. OneClient'
    BY <1>4, <1>5 DEF TextInv, OneClient
  <1>7. Newcomers'
    BY <1>2, <1>3, <1>4, <1>5 DEF TextInv, Newcomers, Newcomer
  <1>8. Pointed'
    <2> SUFFICES ASSUME ~stale, NEW fd \in Fds, who'[fd] # NULL, users[fd].write_buf # NULL
                 PROVE  /\ ~From(who'[fd], users[users[fd].write_buf].buf)
                        /\ Before(got[who'[fd]], users[users[fd].write_buf].buf)
      BY <1>2 DEF TextInv, Pointed
    <2>1. CASE fd = connfd
      <3>1. users[fd].write_buf \in Fds
        BY DEF TableInv, TypeOK
      <3> QED BY <1>4, <1>5, <2>1, <3>1, EmptyText
    <2>2. CASE fd # connfd
      BY <1>5, <2>2 DEF TextInv, Pointed
    <2> QED BY <2>1, <2>2
  <1> QED BY <1>2, <1>6, <1>7, <1>8 DEF TextInv, InboxOK, BufOK, GotOK

\* A user leaves: nobody's write_buf points at the buffer that is overwritten, or
\* the history says so.
LEMMA DropText ==
    ASSUME TableInv, TextInv, NEW fd \in Fds, At(fd), Drop(fd),
           UNCHANGED <<fresh, backlog, sends>>
    PROVE  TextInv'
  <1> DEFINE c == who[fd]
             l == Last(fds).fd
  <1>1. fd \in Present /\ Client(fd) = c /\ c \in Clients /\ c # NULL
    BY AtFacts, NullFacts
  <1>2. l \in Present /\ l \in Fds
    BY AtFacts, Before1 DEF Present, Last
  <1>3. /\ users' = [users EXCEPT ![fd] = users[l]] /\ who' = [who EXCEPT ![fd] = NULL]
        /\ inbox' = [inbox EXCEPT ![c] = <<>>] /\ got' = [got EXCEPT ![c] = <<>>]
        /\ stale' = (stale \/ \E g \in Present \ {fd} : users[g].write_buf = fd)
    BY <1>1 DEF Drop
  <1> HIDE DEF l
  <1>4. /\ users'[fd] = users[l] /\ \A g \in Fds \ {fd} : users'[g] = users[g]
        /\ who'[fd] = NULL /\ \A g \in Fds \ {fd} : who'[g] = who[g]
        /\ inbox'[c] = <<>> /\ \A e \in Clients \ {c} : inbox'[e] = inbox[e]
        /\ got'[c] = <<>> /\ \A e \in Clients \ {c} : got'[e] = got[e]
    BY <1>1, <1>2, <1>3 DEF TableInv, TypeOK
  <1>5. OneClient'
    BY <1>4 DEF TextInv, OneClient
  <1>6. Newcomers'
    <2>1. \A g \in Fds : users'[g] \in {users[g], users[l]}
      BY <1>4
    <2>2. ASSUME NEW e \in Clients, Newcomer(e)
          PROVE  /\ got'[e] = <<>>
                 /\ \A g \in Fds : who'[g] # e /\ ~From(e, users'[g].buf)
      BY <1>2, <1>4, <2>1, <2>2, NullFacts DEF TextInv, Newcomers
    <2> QED BY <2>2 DEF TextInv, Newcomers, Newcomer
  <1>7. ASSUME NEW s, \A e \in Clients : Before(s, inbox[e])
        PROVE  \A e \in Clients : Before(s, inbox'[e])
    BY <1>4, <1>7, EmptyText
  <1>8. InboxOK'
    <2>1. ASSUME NEW e \in Clients
          PROVE  /\ Ordered(inbox'[e]) /\ SentBy(inbox'[e], sends)
                 /\ \A k \in DOMAIN inbox'[e] : inbox'[e][k][1] = e
      <3>1. CASE e # c
        BY <1>4, <3>1 DEF TextInv, InboxOK
      <3>2. CASE e = c
        <4>1. DOMAIN <<>> = {}
          OBVIOUS
        <4> QED BY <1>4, <3>2, <4>1, EmptyText
      <3> QED BY <3>1, <3>2
    <2> QED BY <2>1 DEF InboxOK
  <1>9. BufOK'
    BY <1>2, <1>4, <1>7 DEF TextInv, BufOK
  <1>10. GotOK'
    <2>1. ASSUME NEW e \in Clients
          PROVE  /\ SentBy(got'[e], sends)
                 /\ \A d \in Clients : Before(got'[e], inbox'[d])
                 /\ ~stale' => Ordered(got'[e]) /\ ~From(e, got'[e])
      <3>1. CASE e # c
        BY <1>3, <1>4, <1>7, <3>1 DEF TextInv, GotOK
      <3>2. CASE e = c
        BY <1>4, <3>2, EmptyText
      <3> QED BY <3>1, <3>2
    <2> QED BY <2>1 DEF GotOK
  <1>11. Pointed'
    <2> SUFFICES ASSUME ~stale'
                 PROVE  /\ \A g \in Fds : users'[g].write_buf # g
                        /\ \A g \in Fds : who'[g] # NULL /\ users'[g].write_buf # NULL =>
                             /\ ~From(who'[g], users'[users'[g].write_buf].buf)
                             /\ Before(got'[who'[g]], users'[users'[g].write_buf].buf)
      BY DEF Pointed
    <2>1. ~stale /\ \A g \in Present \ {fd} : users[g].write_buf # fd
      BY <1>3
    <2>2. \A g \in Fds : users[g].write_buf # g
      BY <2>1 DEF TextInv, Pointed
    <2>3. \A g \in Fds : users'[g].write_buf # g
      BY <1>2, <1>4, <2>1, <2>2
    <2>4. ASSUME NEW g \in Fds, who'[g] # NULL, users'[g].write_buf # NULL
          PROVE  /\ ~From(who'[g], users'[users'[g].write_buf].buf)
                 /\ Before(got'[who'[g]], users'[users'[g].write_buf].buf)
      <3>1. g # fd /\ who'[g] = who[g] /\ users'[g] = users[g] /\ who[g] # NULL
        BY <1>4, <2>4
      <3>2. g \in Present \ {fd} /\ who[g] \in Clients
        BY <3>1 DEF TableInv, TypeOK
      <3>3. users[g].write_buf \in Fds \ {fd}
        BY <2>1, <2>4, <3>1, <3>2 DEF TableInv, TypeOK
      <3>4. who[g] # c
        BY <1>1, <3>1 DEF TextInv, OneClient
      <3>5. /\ users'[users[g].write_buf] = users[users[g].write_buf]
            /\ got'[who[g]] = got[who[g]]
        BY <1>4, <3>2, <3>3, <3>4
      <3>6. /\ ~From(who[g], users[users[g].write_buf].buf)
            /\ Before(got[who[g]], users[users[g].write_buf].buf)
        BY <2>1, <2>4, <3>1 DEF TextInv, Pointed
      <3> QED BY <3>1, <3>5, <3>6
    <2> QED BY <2>3, <2>4
  <1> QED BY <1>5, <1>6, <1>8, <1>9, <1>10, <1>11 DEF TextInv

\* A message is read into the sender's buffer, and everybody else's write_buf
\* points there.
LEMMA ReceiveText ==
    ASSUME TableInv, TextInv, NEW fd \in Fds, Receive(fd)
    PROVE  TextInv'
  <1> DEFINE c == who[fd]
             n == Min({BUFFER_SIZE - 1, Len(inbox[c])})
             text == SubSeq(inbox[c], 1, n)
             rest == SubSeq(inbox[c], n + 1, Len(inbox[c]))
  <1>1. fd \in Present /\ Client(fd) = c /\ c \in Clients /\ c # NULL
    BY AtFacts, NullFacts DEF Receive, Takes
  <1>2. /\ inbox' = [inbox EXCEPT ![c] = rest]
        /\ users' = [g \in Fds |->
                       IF g = fd THEN [users[g] EXCEPT !.buf = text]
                       ELSE IF g \in Present THEN [users[g] EXCEPT !.write_buf = fd]
                       ELSE users[g]]
        /\ UNCHANGED <<who, fresh, backlog, sends, got, stale>>
    BY <1>1 DEF Receive, Broadcast
  <1>3. n \in 0..Len(inbox[c])
    BY <1>1, TakenFacts DEF TableInv
  <1> HIDE DEF n
  <1>4. inbox[c] \in Text /\ text \in Text /\ rest \in Text
    BY <1>1, <1>3, TextFacts DEF TableInv
  <1>5. /\ Ordered(text) /\ Ordered(rest) /\ Before(text, rest)
        /\ SentBy(text, sends) /\ SentBy(rest, sends)
        /\ \A k \in DOMAIN rest : rest[k][1] = c
        /\ \A e \in Clients : From(e, text) => e = c
    <2>1. Ordered(inbox[c]) /\ SentBy(inbox[c], sends)
          /\ \A k \in DOMAIN inbox[c] : inbox[c][k][1] = c
      BY <1>1 DEF TextInv, InboxOK
    <2>2. \A e \in Clients : From(e, inbox[c]) => e = c
      BY <2>1 DEF From
    <2>3. \A e \in Clients : From(e, text) => From(e, inbox[c])
      BY <1>3, <1>4, CutText
    <2>4. /\ Ordered(text) /\ Ordered(rest) /\ Before(text, rest)
          /\ SentBy(text, sends) /\ SentBy(rest, sends)
      BY <1>3, <1>4, <2>1, CutText
    <2>5. \A k \in DOMAIN rest : rest[k][1] = c
      BY <1>3, <1>4, <2>1, CutText
    <2> QED BY <2>2, <2>3, <2>4, <2>5
  <1>6. ASSUME NEW s \in Text, Before(s, inbox[c])
        PROVE  Before(s, text) /\ Before(s, rest)
    BY <1>3, <1>4, <1>6, CutText
  <1> HIDE DEF text, rest
  <1>7. inbox'[c] = rest /\ \A e \in Clients \ {c} : inbox'[e] = inbox[e]
    BY <1>1, <1>2 DEF TableInv, TypeOK
  <1>8. /\ users'[fd].buf = text /\ users'[fd].write_buf = users[fd].write_buf
        /\ \A g \in Fds \ {fd} : users'[g].buf = users[g].buf
        /\ \A g \in Fds \ {fd} : users'[g].write_buf = IF g \in Present THEN fd
                                                       ELSE users[g].write_buf
    <2>1. \A g \in Fds : users[g] \in [buf : {b \in Text : Len(b) < BUFFER_SIZE},
                                       write_buf : Fds \cup {NULL}]
      BY DEF TableInv, TypeOK
    <2> QED BY <1>2, <2>1
  <1>9. ASSUME NEW s \in Text, \A e \in Clients : Before(s, inbox[e])
        PROVE  \A e \in Clients : Before(s, inbox'[e])
    BY <1>1, <1>6, <1>7, <1>9
  <1>10. /\ \A g \in Fds : users[g].buf \in Text
         /\ \A e \in Clients : got[e] \in Text
    BY TextFacts DEF TableInv
  <1>11. InboxOK'
    BY <1>2, <1>5, <1>7 DEF TextInv, InboxOK
  <1>12. BufOK'
    <2>1. \A e \in Clients : Before(text, inbox'[e])
      <3> SUFFICES ASSUME NEW e \in Clients PROVE Before(text, inbox'[e])
        OBVIOUS
      <3>1. CASE e = c
        BY <1>5, <1>7, <3>1
      <3>2. CASE e # c
        <4>1. \A k \in DOMAIN inbox[e] : inbox[e][k][1] = e
          BY DEF TextInv, InboxOK
        <4>2. \A j \in DOMAIN text : text[j][1] # e
          BY <1>5, <3>2 DEF From
        <4> QED BY <1>7, <3>2, <4>1, <4>2 DEF Before
      <3> QED BY <3>1, <3>2
    <2> QED BY <1>2, <1>5, <1>8, <1>9, <1>10, <2>1 DEF TextInv, BufOK
  <1>13. GotOK'
    BY <1>2, <1>9, <1>10 DEF TextInv, GotOK
  <1>14. Newcomers'
    BY <1>1, <1>2, <1>5, <1>8 DEF TextInv, Newcomers, Newcomer
  <1>15. Pointed'
    <2> SUFFICES ASSUME ~stale
                 PROVE  /\ \A g \in Fds : users'[g].write_buf # g
                        /\ \A g \in Fds : who[g] # NULL /\ users'[g].write_buf # NULL =>
                             /\ ~From(who[g], users'[users'[g].write_buf].buf)
                             /\ Before(got[who[g]], users'[users'[g].write_buf].buf)
      BY <1>2 DEF Pointed
    <2>1. \A g \in Fds : users[g].write_buf # g
      BY DEF TextInv, Pointed
    <2>2. \A g \in Fds : users'[g].write_buf # g
      BY <1>8, <2>1
    <2>3. ASSUME NEW g \in Fds, who[g] # NULL, users'[g].write_buf # NULL
          PROVE  /\ ~From(who[g], users'[users'[g].write_buf].buf)
                 /\ Before(got[who[g]], users'[users'[g].write_buf].buf)
      <3>1. who[g] \in Clients /\ g \in Present
        BY <2>3 DEF TableInv, TypeOK
      <3>2. CASE g = fd
        <4>1. users[fd].write_buf \in Fds \ {fd}
          BY <1>8, <2>1, <2>3, <3>2 DEF TableInv, TypeOK
        <4>2. users'[users'[g].write_buf].buf = users[users[g].write_buf].buf
          BY <1>8, <3>2, <4>1
        <4> QED BY <1>8, <2>3, <3>2, <4>2 DEF TextInv, Pointed
      <3>3. CASE g # fd
        <4>1. users'[g].write_buf = fd /\ users'[users'[g].write_buf].buf = text
          BY <1>8, <3>1, <3>3
        <4>2. who[g] # c
          BY <2>3, <3>3 DEF TextInv, OneClient
        <4>3. Before(got[who[g]], inbox[c])
          BY <1>1, <3>1 DEF TextInv, GotOK
        <4> QED BY <1>5, <1>6, <1>10, <3>1, <4>1, <4>2, <4>3
      <3> QED BY <3>2, <3>3
    <2> QED BY <2>2, <2>3
  <1> QED BY <1>2, <1>11, <1>12, <1>13, <1>14, <1>15 DEF TextInv, OneClient

\* What write_buf points at is sent, and write_buf cleared.
LEMMA SendText ==
    ASSUME TableInv, TextInv, NEW fd \in Fds, Send(fd)
    PROVE  TextInv'
  <1> DEFINE c == who[fd]
             b == users[users[fd].write_buf].buf
  <1>1. Client(fd) = c /\ c \in Clients /\ c # NULL
    BY AtFacts, NullFacts DEF Send, Takes
  <1>2. users[fd].write_buf \in Fds
    BY DEF Send, TableInv, TypeOK
  <1>3. /\ users' = [users EXCEPT ![fd].write_buf = NULL]
        /\ got' \in {got, [got EXCEPT ![c] = got[c] \o b]}
        /\ UNCHANGED <<who, fresh, backlog, sends, inbox, stale>>
    BY <1>1 DEF Send
  <1>4. /\ \A g \in Fds : users'[g].buf = users[g].buf
        /\ users'[fd].write_buf = NULL
        /\ \A g \in Fds \ {fd} : users'[g].write_buf = users[g].write_buf
    BY <1>3 DEF TableInv, TypeOK
  <1>5. b \in Text /\ got[c] \in Text /\ \A e \in Clients : inbox[e] \in Text
    BY <1>1, <1>2, TextFacts DEF TableInv
  <1>6. /\ Ordered(b) /\ SentBy(b, sends) /\ \A e \in Clients : Before(b, inbox[e])
    BY <1>2 DEF TextInv, BufOK
  <1>7. ~stale => ~From(c, b) /\ Before(got[c], b)
    BY <1>1, <1>2, NullFacts DEF TextInv, Pointed
  <1> HIDE DEF b
  <1>8. /\ got'[c] \in {got[c], got[c] \o b}
        /\ \A e \in Clients \ {c} : got'[e] = got[e]
    BY <1>1, <1>3 DEF TableInv, TypeOK
  <1>9. GotOK'
    <2>1. ASSUME NEW e \in Clients
          PROVE  /\ SentBy(got'[e], sends)
                 /\ \A d \in Clients : Before(got'[e], inbox[d])
                 /\ ~stale => Ordered(got'[e]) /\ ~From(e, got'[e])
      <3>1. CASE got'[e] = got[e]
        BY <3>1 DEF TextInv, GotOK
      <3>2. CASE e = c /\ got'[e] = got[c] \o b
        <4>1. /\ SentBy(got[c], sends) /\ \A d \in Clients : Before(got[c], inbox[d])
              /\ ~stale => Ordered(got[c]) /\ ~From(c, got[c])
          BY <1>1 DEF TextInv, GotOK
        <4>2. SentBy(got[c] \o b, sends)
          BY <1>5, <1>6, <4>1, JoinText
        <4>3. \A d \in Clients : Before(got[c] \o b, inbox[d])
          BY <1>5, <1>6, <4>1, JoinText
        <4>4. ~stale => Ordered(got[c] \o b) /\ ~From(c, got[c] \o b)
          BY <1>5, <1>6, <1>7, <4>1, JoinText
        <4> QED BY <3>2, <4>2, <4>3, <4>4
      <3> QED BY <1>8, <3>1, <3>2
    <2> QED BY <1>3, <2>1 DEF GotOK
  <1>10. OneClient' /\ InboxOK' /\ BufOK'
    BY <1>3, <1>4 DEF TextInv, OneClient, InboxOK, BufOK
  <1>11. Newcomers'
    BY <1>3, <1>4, <1>8 DEF TextInv, Newcomers, Newcomer
  <1>12. Pointed'
    <2> SUFFICES ASSUME ~stale
                 PROVE  /\ \A g \in Fds : users'[g].write_buf # g
                        /\ \A g \in Fds : who[g] # NULL /\ users'[g].write_buf # NULL =>
                             /\ ~From(who[g], users'[users'[g].write_buf].buf)
                             /\ Before(got'[who[g]], users'[users'[g].write_buf].buf)
      BY <1>3 DEF Pointed
    <2>1. \A g \in Fds : users'[g].write_buf # g
      BY <1>4, NullFacts DEF TextInv, Pointed
    <2>2. ASSUME NEW g \in Fds, who[g] # NULL, users'[g].write_buf # NULL
          PROVE  /\ ~From(who[g], users'[users'[g].write_buf].buf)
                 /\ Before(got'[who[g]], users'[users'[g].write_buf].buf)
      <3>1. g # fd /\ who[g] # c /\ who[g] \in Clients
        BY <1>4, <2>2 DEF TextInv, OneClient, TableInv, TypeOK
      <3>2. users'[g].write_buf = users[g].write_buf /\ users[g].write_buf \in Fds
        BY <1>4, <2>2, <3>1 DEF TableInv, TypeOK
      <3>3. /\ ~From(who[g], users[users[g].write_buf].buf)
            /\ Before(got[who[g]], users[users[g].write_buf].buf)
        BY <2>2, <3>2 DEF TextInv, Pointed
      <3> QED BY <1>4, <1>8, <3>1, <3>2, <3>3
    <2> QED BY <2>1, <2>2
  <1> QED BY <1>9, <1>10, <1>11, <1>12 DEF TextInv

\* Every step keeps the order of the texts.
LEMMA TextStep ==
    ASSUME TableInv, TextInv, [Next]_vars
    PROVE  TextInv'
  <1>1. ASSUME UNCHANGED <<users, who, fresh, backlog, sends, inbox, got, stale>>
        PROVE  TextInv'
    BY <1>1 DEF TextInv, OneClient, Newcomers, Newcomer, InboxOK, BufOK, GotOK, Pointed
  <1>2. CASE UNCHANGED vars \/ Poll \/ PollFails \/ NoConnection
    BY <1>1, <1>2 DEF vars, server, world, Poll, PollFails, NoConnection
  <1>3. ASSUME NEW fd \in Fds, FetchError(fd) \/ NothingToSend(fd) \/ NoEvent(fd)
        PROVE  TextInv'
    BY <1>1, <1>3 DEF FetchError, NothingToSend, NoEvent, world
  <1>4. ASSUME NEW fd \in Fds, Leave(fd) \/ RecvFails(fd) PROVE TextInv'
    BY <1>4, DropText DEF Leave, RecvFails, Takes
  <1>5. ASSUME NEW c \in Clients, ClientLeaves(c) PROVE TextInv'
    BY <1>1, <1>5 DEF ClientLeaves, server
  <1> QED
    BY <1>2, <1>3, <1>4, <1>5, ConnectText, SendsText, ResetsText, RefuseText, AcceptText,
       ReceiveText, SendText, Steps
-----------------------------------------------------------------------------
\* The room starts without connections.
LEMMA InitInv == Init => TableInv /\ TextInv
  <1> SUFFICES ASSUME Init PROVE TableInv /\ TextInv
    OBVIOUS
  <1> USE ChatAssumption
  <1>1. <<>> \in Text /\ Len(<<>>) = 0 /\ DOMAIN <<>> = {} /\ ToSet(<<>>) = {}
    BY DEF Text, ToSet
  <1>2. fds \in Seq(Entry) /\ Len(fds) = 0 /\ DOMAIN fds = {} /\ i = 1
    BY <1>1 DEF Init
  <1>3. users \in [Fds -> [buf : {b \in Text : Len(b) < BUFFER_SIZE},
                           write_buf : Fds \cup {NULL}]]
    BY <1>1 DEF Init
  <1>4. TypeOK
    <2>1. inbox \in [Clients -> Text] /\ got \in [Clients -> Text]
      BY <1>1 DEF Init
    <2>2. backlog \in Seq(Clients) /\ fresh \subseteq Clients /\ todo \subseteq Fds
      BY DEF Init
    <2>3. /\ who \in [Fds -> Clients \cup {NULL}] /\ sends \in [Clients -> Nat]
          /\ peer \in [Clients -> {"up", "fin", "reset", "broken", "dead"}]
      BY DEF Init
    <2>4. user_counter <= USER_LIMIT /\ i \in 0..(USER_LIMIT + 1)
      BY <1>2 DEF user_counter
    <2> QED BY <1>2, <1>3, <2>1, <2>2, <2>3, <2>4 DEF TypeOK, Entry
  <1>5. Present = {}
    BY <1>2 DEF Present
  <1>6. TableInv
    BY <1>2, <1>4, <1>5 DEF Init, TableInv, Distinct, Ahead
  <1>7. OneClient /\ Newcomers
    BY <1>1, NullFacts, EmptyText DEF Init, OneClient, Newcomers
  <1>8. InboxOK /\ BufOK /\ GotOK
    BY <1>1, EmptyText DEF Init, InboxOK, BufOK, GotOK
  <1>9. Pointed
    BY NullFacts DEF Init, Pointed
  <1> QED BY <1>6, <1>7, <1>8, <1>9 DEF TextInv

\* The inductive invariant holds: the table is the open connections, with all that
\* is not handled ahead of the loop, and the texts of a client come in order
\* wherever they are.
THEOREM Inductive == Spec => [](TableInv /\ TextInv)
  <1>1. TableInv /\ TextInv /\ [Next]_vars => TableInv' /\ TextInv'
    BY TableStep, TextStep
  <1> QED BY <1>1, InitInv, PTL DEF Spec

\* fds[] is the open connections, whoever leaves while the loop goes on: none is
\* lost, kept twice or kept after its descriptor was closed.
THEOREM TableStaysExact == Spec => []TableExact
  <1>1. TableInv => TableExact
    <2> SUFFICES ASSUME TableInv PROVE TableExact
      OBVIOUS
    <2>1. Cardinality(Present) = user_counter
      BY Before1, PresentCounted DEF TableInv, user_counter
    <2> QED BY <2>1 DEF TableInv, TableExact
  <1> QED BY <1>1, Inductive, PTL

\* One pass of the loop handles every event poll() reported, those of elements
\* moved to another place included.
THEOREM EveryEventHandled == Spec => []TurnComplete
  <1>1. TableInv => TurnComplete
    <2> SUFFICES ASSUME TableInv, i > Len(fds), NEW fd \in todo PROVE FALSE
      BY DEF TurnComplete, user_counter
    <2>1. PICK k \in 1..Len(fds) : k >= i
      BY Before1 DEF TableInv, Ahead
    <2> QED BY <2>1, Before1
  <1> QED BY <1>1, Inductive, PTL

\* Sharing one buffer among all readers loses messages but never repeats or swaps
\* them and never returns them to their sender, as long as nobody leaves while
\* his buffer is pointed at.
THEOREM MessagesInOrder == Spec => []TextsInOrder
  <1>1. TextInv => TextsInOrder
    BY DEF TextInv, GotOK, Ordered, From, TextsInOrder
  <1> QED BY <1>1, Inductive, PTL
=============================================================================
