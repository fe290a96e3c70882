--------------------------- MODULE HttpConnProofs ---------------------------
(***************************************************************************)
(* Proofs about HttpConn, for any workers, requests, files and buffer size *)
(* and any number of connections.                                          *)
(***************************************************************************)
EXTENDS HttpConn, FiniteSetTheorems, WellFoundedInduction, NaturalsInduction, TLAPS

-----------------------------------------------------------------------------
(* The parser keeps its type, the order of its positions and the length of *)
(* what was read.                                                          *)

\* Min() finds what it is asked for.
LEMMA MinFacts ==
    ASSUME NEW T \in SUBSET Nat, T # {}
    PROVE  Min(T) \in T /\ \A y \in T : Min(T) <= y
  <1>1. PICK x \in T : \A y \in T : ~(<<y, x>> \in OpToRel(<, Nat))
    BY NatLessThanWellFounded, WFMin
  <1>2. \A y \in T : ~(y < x)
    BY <1>1 DEF OpToRel
  <1>3. \A y \in T : x <= y
    BY <1>2
  <1> QED BY <1>3 DEF Min

\* A function on 1..n is a sequence of length n.
LEMMA SeqOfLength ==
    ASSUME NEW S, NEW n \in Nat, NEW f \in [1..n -> S]
    PROVE  f \in Seq(S) /\ Len(f) = n
  OBVIOUS

\* A record the parser may work on.
Sound(p) == /\ p \in Parser
            /\ p.m_start_line <= p.m_checked_idx
            /\ p.m_checked_idx <= m_read_idx(p)

\* What a parser function may leave of p.
Leaves(p, q) == Sound(q) /\ m_read_idx(q) = m_read_idx(p)

\* Ending a line keeps the buffer's length and the order of the positions.
LEMMA EndLineFacts ==
    ASSUME NEW p, Sound(p), NEW i \in p.m_checked_idx..(m_read_idx(p) - 1)
    PROVE  Leaves(p, EndLine(p, i))
  <1> DEFINE piece(k) == IF k = i + 1 THEN "NUL"
                         ELSE IF k = i THEN Cut(p.m_read_buf[k]) ELSE p.m_read_buf[k]
             buf == [k \in DOMAIN p.m_read_buf |-> piece(k)]
  <1>1. /\ p.m_read_buf \in Seq(Bytes) /\ p.m_checked_idx \in Nat /\ p.m_start_line \in Nat
        /\ m_read_idx(p) = Len(p.m_read_buf) /\ Len(p.m_read_buf) \in Nat
    BY DEF Sound, Parser, m_read_idx
  <1>2. \A b \in Bytes : Cut(b) \in Bytes
    BY DEF Cut, Bytes, Pieces
  <1>3. \A k \in 1..Len(p.m_read_buf) : piece(k) \in Bytes
    <2> SUFFICES ASSUME NEW k \in 1..Len(p.m_read_buf) PROVE piece(k) \in Bytes
      OBVIOUS
    <2>1. p.m_read_buf[k] \in Bytes /\ "NUL" \in Bytes
      BY <1>1 DEF Bytes
    <2> QED BY <1>2, <2>1
  <1>4. buf \in Seq(Bytes) /\ Len(buf) = Len(p.m_read_buf)
    <2> HIDE DEF piece
    <2>1. buf \in [1..Len(p.m_read_buf) -> Bytes]
      BY <1>1, <1>3
    <2> HIDE DEF buf
    <2> QED BY <1>1, <2>1, SeqOfLength
  <1>5. EndLine(p, i) = [p EXCEPT !.m_read_buf = buf, !.m_checked_idx = i + 1]
    BY DEF EndLine
  <1> HIDE DEF buf
  <1>6. i + 1 \in Nat /\ p.m_start_line <= i + 1 /\ i + 1 <= Len(p.m_read_buf)
    BY <1>1 DEF Sound
  <1> QED BY <1>1, <1>4, <1>5, <1>6 DEF Leaves, Sound, Parser, m_read_idx

\* parse_line() stays within what was read.
LEMMA LineFacts ==
    ASSUME NEW p, Sound(p)
    PROVE  Leaves(p, parse_line(p).p)
  <1> DEFINE stops == {i \in p.m_checked_idx..(m_read_idx(p) - 1) : At(p, i) \in {"CR", "LF"}}
             i == Min(stops)
             stop == [p EXCEPT !.m_checked_idx = i]
  <1>1. /\ p.m_checked_idx \in Nat /\ p.m_start_line \in Nat /\ m_read_idx(p) \in Nat
        /\ p.m_start_line <= p.m_checked_idx /\ p.m_checked_idx <= m_read_idx(p)
    BY DEF Sound, Parser, m_read_idx
  <1>2. CASE stops = {}
    <2>1. parse_line(p).p = [p EXCEPT !.m_checked_idx = m_read_idx(p)]
      BY <1>2 DEF parse_line
    <2> QED BY <1>1, <2>1 DEF Leaves, Sound, Parser, m_read_idx
  <1>3. CASE stops # {}
    <2>1. i \in p.m_checked_idx..(m_read_idx(p) - 1)
      <3>1. stops \in SUBSET Nat
        BY <1>1
      <3>2. i \in stops
        BY <1>3, <3>1, MinFacts
      <3> QED BY <3>2
    <2>2. parse_line(p).p \in {stop, EndLine(p, i)}
      BY <1>3 DEF parse_line
    <2>3. Leaves(p, EndLine(p, i))
      BY <2>1, EndLineFacts
    <2>4. Leaves(p, stop)
      <3> HIDE DEF i
      <3> QED BY <1>1, <2>1 DEF Leaves, Sound, Parser, m_read_idx
    <2> HIDE DEF i, stop
    <2> QED BY <2>2, <2>3, <2>4
  <1> QED BY <1>2, <1>3

\* The body of the parser's loop stays within what was read.
LEMMA BodyFacts ==
    ASSUME NEW p, Sound(p)
    PROVE  Leaves(p, LoopBody(p).p)
  <1> DEFINE q == [p EXCEPT !.m_start_line = p.m_checked_idx]
  <1>1. q \in Parser /\ Leaves(p, q)
    BY DEF Sound, Leaves, Parser, m_read_idx
  <1>2. ASSUME NEW text PROVE Leaves(p, parse_request_line(q, text).p)
    BY <1>1 DEF parse_request_line, Leaves, Sound, Parser, m_read_idx
  <1>3. ASSUME NEW text PROVE Leaves(p, parse_headers(q, text).p)
    BY <1>1 DEF parse_headers, Leaves, Sound, Parser, m_read_idx
  <1>4. Leaves(p, parse_content(q).p)
    BY <1>1 DEF parse_content
  <1>5. p.m_check_state \in {"REQUESTLINE", "HEADER", "CONTENT"}
    BY DEF Sound, Parser
  <1> QED BY <1>2, <1>3, <1>4, <1>5 DEF LoopBody

\* One turn of process_read().
LEMMA TurnFacts ==
    ASSUME NEW p, Sound(p), NEW s
    PROVE  Leaves(p, LoopTurn(p, s).p)
  <1>1. Leaves(p, parse_line(p).p)
    BY LineFacts
  <1>2. Leaves(p, LoopBody(parse_line(p).p).p)
    BY <1>1, BodyFacts DEF Leaves
  <1>3. Leaves(p, LoopBody(p).p)
    BY BodyFacts
  <1>4. LoopTurn(p, s).p \in {parse_line(p).p, LoopBody(parse_line(p).p).p, LoopBody(p).p}
    BY DEF LoopTurn
  <1> QED BY <1>1, <1>2, <1>3, <1>4
-----------------------------------------------------------------------------
(* The type of the state.                                                  *)

\* The connection's record is one the parser may work on, inside its buffer.
HttpOK(p) == Sound(p) /\ m_read_idx(p) <= READ_BUFFER_SIZE

\* The rest of the type.
RestOK ==
    /\ open \in BOOLEAN /\ armed \in {"none", "IN", "OUT"} /\ valid \in BOOLEAN
    /\ unsent \in Seq(Pieces) /\ data \in Seq(Pieces)
    /\ m_write_idx \in Nat /\ m_iv_count \in 0..2 /\ mapped \in {"null", "file", "failed"}
    /\ main \in {"idle", "IN", "OUT", "HUP", "write"} /\ pool \in Nat
    /\ pc \in [Workers -> {"wait", "parse", "close", "forget", "modfd"}]

\* The type of the state, split into the parser's part and the rest.
LEMMA TypeParts == TypeOK <=> HttpOK(http) /\ RestOK
  BY DEF TypeOK, HttpOK, RestOK, Sound

\* init() leaves an empty, well-formed buffer.
LEMMA InitFacts == HttpOK(init) /\ m_read_idx(init) = 0
  <1>1. init \in Parser /\ m_read_idx(init) = 0
    BY DEF init, Parser, m_read_idx
  <1> QED BY <1>1, HttpAssumption DEF HttpOK, Sound, init

\* read() keeps the record in order and within the buffer.
LEMMA FillFacts ==
    ASSUME TypeOK, Fill
    PROVE  HttpOK(http')
  <1> DEFINE buf == http.m_read_buf
             all == buf \o data
             n == Min({READ_BUFFER_SIZE, Len(all)})
  <1>1. /\ http \in Parser /\ buf \in Seq(Bytes) /\ data \in Seq(Bytes)
        /\ Len(buf) \in Nat /\ Len(data) \in Nat /\ Len(buf) <= READ_BUFFER_SIZE
        /\ READ_BUFFER_SIZE \in Nat
    BY HttpAssumption DEF TypeOK, Parser, m_read_idx, Bytes
  <1>2. all \in Seq(Bytes) /\ Len(all) = Len(buf) + Len(data)
    BY <1>1
  <1>3. n \in Nat /\ n <= READ_BUFFER_SIZE /\ n <= Len(all) /\ Len(buf) <= n
    <2>1. {READ_BUFFER_SIZE, Len(all)} \in SUBSET Nat
      BY <1>1, <1>2
    <2>2. n \in {READ_BUFFER_SIZE, Len(all)} /\ n <= READ_BUFFER_SIZE /\ n <= Len(all)
      BY <2>1, MinFacts
    <2> HIDE DEF n, all
    <2> QED BY <1>1, <1>2, <2>2
  <1> HIDE DEF n, all
  <1>4. SubSeq(all, 1, n) \in Seq(Bytes) /\ Len(SubSeq(all, 1, n)) = n
    BY <1>2, <1>3
  <1>5. CASE valid
    <2>1. http' = [http EXCEPT !.m_read_buf = SubSeq(all, 1, n)]
      BY <1>5 DEF Fill, Received, ReceivedAll, n, all
    <2>2. http' \in Parser /\ m_read_idx(http') = n
      BY <1>1, <1>4, <2>1 DEF Parser, m_read_idx
    <2>3. /\ http'.m_start_line = http.m_start_line
          /\ http'.m_checked_idx = http.m_checked_idx
          /\ http.m_checked_idx \in Nat
      BY <1>1, <2>1 DEF Parser
    <2>4. http.m_start_line <= http.m_checked_idx /\ http.m_checked_idx <= Len(buf)
      BY DEF TypeOK, m_read_idx
    <2>5. HttpOK(http')
      BY <1>1, <1>3, <2>2, <2>3, <2>4 DEF HttpOK, Sound
    <2> QED BY <2>5
  <1>6. CASE ~valid
    <2>1. http' = [http EXCEPT !.m_read_buf = http.m_read_buf]
      BY <1>6 DEF Fill
    <2>2. http' = http
      BY <1>1, <2>1 DEF Parser
    <2> QED BY <2>2, TypeParts
  <1> QED BY <1>5, <1>6

\* One turn of the parser keeps the length of the buffer.
LEMMA ParsedFacts ==
    ASSUME TypeOK, NEW w \in Workers
    PROVE  HttpOK(Turn(w).p) /\ m_read_idx(Turn(w).p) = m_read_idx(http)
  BY TypeParts, TurnFacts DEF HttpOK, Turn, Leaves

\* The socket's part of the type.
SocketOK == /\ open \in BOOLEAN /\ armed \in {"none", "IN", "OUT"} /\ valid \in BOOLEAN
            /\ unsent \in Seq(Pieces) /\ data \in Seq(Pieces)

\* Closing the connection keeps the types of the socket's part.
LEMMA CloseFacts ==
    /\ RestOK /\ removefd /\ valid' = valid => SocketOK'
    /\ RestOK /\ close_conn => SocketOK'
  <1>1. <<>> \in Seq(Pieces)
    OBVIOUS
  <1> QED BY <1>1 DEF RestOK, SocketOK, close_conn, removefd

\* A step of the specification is a step of one of its actions.
LEMMA Steps ==
    ASSUME [Next]_vars
    PROVE  \/ UNCHANGED vars
           \/ EpollWait \/ Hangup \/ ReadAppend \/ ReadFails
           \/ Write \/ WritevAgain \/ WritevFails \/ Accept
           \/ ClientSends \/ ClientReads \/ ClientLeaves
           \/ \E k \in 1..ResponseLen : Writev(k)
           \/ \E w \in Workers :
                \/ Take(w) \/ CloseFd(w) \/ Forget(w) \/ ModfdClosed(w)
                \/ pc[w] = "parse" /\ ParseMore(w, Turn(w))
                \/ pc[w] = "parse" /\ ParseOpen(w, Turn(w))
                \/ pc[w] = "parse" /\ AnswerError(w, Turn(w))
                \/ pc[w] = "parse" /\ AnswerFile(w, Turn(w))
                \/ pc[w] = "parse" /\ AnswerEmpty(w, Turn(w))
  BY DEF Next, MainStep, WorkerStep

\* Every step keeps the types.
LEMMA TypeStep ==
    ASSUME TypeOK, [Next]_vars
    PROVE  TypeOK'
  <1> USE HttpAssumption
  <1>0. HttpOK(http) /\ RestOK /\ HttpOK(init)
    BY TypeParts, InitFacts
  <1>a. HttpOK(http') /\ RestOK' => TypeOK'
    BY DEF TypeOK, HttpOK, RestOK, Sound
  <1> SUFFICES HttpOK(http') /\ RestOK'
    BY <1>a
  <1>1. CASE UNCHANGED vars
    BY <1>0, <1>1 DEF RestOK, vars, socket, user, threads
  <1>2. CASE EpollWait
    BY <1>0, <1>2 DEF RestOK, EpollWait, user
  <1>3. CASE Hangup
    BY <1>0, <1>3, CloseFacts DEF RestOK, SocketOK, Hangup
  <1>4. CASE ReadAppend
    <2>1. HttpOK(http')
      BY <1>4, FillFacts DEF ReadAppend
    <2> QED BY <1>0, <1>4, <2>1 DEF RestOK, ReadAppend
  <1>5. CASE ReadFails
    <2>1. HttpOK(http')
      BY <1>5, FillFacts DEF ReadFails
    <2> QED BY <1>0, <1>5, <2>1, CloseFacts DEF RestOK, SocketOK, ReadFails
  <1>6. CASE Write
    BY <1>0, <1>6 DEF RestOK, Write, modfd
  <1>7. CASE WritevAgain
    BY <1>0, <1>7 DEF RestOK, WritevAgain, modfd, user
  <1>8. CASE WritevFails
    BY <1>0, <1>8, CloseFacts DEF RestOK, SocketOK, WritevFails
  <1>9. CASE Accept
    BY <1>0, <1>9 DEF RestOK, Accept, threads
  <1>10. CASE ClientSends
    <2>1. PICK k \in 1..Len(unsent) :
             /\ data' = data \o SubSeq(unsent, 1, k)
             /\ unsent' = SubSeq(unsent, k + 1, Len(unsent))
      BY <1>10 DEF ClientSends
    <2>2. data' \in Seq(Pieces) /\ unsent' \in Seq(Pieces)
      BY <1>0, <2>1 DEF RestOK
    <2> QED BY <1>0, <1>10, <2>2 DEF RestOK, ClientSends, user, threads
  <1>11. CASE ClientReads \/ ClientLeaves
    BY <1>0, <1>11 DEF RestOK, ClientReads, ClientLeaves, user, threads
  <1>12. ASSUME NEW k \in 1..ResponseLen, Writev(k) PROVE HttpOK(http') /\ RestOK'
    <2>1. http' \in {http, init} /\ m_write_idx' \in {m_write_idx, 0}
          /\ main' \in {main, "idle"} /\ mapped' \in {mapped, "null"}
          /\ UNCHANGED <<m_iv_count, pool, pc>>
      BY <1>12 DEF Writev
    <2>2. SocketOK'
      <3>1. CASE UNCHANGED <<open, armed, unsent, data, valid>>
        BY <1>0, <3>1 DEF RestOK, SocketOK
      <3>2. CASE modfd("IN") /\ UNCHANGED <<open, unsent, data, valid>>
        BY <1>0, <3>2 DEF RestOK, SocketOK, modfd
      <3>3. CASE close_conn
        BY <1>0, <3>3, CloseFacts
      <3> QED BY <1>12, <3>1, <3>2, <3>3 DEF Writev
    <2> QED BY <1>0, <2>1, <2>2 DEF RestOK, SocketOK
  <1>13. ASSUME NEW w \in Workers, Take(w) PROVE HttpOK(http') /\ RestOK'
    BY <1>0, <1>13 DEF RestOK, Take, socket, user
  <1>14. ASSUME NEW w \in Workers, CloseFd(w) PROVE HttpOK(http') /\ RestOK'
    <2>1. SocketOK'
      BY <1>0, <1>14, CloseFacts DEF CloseFd, RestOK, SocketOK, user
    <2>2. /\ pc' \in [Workers -> {"wait", "parse", "close", "forget", "modfd"}]
          /\ UNCHANGED <<http, m_write_idx, m_iv_count, mapped, main, pool>>
      BY <1>0, <1>14 DEF CloseFd, RestOK, user
    <2> QED BY <1>0, <2>1, <2>2 DEF RestOK, SocketOK
  <1>15. ASSUME NEW w \in Workers, Forget(w) \/ ModfdClosed(w) PROVE HttpOK(http') /\ RestOK'
    BY <1>0, <1>15 DEF RestOK, Forget, ModfdClosed, modfd, socket, user
  <1>16. ASSUME NEW w \in Workers, ParseMore(w, Turn(w)) \/ ParseOpen(w, Turn(w))
         PROVE  HttpOK(http') /\ RestOK'
    BY <1>0, <1>16, ParsedFacts DEF RestOK, ParseMore, ParseOpen, modfd, socket
  <1>17. ASSUME NEW w \in Workers, AnswerError(w, Turn(w)) \/ AnswerFile(w, Turn(w))
         PROVE  HttpOK(http') /\ RestOK'
    BY <1>0, <1>17, ParsedFacts DEF RestOK, AnswerError, AnswerFile, Respond, modfd
  <1>18. ASSUME NEW w \in Workers, AnswerEmpty(w, Turn(w)) PROVE HttpOK(http') /\ RestOK'
    BY <1>0, <1>18, ParsedFacts DEF RestOK, AnswerEmpty, socket
  <1> QED
    BY <1>1, <1>2, <1>4, <1>5, <1>6, <1>7, <1>9, <1>10, <1>11, <1>12, <1>13, <1>14,
       <1>15, <1>16, <1>17, <1>18, <1>3, <1>8, Steps
-----------------------------------------------------------------------------
(* Who holds the connection.                                               *)

Busy == {w \in Workers : pc[w] \in {"parse", "close"}}

\* Whether the epoll set and the main thread hold it, how often it is queued, the
\* workers that hold it, and whether it was refused.
Hands(inset, inmain, queued, B, dropped) ==
    /\ (armed # "none") <=> inset
    /\ (main # "idle") <=> inmain
    /\ pool = queued /\ Busy = B
    /\ refused <=> dropped

Nobody  == Hands(FALSE, FALSE, 0, {}, FALSE)
InSet   == Hands(TRUE, FALSE, 0, {}, FALSE)
InMain  == Hands(FALSE, TRUE, 0, {}, FALSE)
InQueue == Hands(FALSE, FALSE, 1, {}, FALSE)
With(w) == Hands(FALSE, FALSE, 0, {w}, FALSE)
Dropped == Hands(FALSE, FALSE, 0, {}, TRUE)

\* An open connection is in one hand and users[fd] belongs to it; nobody holds
\* anything of a closed one, though a worker may still be on its way out.
Held ==
    ~late => /\ open => valid
             /\ IF open
                THEN InSet \/ InMain \/ InQueue \/ Dropped \/ \E w \in Workers : With(w)
                ELSE Nobody

\* Where the connection is held it is open, and there only.
LEMMA HeldFacts ==
    ASSUME TypeOK, Held, ~late
    PROVE  /\ armed # "none" => open /\ valid /\ InSet
           /\ main # "idle" => open /\ valid /\ InMain
           /\ pool > 0 => open /\ valid /\ InQueue
           /\ \A w \in Workers : pc[w] \in {"parse", "close"} => open /\ valid /\ With(w)
  BY DEF Held, Nobody, InSet, InMain, InQueue, With, Dropped, Hands, Busy

\* The invariant is stronger than the property.
LEMMA HeldIsOneHolder == TypeOK /\ Held => OneHolder
  <1> SUFFICES ASSUME TypeOK, Held, ~late, open PROVE Holders = 1
    BY DEF OneHolder
  <1>1. Holders = (IF armed # "none" THEN 1 ELSE 0) + (IF main # "idle" THEN 1 ELSE 0)
                  + pool + Cardinality(Busy) + (IF refused THEN 1 ELSE 0)
    BY DEF Holders, Busy
  <1>2. Cardinality({}) = 0 /\ \A w \in Workers : Cardinality({w}) = 1
    BY FS_EmptySet, FS_Singleton
  <1>3. CASE InSet \/ InMain \/ InQueue \/ Dropped
    BY <1>1, <1>2, <1>3 DEF InSet, InMain, InQueue, Dropped, Hands
  <1>4. CASE \E w \in Workers : With(w)
    BY <1>1, <1>2, <1>4 DEF With, Hands
  <1> QED BY <1>3, <1>4 DEF Held

\* What a worker's step does to the workers that hold the connection.
LEMMA BusyFacts ==
    ASSUME TypeOK, NEW w \in Workers, NEW s, pc' = [pc EXCEPT ![w] = s]
    PROVE  /\ s \in {"parse", "close"} => Busy' = Busy \cup {w}
           /\ s \in {"wait", "forget", "modfd"} => Busy' = Busy \ {w}
  BY DEF Busy, TypeOK

\* Every step hands the connection from one holder to the next.
LEMMA HeldStep ==
    ASSUME TypeOK, Held, [Next]_vars
    PROVE  Held'
  <1> SUFFICES ASSUME ~late'
               PROVE  /\ open' => valid'
                      /\ IF open'
                         THEN \/ InSet' \/ InMain' \/ InQueue' \/ Dropped'
                              \/ \E w \in Workers : With(w)'
                         ELSE Nobody'
    BY DEF Held
  <1> DEFINE Goal == /\ open' => valid'
                     /\ IF open'
                        THEN \/ InSet' \/ InMain' \/ InQueue' \/ Dropped'
                             \/ \E w \in Workers : With(w)'
                        ELSE Nobody'
  <1> SUFFICES Goal
    OBVIOUS
  <1>a. /\ ~late => Held
        /\ UNCHANGED pc => Busy' = Busy
    BY DEF Busy
  \* Nothing that matters changes.
  <1>1. ASSUME ~late, UNCHANGED <<open, valid, armed, main, pool, refused>>, Busy' = Busy
        PROVE  Goal
    BY <1>1 DEF Held, Nobody, InSet, InMain, InQueue, With, Dropped, Hands
  \* The connection is closed by the one who holds it.
  <1>2. ASSUME ~late, ~open', armed' = "none", main' = "idle", pool' = 0, Busy' = {}, ~refused'
        PROVE  Goal
    BY <1>2 DEF Nobody, Hands
  <1>3. CASE UNCHANGED vars
    BY <1>a, <1>1, <1>3 DEF vars, socket, user, threads, history
  <1>4. CASE ClientSends \/ ClientReads \/ ClientLeaves
    BY <1>a, <1>1, <1>4 DEF ClientSends, ClientReads, ClientLeaves, user, threads, history
  <1>5. CASE Accept
    BY <1>a, <1>5 DEF Accept, threads, Held, Nobody, InSet, Hands
  <1>6. CASE EpollWait
    <2>1. ~late /\ open /\ valid /\ InSet
      BY <1>6, HeldFacts DEF EpollWait, history
    <2> QED BY <1>a, <1>6, <2>1 DEF EpollWait, user, history, InSet, InMain, Hands
  <1>7. CASE Hangup \/ ReadFails \/ WritevFails
    <2>1. ~late /\ open /\ valid /\ InMain
      BY <1>7, HeldFacts DEF Hangup, ReadFails, WritevFails, history
    <2> QED
      BY <1>a, <1>2, <1>7, <2>1
         DEF Hangup, ReadFails, WritevFails, close_conn, removefd, history, InMain, Hands
  <1>8. CASE ReadAppend
    <2>1. ~late /\ open /\ valid /\ InMain
      BY <1>8, HeldFacts DEF ReadAppend
    <2> QED BY <1>a, <1>8, <2>1 DEF ReadAppend, InMain, InQueue, Dropped, Hands
  <1>9. CASE Write \/ WritevAgain
    <2>1. ~late /\ open /\ valid /\ InMain
      BY <1>9, HeldFacts DEF Write, WritevAgain, history
    <2>2. /\ UNCHANGED <<open, valid, pool, pc, refused>>
          /\ \/ main' = "idle" /\ armed' \in {"IN", "OUT"}
             \/ main' = "write" /\ armed' = armed
      BY <1>9, <2>1 DEF Write, WritevAgain, modfd, user, history
    <2>3. CASE main' = "idle" /\ armed' \in {"IN", "OUT"}
      <3>1. InSet'
        BY <1>a, <2>1, <2>2, <2>3 DEF InMain, InSet, Hands
      <3> QED BY <2>1, <2>2, <3>1
    <2>4. CASE main' = "write" /\ armed' = armed
      <3>1. InMain'
        BY <1>a, <2>1, <2>2, <2>4 DEF InMain, Hands
      <3> QED BY <2>1, <2>2, <3>1
    <2> QED BY <2>2, <2>3, <2>4
  <1>10. ASSUME NEW k \in 1..ResponseLen, Writev(k) PROVE Goal
    <2>1. ~late /\ open /\ valid /\ InMain
      BY <1>10, HeldFacts DEF Writev
    <2> QED
      BY <1>a, <1>10, <2>1
         DEF Writev, modfd, close_conn, removefd, InMain, InSet, Nobody, Hands
  <1>11. ASSUME NEW w \in Workers, Take(w) PROVE Goal
    <2>1. ~late /\ open /\ valid /\ InQueue
      BY <1>11, HeldFacts DEF Take, history
    <2>2. Busy' = Busy \cup {w}
      BY <1>11, BusyFacts DEF Take
    <2>3. With(w)'
      BY <1>11, <2>1, <2>2 DEF Take, socket, user, history, InQueue, With, Hands
    <2> QED BY <1>11, <2>1, <2>3 DEF Take, socket, user
  <1>12. ASSUME NEW w \in Workers, pc[w] = "parse", ParseMore(w, Turn(w)) PROVE Goal
    BY <1>a, <1>1, <1>12 DEF ParseMore, socket, history
  <1>13. ASSUME NEW w \in Workers, pc[w] = "parse",
                \/ ParseOpen(w, Turn(w)) \/ AnswerError(w, Turn(w))
                \/ AnswerFile(w, Turn(w))
         PROVE  Goal
    <2>1. ~late /\ open /\ valid /\ With(w)
      BY <1>13, HeldFacts DEF ParseOpen, AnswerError, AnswerFile, history
    <2>2. pc' = [pc EXCEPT ![w] = "wait"] /\ armed' \in {"IN", "OUT"}
          /\ UNCHANGED <<open, valid, main, pool, refused>>
      BY <1>13, <2>1 DEF ParseOpen, AnswerError, AnswerFile, Respond, modfd, history
    <2>3. Busy' = Busy \ {w}
      BY <2>2, BusyFacts
    <2>4. InSet'
      BY <2>1, <2>2, <2>3 DEF With, InSet, Hands
    <2> QED BY <2>1, <2>2, <2>4
  <1>14. ASSUME NEW w \in Workers, pc[w] = "parse", AnswerEmpty(w, Turn(w)) PROVE Goal
    <2>1. Busy' = Busy
      BY <1>14, BusyFacts DEF AnswerEmpty, Busy
    <2> QED BY <1>1, <1>14, <2>1 DEF AnswerEmpty, socket, history
  <1>15. ASSUME NEW w \in Workers, CloseFd(w) PROVE Goal
    <2>1. ~late /\ open /\ valid /\ With(w)
      BY <1>15, HeldFacts DEF CloseFd, history
    <2>2. Busy' = Busy \ {w}
      BY <1>15, <2>1, BusyFacts DEF CloseFd
    <2> QED BY <1>2, <1>15, <2>1, <2>2 DEF CloseFd, removefd, history, With, Hands
  <1>16. ASSUME NEW w \in Workers, Forget(w) PROVE Goal
    <2>1. w \notin Busy /\ Busy' = Busy \ {w}
      BY <1>16, BusyFacts DEF Forget, Busy
    <2>2. ~late /\ ~open /\ ~open' /\ UNCHANGED <<armed, main, pool, refused>>
      BY <1>16 DEF Forget, socket
    <2>3. Nobody
      BY <2>2 DEF Held
    <2> QED BY <1>2, <2>1, <2>2, <2>3 DEF Nobody, Hands, TypeOK
  <1>17. ASSUME NEW w \in Workers, ModfdClosed(w) PROVE Goal
    <2>1. w \notin Busy /\ Busy' = Busy \ {w}
      BY <1>17, BusyFacts DEF ModfdClosed, Busy
    <2>2. ~late /\ UNCHANGED <<open, valid, armed, main, pool, refused>>
      BY <1>17 DEF ModfdClosed, modfd, user
    <2> QED BY <1>1, <2>1, <2>2
  <1> QED
    BY <1>3, <1>4, <1>5, <1>6, <1>7, <1>8, <1>9, <1>10, <1>11, <1>12, <1>13, <1>14,
       <1>15, <1>16, <1>17, Steps
-----------------------------------------------------------------------------
(* What the holder may rely on.                                            *)

\* What FileMappedWhileSent says of the file of a response under way.
Mapped == mapped = "file" \/ (mapped = "failed" /\ ~answered)

\* Every step keeps the file mapped that is being sent.
LEMMA FileStep ==
    ASSUME TypeOK, Held, FileMappedWhileSent, [Next]_vars
    PROVE  FileMappedWhileSent'
  <1> SUFFICES ASSUME ~late', open', m_write_idx' > 0, m_iv_count' = 2,
                      armed' = "OUT" \/ main' \in {"OUT", "write"}
               PROVE  Mapped'
    BY DEF Mapped, FileMappedWhileSent
  <1>1. ASSUME ~late, open, m_write_idx > 0, m_iv_count = 2, UNCHANGED <<mapped, answered>>,
               armed = "OUT" \/ main \in {"OUT", "write"}
        PROVE  Mapped'
    BY <1>1 DEF Mapped, FileMappedWhileSent
  <1>2. CASE UNCHANGED vars
    BY <1>1, <1>2 DEF vars, socket, user, threads, history
  <1>3. CASE ClientSends \/ ClientReads \/ ClientLeaves
    BY <1>1, <1>3 DEF ClientSends, ClientReads, ClientLeaves, user, threads, history
  <1>4. CASE Accept
    BY <1>4, HeldFacts DEF Accept, threads
  <1>5. CASE EpollWait
    BY <1>1, <1>5 DEF EpollWait, user, history
  <1>6. CASE Hangup \/ ReadFails \/ WritevFails
    <2>1. ~late /\ open /\ valid /\ InMain
      BY <1>6, HeldFacts DEF Hangup, ReadFails, WritevFails, history
    <2> QED BY <1>6, <2>1 DEF Hangup, ReadFails, WritevFails, close_conn, removefd
  <1>7. CASE ReadAppend
    BY <1>1, <1>7 DEF ReadAppend
  <1>8. CASE Write \/ WritevAgain
    BY <1>1, <1>8 DEF Write, WritevAgain, modfd, user, history
  <1>9. ASSUME NEW k \in 1..ResponseLen, Writev(k) PROVE Mapped'
    <2>1. ~late /\ open /\ valid
      BY <1>9, HeldFacts DEF Writev
    <2>2. CASE main' = main
      <3>1. main = "write" /\ m_iv_count = 2 /\ m_write_idx > 0 /\ UNCHANGED mapped
        BY <1>9, <2>2 DEF Writev
      <3>2. mapped = "file"
        BY <1>9, <2>1, <3>1 DEF Writev, BadAddress, FileMappedWhileSent
      <3> QED BY <3>1, <3>2 DEF Mapped
    <2>3. CASE main' # main
      <3>1. CASE http.m_linger
        <4>1. m_write_idx' = 0
          BY <1>9, <2>3, <3>1 DEF Writev
        <4> QED BY <4>1
      <3>2. CASE ~http.m_linger
        <4>1. close_conn
          BY <1>9, <2>3, <3>2 DEF Writev
        <4> QED BY <2>1, <4>1 DEF close_conn, removefd
      <3> QED BY <3>1, <3>2
    <2> QED BY <2>2, <2>3
  <1>10. ASSUME NEW w \in Workers, Take(w) PROVE Mapped'
    BY <1>1, <1>10 DEF Take, socket, user, history
  <1>11. ASSUME NEW w \in Workers, pc[w] = "parse", ParseMore(w, Turn(w)) PROVE Mapped'
    BY <1>1, <1>11 DEF ParseMore, socket, history
  <1>12. ASSUME NEW w \in Workers, pc[w] = "parse", ParseOpen(w, Turn(w)) PROVE Mapped'
    BY <1>1, <1>12 DEF ParseOpen, modfd, history
  <1>13. ASSUME NEW w \in Workers, pc[w] = "parse",
                \/ AnswerError(w, Turn(w)) \/ AnswerFile(w, Turn(w))
                \/ AnswerEmpty(w, Turn(w))
         PROVE  Mapped'
    <2>1. CASE AnswerError(w, Turn(w))
      BY <2>1 DEF AnswerError, Respond
    <2>2. CASE AnswerFile(w, Turn(w))
      BY <2>2 DEF AnswerFile, Respond, Mapped
    <2>3. CASE AnswerEmpty(w, Turn(w))
      <3>1. With(w)
        BY <1>13, <2>3, HeldFacts DEF AnswerEmpty, socket, history
      <3> QED BY <2>3, <3>1 DEF AnswerEmpty, socket, With, Hands
    <2> QED BY <1>13, <2>1, <2>2, <2>3
  <1>14. ASSUME NEW w \in Workers, CloseFd(w) PROVE Mapped'
    BY <1>1, <1>14 DEF CloseFd, removefd, user, history
  <1>15. ASSUME NEW w \in Workers, Forget(w) \/ ModfdClosed(w) PROVE Mapped'
    BY <1>1, <1>15 DEF Forget, ModfdClosed, modfd, socket, user
  <1> QED
    BY <1>2, <1>3, <1>4, <1>5, <1>6, <1>7, <1>8, <1>9, <1>10, <1>11, <1>12, <1>13,
       <1>14, <1>15, Steps
-----------------------------------------------------------------------------
IInv == TypeOK /\ Held /\ FileMappedWhileSent

\* The inductive invariant holds: the parser's record, the one holder of the
\* connection, and what the holder relies on.
THEOREM Inductive == Spec => []IInv
  <1>1. Init => IInv
    <2> SUFFICES ASSUME Init PROVE IInv
      OBVIOUS
    <2>1. HttpOK(http) /\ RestOK
      <3>1. unsent \in Seq(Pieces) /\ data \in Seq(Pieces)
        BY DEF Init
      <3>2. pc \in [Workers -> {"wait", "parse", "close", "forget", "modfd"}]
        BY DEF Init
      <3>3. http = init
        BY DEF Init
      <3>4. open \in BOOLEAN /\ armed \in {"none", "IN", "OUT"} /\ valid \in BOOLEAN
        BY DEF Init
      <3>5. /\ m_write_idx \in Nat /\ m_iv_count \in 0..2 /\ pool \in Nat
            /\ mapped \in {"null", "file", "failed"}
        BY DEF Init
      <3>6. main \in {"idle", "IN", "OUT", "HUP", "write"}
        BY DEF Init
      <3> QED BY <3>1, <3>2, <3>3, <3>4, <3>5, <3>6, InitFacts DEF RestOK
    <2>2. Busy = {}
      BY DEF Init, Busy
    <2>3. Held
      BY <2>2 DEF Init, Held, Nobody, Hands
    <2> QED BY <2>1, <2>3, TypeParts DEF Init, IInv, FileMappedWhileSent
  <1>2. IInv /\ [Next]_vars => IInv'
    BY TypeStep, HeldStep, FileStep DEF IInv
  <1> QED BY <1>1, <1>2, PTL DEF Spec

\* Type correctness, with the order of the buffer's positions: m_start_line,
\* m_checked_idx and m_read_idx never pass each other or the end of the buffer,
\* whatever a client sends and however many threads are late.
THEOREM TypeCorrect == Spec => []TypeOK
  BY Inductive, PTL DEF IInv

\* EPOLLONESHOT, the queue and close_conn() hand the connection from one to the
\* next: no two threads work on it and it is never forgotten.
THEOREM ConnectionHasOneHolder == Spec => []OneHolder
  <1>1. IInv => OneHolder
    BY HeldIsOneHolder DEF IInv
  <1> QED BY <1>1, Inductive, PTL

\* writev() never sends from a file that was unmapped, nor anything of a response
\* whose file could not be mapped.
THEOREM FileStaysMapped == Spec => []FileMappedWhileSent
  BY Inductive, PTL DEF IInv
=============================================================================
