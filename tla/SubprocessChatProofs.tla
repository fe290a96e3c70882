------------------------ MODULE SubprocessChatProofs ------------------------
(***************************************************************************)
(* Proofs about SubprocessChat, for any USER_LIMIT and any number of       *)
(* inputs.                                                                 *)
(***************************************************************************)
EXTENDS SubprocessChat, TLAPS

\* What TypeOK takes for granted: texts not read yet and indices not sent on are
\* never more than what came from outside, for a recv() takes at least one text.
Flow ==
    /\ inbox \in [Users -> Nat] /\ inputs \in 0..MaxInputs
    /\ \A k \in Users : c2m[k] + inbox[k] <= inputs

\* The users main has counted are those that ever had a handler, and only these
\* have sent main an index.
Counted ==
    /\ \A k \in Users : hstage[k] # "none" <=> k < user_count
    /\ \A k \in Users : c2m[k] > 0 => k < user_count

Others == \A k \in Users : ToSet(m2c[k]) \subseteq (0..(user_count - 1)) \ {k}

IInv == TypeOK /\ Flow /\ Counted /\ Others /\ AnnouncedTextThere

\* The elements of a pipe after a write.
LEMMA AppendRange ==
    ASSUME NEW S, NEW s \in Seq(S), NEW x \in S
    PROVE  Append(s, x) \in Seq(S) /\ ToSet(Append(s, x)) = ToSet(s) \cup {x}
  <1>1. /\ Append(s, x) \in Seq(S) /\ Len(s) \in Nat
        /\ DOMAIN Append(s, x) = 1..(Len(s) + 1) /\ DOMAIN s = 1..Len(s)
    OBVIOUS
  <1>2. \A i \in 1..Len(s) : Append(s, x)[i] = s[i]
    OBVIOUS
  <1>3. Append(s, x)[Len(s) + 1] = x
    OBVIOUS
  <1>4. 1..(Len(s) + 1) = (1..Len(s)) \cup {Len(s) + 1}
    BY <1>1
  <1> QED BY <1>1, <1>2, <1>3, <1>4 DEF ToSet

\* The elements of a pipe after a read.
LEMMA TailRange ==
    ASSUME NEW S, NEW s \in Seq(S), s # <<>>
    PROVE  Tail(s) \in Seq(S) /\ ToSet(Tail(s)) \subseteq ToSet(s)
  BY DEF ToSet

\* Nobody is in the room in the beginning.
LEMMA InitInv == Init => IInv
  <1> SUFFICES ASSUME Init PROVE IInv
    OBVIOUS
  <1> USE SubprocessAssumption DEF Init, Users
  <1>1. TypeOK
    BY DEF TypeOK
  <1>2. Flow /\ Counted
    BY DEF Flow, Counted
  <1>3. Others
    BY DEF Others, ToSet
  <1>4. AnnouncedTextThere
    BY DEF AnnouncedTextThere, ToSet
  <1> QED BY <1>1, <1>2, <1>3, <1>4 DEF IInv
-----------------------------------------------------------------------------
Stages == {"none", "start", "tested", "wait", "handle", "recv", "stop", "exited"}

\* A step of the specification is a step of one of its actions.
LEMMA Steps ==
    ASSUME [Next]_vars
    PROVE  \/ UNCHANGED vars
           \/ EpollWait \/ Accept \/ Refuse \/ StopEmpty \/ KillAll \/ Stop
           \/ \E k \in Users : \/ Forward(k) \/ PipeEnded(k) \/ Start(k) \/ EnterWait(k)
                               \/ Wake(k) \/ Clear(k) \/ RecvText(k) \/ RecvEnd(k)
                               \/ Deliver(k) \/ PipeClosed(k) \/ Exit(k)
           \/ Connect \/ MainDies \/ TermMain
           \/ \E k \in Users : ClientSends(k) \/ ClientLeaves(k) \/ TermHandler(k)
                                 \/ WaitFails(k)
  BY DEF Next, MainStep, HandlerStep, WorldStep

\* Interrupting a handler leaves it among the stages of a running one.
LEMMA InterruptedStage ==
    ASSUME NEW k, NEW h, NEW stop
    PROVE  /\ h[k] \in Stages => Interrupted(k, h, stop) \in Stages
           /\ Interrupted(k, h, stop) = "none" <=> h[k] = "none"
           /\ Interrupted(k, h, stop) = "recv" <=> h[k] = "recv"
           /\ Interrupted(k, h, stop) = "exited" <=> h[k] = "exited"
  BY DEF Interrupted, Looped, Stages

\* After a batch a handler stops or goes on to epoll_wait().
LEMMA LoopedStage ==
    ASSUME NEW k, NEW stop
    PROVE  Looped(k, stop) \in {"stop", "tested"}
  BY DEF Looped
-----------------------------------------------------------------------------
\* The state keeps its type, and nothing is announced that did not come in.
LEMMA TypeStep == TypeOK /\ Flow /\ [Next]_vars => TypeOK' /\ Flow'
  <1> SUFFICES ASSUME TypeOK, Flow, [Next]_vars PROVE TypeOK' /\ Flow'
    OBVIOUS
  <1> USE SubprocessAssumption
  <1>1. CASE UNCHANGED vars
    BY <1>1 DEF TypeOK, Flow, vars, main, handlers, clients
  <1>2. CASE EpollWait
    BY <1>2 DEF EpollWait, TypeOK, Flow, handlers, clients
  <1>3. CASE Accept
    <2>1. user_count \in Users /\ user_count + 1 \in 0..USER_LIMIT
      BY <1>3 DEF Accept, Full, TypeOK, Users
    <2>2. TypeOK'
      BY <1>3, <2>1 DEF Accept, Take, TypeOK
    <2>3. Flow'
      BY <1>3 DEF Accept, Flow
    <2> QED BY <2>2, <2>3
  <1>4. CASE Refuse
    BY <1>4 DEF Refuse, Take, TypeOK, Flow, handlers
  <1>5. CASE StopEmpty
    BY <1>5 DEF StopEmpty, Take, TypeOK, Flow, handlers, clients
  <1>6. CASE KillAll
    BY <1>6 DEF KillAll, Take, sig_handler, Terminated, Interrupted, Looped, TypeOK,
                Flow, clients
  <1>7. CASE Stop \/ MainDies
    <2>1. MainEnds /\ inputs' \in 0..MaxInputs /\ inputs <= inputs'
      BY <1>7 DEF Stop, MainDies, Flow
    <2>2. hstage' \in [Users -> Stages]
      BY <2>1, InterruptedStage DEF MainEnds, TypeOK, Stages
    <2>3. hready' \in [Users -> SUBSET {"conn", "pipe"}]
      BY <2>1 DEF MainEnds, HangUp, Edge, TypeOK
    <2>4. UNCHANGED <<user_count, stop_child, m2c, inbox>> /\ mstage' = "ended"
          /\ mbatch' = {} /\ mready' = {} /\ c2m' = [k \in Users |-> 0]
      BY <2>1 DEF MainEnds
    <2>5. TypeOK'
      BY <2>2, <2>3, <2>4 DEF TypeOK, Stages
    <2>6. Flow'
      BY <2>1, <2>4 DEF Flow, TypeOK
    <2> QED BY <2>5, <2>6
  <1>8. ASSUME NEW k \in Users, Forward(k) PROVE TypeOK' /\ Flow'
    <2> DEFINE to == {j \in Targets(k) : Alive(j)}
    <2>1. /\ c2m[k] > 0 /\ c2m' = [c2m EXCEPT ![k] = @ - 1]
          /\ m2c' = [j \in Users |-> IF j \in to THEN Append(m2c[j], k) ELSE m2c[j]]
          /\ hready' = Edge(to, "pipe") /\ mbatch' = mbatch \ {k}
          /\ UNCHANGED <<mstage, mready, user_count, hstage, stop_child, inbox, inputs>>
      BY <1>8 DEF Forward, Take, clients
    <2>2. \A j \in Users : m2c'[j] \in Seq(Users)
      BY <2>1 DEF TypeOK
    <2>3. hready' \in [Users -> SUBSET {"conn", "pipe"}]
      BY <2>1 DEF Edge, TypeOK
    <2>4. TypeOK'
      BY <2>1, <2>2, <2>3 DEF TypeOK
    <2>5. Flow'
      BY <2>1 DEF Flow, TypeOK
    <2> QED BY <2>4, <2>5
  <1>9. ASSUME NEW k \in Users, PipeEnded(k) PROVE TypeOK' /\ Flow'
    BY <1>9 DEF PipeEnded, Take, TypeOK, Flow, handlers, clients
  <1>10. ASSUME NEW k \in Users, Start(k) PROVE TypeOK' /\ Flow'
    BY <1>10 DEF Start, At, Goto, TypeOK, Flow, main, clients
  <1>11. ASSUME NEW k \in Users, EnterWait(k) PROVE TypeOK' /\ Flow'
    BY <1>11 DEF EnterWait, At, Goto, TypeOK, Flow, main, clients
  <1>12. ASSUME NEW k \in Users, Wake(k) PROVE TypeOK' /\ Flow'
    BY <1>12 DEF Wake, At, Goto, TypeOK, Flow, main, clients
  <1>13. ASSUME NEW k \in Users, Clear(k) PROVE TypeOK' /\ Flow'
    BY <1>13 DEF Clear, At, Goto, TypeOK, Flow, main, clients
  <1>14. ASSUME NEW k \in Users, RecvText(k) PROVE TypeOK' /\ Flow'
    <2>1. PICK n \in 1..inbox[k] : inbox' = [inbox EXCEPT ![k] = @ - n]
      BY <1>14 DEF RecvText
    <2>2. /\ Handled(k, "conn", stop_child) /\ mready' \in {mready, mready \cup {k}}
          /\ c2m' \in {c2m, [c2m EXCEPT ![k] = @ + 1]}
          /\ UNCHANGED <<mstage, mbatch, user_count, hready, m2c, inputs>>
      BY <1>14 DEF RecvText
    <2>3. hstage' \in [Users -> Stages] /\ stop_child' = stop_child
      BY <2>2, LoopedStage DEF Handled, Goto, TypeOK, Stages
    <2>4. /\ inbox' \in [Users -> Nat] /\ inbox'[k] <= inbox[k] - 1
          /\ \A j \in Users \ {k} : inbox'[j] = inbox[j]
      BY <2>1 DEF Flow
    <2>5. /\ c2m' \in [Users -> Nat] /\ c2m'[k] <= c2m[k] + 1
          /\ \A j \in Users \ {k} : c2m'[j] = c2m[j]
      BY <2>2 DEF TypeOK
    <2>6. Flow'
      <3>1. c2m \in [Users -> Nat]
        BY DEF TypeOK
      <3>2. ASSUME NEW j \in Users PROVE c2m'[j] + inbox'[j] <= inputs
        BY <2>4, <2>5, <3>1 DEF Flow
      <3> QED BY <2>2, <2>4, <3>2 DEF Flow
    <2>7. c2m' \in [Users -> 0..MaxInputs]
      BY <2>5, <2>6 DEF Flow
    <2>8. TypeOK'
      BY <2>2, <2>3, <2>7 DEF TypeOK, Stages
    <2> QED BY <2>6, <2>8
  <1>15. ASSUME NEW k \in Users, RecvEnd(k) PROVE TypeOK' /\ Flow'
    BY <1>15 DEF RecvEnd, At, Handled, Looped, Goto, TypeOK, Flow, main, clients
  <1>16. ASSUME NEW k \in Users, Deliver(k) PROVE TypeOK' /\ Flow'
    <2>1. TypeOK'
      BY <1>16 DEF Deliver, TypeOK, At, Handled, Looped, Goto, main
    <2>2. Flow'
      BY <1>16 DEF Deliver, TypeOK, Flow, clients
    <2> QED BY <2>1, <2>2
  <1>17. ASSUME NEW k \in Users, PipeClosed(k) PROVE TypeOK' /\ Flow'
    BY <1>17 DEF PipeClosed, At, Handled, Looped, Goto, TypeOK, Flow, main, clients
  <1>18. ASSUME NEW k \in Users, Exit(k) PROVE TypeOK' /\ Flow'
    <2> DEFINE h == [hstage EXCEPT ![k] = "exited"]
    <2>1. /\ hstage' = [j \in Users |-> IF j = k - 1 THEN Interrupted(j, h, stop_child)
                                        ELSE h[j]]
          /\ hready' = [HangUp(mstage = "loop", h) EXCEPT ![k] = {}]
          /\ mready' \in {mready, mready \cup {k}}
          /\ m2c' = [m2c EXCEPT ![k] = <<>>] /\ inbox' = [inbox EXCEPT ![k] = 0]
          /\ stop_child' = stop_child \ {k}
          /\ UNCHANGED <<mstage, mbatch, user_count, c2m, inputs>>
      BY <1>18 DEF Exit
    <2>2. hstage' \in [Users -> Stages]
      BY <2>1, InterruptedStage DEF TypeOK, Stages
    <2>3. hready' \in [Users -> SUBSET {"conn", "pipe"}]
      BY <2>1 DEF HangUp, Edge, TypeOK
    <2>4. /\ m2c' \in [Users -> Seq(Users)] /\ stop_child' \subseteq Users
          /\ mready' \cup mbatch' \subseteq Users \cup {ListenFd, SigFd}
      BY <2>1 DEF TypeOK
    <2>5. TypeOK'
      BY <2>1, <2>2, <2>3, <2>4 DEF TypeOK, Stages
    <2>6. Flow'
      BY <2>1 DEF Flow, TypeOK
    <2> QED BY <2>5, <2>6
  <1>19. CASE Connect
    BY <1>19 DEF Connect, TypeOK, Flow, handlers
  <1>20. CASE TermMain
    <2>1. TypeOK'
      BY <1>20 DEF TermMain, TypeOK, sig_handler, handlers
    <2>2. Flow'
      BY <1>20 DEF TermMain, TypeOK, Flow, handlers, clients
    <2> QED BY <2>1, <2>2
  <1>21. ASSUME NEW k \in Users, ClientSends(k) PROVE TypeOK' /\ Flow'
    <2>1. TypeOK'
      BY <1>21 DEF ClientSends, TypeOK, Edge, main
    <2>2. Flow'
      BY <1>21, SMTT(30) DEF ClientSends, TypeOK, Flow, main
    <2> QED BY <2>1, <2>2
  <1>22. ASSUME NEW k \in Users, ClientLeaves(k) PROVE TypeOK' /\ Flow'
    <2>1. TypeOK'
      BY <1>22 DEF ClientLeaves, TypeOK, Edge, main
    <2>2. Flow'
      <3>1. /\ inbox' \in {inbox, [inbox EXCEPT ![k] = 0]}
            /\ UNCHANGED <<c2m, inputs>>
        BY <1>22 DEF ClientLeaves
      <3>2. inbox' \in [Users -> Nat] /\ \A j \in Users : inbox'[j] <= inbox[j]
        BY <3>1 DEF Flow
      <3> QED BY <3>1, <3>2 DEF Flow, TypeOK
    <2> QED BY <2>1, <2>2
  <1>23. ASSUME NEW k \in Users, TermHandler(k) PROVE TypeOK' /\ Flow'
    <2>1. TypeOK'
      BY <1>23 DEF TermHandler, TypeOK, sig_handler, Terminated, Interrupted, Looped, clients
    <2>2. Flow'
      BY <1>23 DEF TermHandler, TypeOK, Flow, clients
    <2> QED BY <2>1, <2>2
  <1>24. ASSUME NEW k \in Users, WaitFails(k) PROVE TypeOK' /\ Flow'
    <2>1. TypeOK'
      BY <1>24 DEF WaitFails, TypeOK, At, Goto, main
    <2>2. Flow'
      BY <1>24 DEF WaitFails, TypeOK, Flow, clients
    <2> QED BY <2>1, <2>2
  <1> QED
    BY <1>1, <1>2, <1>3, <1>4, <1>5, <1>6, <1>7, <1>8, <1>9, <1>10, <1>11, <1>12,
       <1>13, <1>14, <1>15, <1>16, <1>17, <1>18, <1>19, <1>20, <1>21, <1>22, <1>23,
       <1>24, Steps
-----------------------------------------------------------------------------
\* Main counts a user when, and only when, it gets a handler.
LEMMA CountedStep == TypeOK /\ Counted /\ [Next]_vars => Counted'
  <1> SUFFICES ASSUME TypeOK, Counted, [Next]_vars PROVE Counted'
    OBVIOUS
  <1> DEFINE Same == \A k \in Users : hstage'[k] = "none" <=> hstage[k] = "none"
             Fewer == \A k \in Users : c2m'[k] > 0 => c2m[k] > 0
  <1>0. ASSUME Same, Fewer, user_count' = user_count PROVE Counted'
    BY <1>0 DEF Counted
  <1>1. CASE UNCHANGED <<hstage, c2m, user_count>>
    BY <1>1 DEF Counted
  <1>2. CASE Accept
    <2>1. user_count \in Users
      BY <1>2, SubprocessAssumption DEF Accept, Full, TypeOK, Users
    <2>2. /\ hstage' = [hstage EXCEPT ![user_count] = "start"]
          /\ user_count' = user_count + 1 /\ c2m' = c2m
      BY <1>2 DEF Accept
    <2>3. \A k \in Users : k < user_count + 1 <=> k < user_count \/ k = user_count
      BY SubprocessAssumption DEF TypeOK, Users
    <2>4. \A k \in Users : hstage'[k] # "none" <=> k < user_count'
      BY <2>1, <2>2, <2>3 DEF Counted, TypeOK
    <2>5. \A k \in Users : c2m'[k] > 0 => k < user_count'
      BY <2>2, <2>3 DEF Counted
    <2> QED BY <2>4, <2>5 DEF Counted
  <1>3. CASE KillAll
    <2>1. Same /\ UNCHANGED <<c2m, user_count>>
      BY <1>3, InterruptedStage DEF KillAll, Terminated, TypeOK
    <2> QED BY <1>0, <2>1
  <1>4. CASE Stop \/ MainDies
    <2>1. MainEnds
      BY <1>4 DEF Stop, MainDies
    <2>2. Same /\ Fewer /\ user_count' = user_count
      BY <2>1, InterruptedStage DEF MainEnds, TypeOK
    <2> QED BY <1>0, <2>2
  <1>5. ASSUME NEW k \in Users, Forward(k) PROVE Counted'
    BY <1>5, <1>0 DEF Forward, TypeOK
  <1>6. ASSUME NEW k \in Users,
               Start(k) \/ EnterWait(k) \/ Wake(k) \/ Clear(k) \/ WaitFails(k)
        PROVE  Counted'
    <2>1. /\ hstage[k] # "none" /\ UNCHANGED <<c2m, user_count>>
          /\ \E x \in Stages \ {"none"} : hstage' = [hstage EXCEPT ![k] = x]
      BY <1>6 DEF Start, EnterWait, Wake, Clear, WaitFails, At, Goto, main, Stages
    <2>2. Same
      BY <2>1 DEF TypeOK
    <2> QED BY <1>0, <2>1, <2>2
  <1>7. ASSUME NEW k \in Users, RecvEnd(k) \/ Deliver(k) \/ PipeClosed(k)
        PROVE  Counted'
    <2>1. /\ hstage[k] # "none" /\ UNCHANGED <<c2m, user_count>>
          /\ \E x \in Stages \ {"none"} : hstage' = [hstage EXCEPT ![k] = x]
      BY <1>7, LoopedStage DEF RecvEnd, Deliver, PipeClosed, At, Handled, Goto, main,
                               Stages
    <2>2. Same
      BY <2>1 DEF TypeOK
    <2> QED BY <1>0, <2>1, <2>2
  <1>8. ASSUME NEW k \in Users, RecvText(k) PROVE Counted'
    <2>1. /\ hstage[k] = "recv" /\ user_count' = user_count
          /\ \E x \in Stages \ {"none"} : hstage' = [hstage EXCEPT ![k] = x]
          /\ c2m' \in {c2m, [c2m EXCEPT ![k] = @ + 1]}
      BY <1>8, LoopedStage DEF RecvText, At, Handled, Goto, Stages
    <2>2. Same /\ k < user_count
      BY <2>1 DEF TypeOK, Counted
    <2>3. \A j \in Users \ {k} : c2m'[j] = c2m[j]
      BY <2>1 DEF TypeOK
    <2> QED BY <2>1, <2>2, <2>3 DEF Counted
  <1>9. ASSUME NEW k \in Users, Exit(k) PROVE Counted'
    <2> DEFINE h == [hstage EXCEPT ![k] = "exited"]
    <2>1. Same
      <3>1. hstage' = [j \in Users |-> IF j = k - 1 THEN Interrupted(j, h, stop_child)
                                       ELSE h[j]]
        BY <1>9 DEF Exit
      <3>2. \A j \in Users : hstage'[j] = "none" <=> h[j] = "none"
        BY <3>1, InterruptedStage
      <3>3. \A j \in Users : h[j] = "none" <=> hstage[j] = "none"
        BY <1>9 DEF Exit, At, TypeOK
      <3> QED BY <3>2, <3>3
    <2>2. UNCHANGED <<c2m, user_count>>
      BY <1>9 DEF Exit
    <2> QED BY <1>0, <2>1, <2>2
  <1>10. ASSUME NEW k \in Users, TermHandler(k) PROVE Counted'
    <2>1. Same /\ UNCHANGED <<c2m, user_count>>
      BY <1>10, InterruptedStage DEF TermHandler, Terminated, TypeOK
    <2> QED BY <1>0, <2>1
  <1>11. ASSUME \/ UNCHANGED vars \/ EpollWait \/ Refuse \/ StopEmpty \/ Connect
                \/ TermMain
                \/ \E k \in Users : PipeEnded(k) \/ ClientSends(k) \/ ClientLeaves(k)
         PROVE  UNCHANGED <<hstage, c2m, user_count>>
    BY <1>11 DEF vars, main, handlers, EpollWait, Refuse, StopEmpty, Connect, TermMain,
                 PipeEnded, ClientSends, ClientLeaves
  <1> QED
    BY <1>1, <1>2, <1>3, <1>4, <1>5, <1>6, <1>7, <1>8, <1>9, <1>10, <1>11, Steps

\* An index goes to all handlers but the one it came from, and only an index that
\* was sent to main goes anywhere.
LEMMA OthersStep == TypeOK /\ Counted /\ Others /\ [Next]_vars => Others'
  <1> SUFFICES ASSUME TypeOK, Counted, Others, [Next]_vars PROVE Others'
    OBVIOUS
  <1>1. CASE UNCHANGED <<m2c, user_count>>
    BY <1>1 DEF Others
  <1>2. CASE Accept
    <2>1. m2c' = m2c /\ user_count' = user_count + 1
      BY <1>2 DEF Accept
    <2>2. 0..(user_count - 1) \subseteq 0..(user_count' - 1)
      BY <2>1, SubprocessAssumption DEF TypeOK
    <2> QED BY <2>1, <2>2 DEF Others
  <1>3. ASSUME NEW k \in Users, Forward(k) PROVE Others'
    <2>1. k \in 0..(user_count - 1)
      BY <1>3, SubprocessAssumption DEF Forward, Counted, TypeOK, Users
    <2> DEFINE to == {j \in Targets(k) : Alive(j)}
    <2>2. /\ m2c' = [j \in Users |-> IF j \in to THEN Append(m2c[j], k) ELSE m2c[j]]
          /\ user_count' = user_count
      BY <1>3 DEF Forward
    <2>3. k \notin to
      BY DEF Targets
    <2>4. ASSUME NEW j \in Users
          PROVE  ToSet(m2c'[j]) \subseteq (0..(user_count - 1)) \ {j}
      <3>1. CASE j \in to
        BY <2>1, <2>2, <2>3, <3>1, AppendRange DEF TypeOK, Others
      <3>2. CASE j \notin to
        BY <2>2, <3>2 DEF Others
      <3> QED BY <3>1, <3>2
    <2> QED BY <2>2, <2>4 DEF Others
  <1>4. ASSUME NEW k \in Users, Deliver(k) PROVE Others'
    <2>1. m2c[k] # <<>> /\ m2c' = [m2c EXCEPT ![k] = Tail(@)] /\ user_count' = user_count
      BY <1>4 DEF Deliver, main
    <2>2. ToSet(m2c'[k]) \subseteq ToSet(m2c[k])
      BY <2>1, TailRange DEF TypeOK
    <2> QED BY <2>1, <2>2 DEF Others, TypeOK
  <1>5. ASSUME NEW k \in Users, Exit(k) PROVE Others'
    <2>1. m2c' = [m2c EXCEPT ![k] = <<>>] /\ user_count' = user_count
      BY <1>5 DEF Exit
    <2>2. ToSet(<<>>) = {}
      BY DEF ToSet
    <2> QED BY <2>1, <2>2 DEF Others, TypeOK
  <1>6. ASSUME \/ UNCHANGED vars \/ EpollWait \/ Refuse \/ StopEmpty \/ KillAll
               \/ Stop \/ Connect \/ MainDies \/ TermMain
               \/ \E k \in Users : \/ PipeEnded(k) \/ Start(k) \/ EnterWait(k) \/ Wake(k)
                                   \/ Clear(k) \/ RecvText(k) \/ RecvEnd(k)
                                   \/ PipeClosed(k) \/ ClientSends(k) \/ ClientLeaves(k)
                                   \/ TermHandler(k) \/ WaitFails(k)
        PROVE  UNCHANGED <<m2c, user_count>>
    BY <1>6 DEF vars, main, handlers, EpollWait, Refuse, StopEmpty, KillAll, Stop,
                Connect, MainDies, MainEnds, TermMain, PipeEnded, Start, EnterWait, Wake,
                Clear, RecvText, RecvEnd, PipeClosed, ClientSends, ClientLeaves,
                TermHandler, WaitFails
  <1> QED
    BY <1>1, <1>2, <1>3, <1>4, <1>5, <1>6, Steps
-----------------------------------------------------------------------------
\* The two halves of AnnouncedTextThere: the index of user k is on its way, and
\* its text is there or the code has its reason to miss it.
Announced(k) == c2m[k] > 0 \/ \E j \in Users : k \in ToSet(m2c[j])
Present(k) ==
    k \in share_mem \/ hstage[k] = "recv" \/ k \in stop_child \/ hstage[k] = "exited"

\* A text is there before its index is sent, and stays until its handler takes the
\* next one.
LEMMA AnnouncedStep ==
    TypeOK /\ Counted /\ AnnouncedTextThere /\ [Next]_vars => AnnouncedTextThere'
  <1> SUFFICES ASSUME TypeOK, Counted, AnnouncedTextThere, [Next]_vars
               PROVE  AnnouncedTextThere'
    OBVIOUS
  <1>0. \A k \in Users : Announced(k) => Present(k)
    BY DEF AnnouncedTextThere, Announced, Present
  <1> DEFINE Fewer == \A k \in Users : Announced(k)' => Announced(k)
             Kept == \A k \in Users : Present(k) => Present(k)'
  <1>a. ASSUME Fewer, Kept PROVE AnnouncedTextThere'
    BY <1>a, <1>0 DEF AnnouncedTextThere, Announced, Present
  <1>b. ASSUME UNCHANGED <<c2m, m2c>> PROVE Fewer
    BY <1>b DEF Announced
  <1>1. CASE UNCHANGED <<c2m, m2c, share_mem, hstage, stop_child>>
    BY <1>1, <1>a DEF Announced, Present
  <1>2. CASE Accept
    <2>1. user_count \in Users
      BY <1>2, SubprocessAssumption DEF Accept, Full, TypeOK, Users
    <2>2. hstage[user_count] = "none"
      BY <2>1 DEF Counted, Users
    <2>3. /\ hstage' = [hstage EXCEPT ![user_count] = "start"]
          /\ UNCHANGED <<c2m, m2c, share_mem, stop_child>>
      BY <1>2 DEF Accept
    <2>4. Kept
      BY <2>1, <2>2, <2>3 DEF Present, TypeOK
    <2> QED BY <1>a, <1>b, <2>3, <2>4
  <1>3. CASE KillAll
    <2>1. UNCHANGED <<c2m, m2c, share_mem>> /\ stop_child \subseteq stop_child'
      BY <1>3 DEF KillAll, Terminated
    <2>2. \A k \in Users : /\ hstage[k] = "recv" => hstage'[k] = "recv"
                           /\ hstage[k] = "exited" => hstage'[k] = "exited"
      BY <1>3, InterruptedStage DEF KillAll, Terminated
    <2>3. Kept
      BY <2>1, <2>2 DEF Present
    <2> QED BY <1>a, <1>b, <2>1, <2>3
  <1>4. ASSUME NEW k \in Users, TermHandler(k) PROVE AnnouncedTextThere'
    <2>1. UNCHANGED <<c2m, m2c, share_mem>> /\ stop_child \subseteq stop_child'
      BY <1>4 DEF TermHandler, Terminated
    <2>2. \A j \in Users : /\ hstage[j] = "recv" => hstage'[j] = "recv"
                           /\ hstage[j] = "exited" => hstage'[j] = "exited"
      BY <1>4, InterruptedStage DEF TermHandler, Terminated
    <2>3. Kept
      BY <2>1, <2>2 DEF Present
    <2> QED BY <1>a, <1>b, <2>1, <2>3
  <1>5. CASE Stop \/ MainDies
    <2>1. MainEnds
      BY <1>5 DEF Stop, MainDies
    <2>2. UNCHANGED <<m2c, share_mem, stop_child>> /\ c2m' = [k \in Users |-> 0]
      BY <2>1 DEF MainEnds
    <2>3. \A k \in Users : /\ hstage[k] = "recv" => hstage'[k] = "recv"
                           /\ hstage[k] = "exited" => hstage'[k] = "exited"
      BY <2>1, InterruptedStage DEF MainEnds
    <2>4. Fewer /\ Kept
      BY <2>2, <2>3 DEF Announced, Present
    <2> QED BY <1>a, <2>4
  <1>6. ASSUME NEW k \in Users, Forward(k) PROVE AnnouncedTextThere'
    <2> DEFINE to == {j \in Targets(k) : Alive(j)}
    <2>1. /\ c2m[k] > 0 /\ c2m' = [c2m EXCEPT ![k] = @ - 1]
          /\ m2c' = [j \in Users |-> IF j \in to THEN Append(m2c[j], k) ELSE m2c[j]]
          /\ UNCHANGED <<hstage, share_mem, stop_child>>
      BY <1>6 DEF Forward
    <2>2. \A j \in Users : ToSet(m2c'[j]) \subseteq ToSet(m2c[j]) \cup {k}
      BY <2>1, AppendRange DEF TypeOK
    <2>3. \A j \in Users : c2m'[j] > 0 => c2m[j] > 0
      BY <2>1 DEF TypeOK
    <2>4. Announced(k)
      BY <2>1 DEF Announced
    <2>5. Fewer
      BY <2>2, <2>3, <2>4 DEF Announced
    <2>6. Kept
      BY <2>1 DEF Present
    <2> QED BY <1>a, <2>5, <2>6
  <1>7. ASSUME NEW k \in Users,
               Start(k) \/ EnterWait(k) \/ Wake(k) \/ WaitFails(k) \/ PipeClosed(k)
        PROVE  AnnouncedTextThere'
    <2>1. /\ hstage[k] \notin {"recv", "exited"}
          /\ \E x \in Stages : hstage' = [hstage EXCEPT ![k] = x]
          /\ UNCHANGED <<c2m, m2c, share_mem>> /\ stop_child \subseteq stop_child'
      BY <1>7, LoopedStage DEF Start, EnterWait, Wake, WaitFails, PipeClosed, Handled,
                               At, Goto, Stages
    <2>2. Kept
      BY <2>1 DEF Present, TypeOK
    <2> QED BY <1>a, <1>b, <2>1, <2>2
  <1>8. ASSUME NEW k \in Users, Clear(k) PROVE AnnouncedTextThere'
    <2>1. /\ hstage' = [hstage EXCEPT ![k] = "recv"] /\ share_mem' = share_mem \ {k}
          /\ UNCHANGED <<c2m, m2c, stop_child>>
      BY <1>8 DEF Clear, Goto
    <2>2. Kept
      BY <2>1 DEF Present, TypeOK
    <2> QED BY <1>a, <1>b, <2>1, <2>2
  <1>9. ASSUME NEW k \in Users, RecvText(k) PROVE AnnouncedTextThere'
    <2>1. /\ share_mem' = share_mem \cup {k} /\ UNCHANGED <<m2c, stop_child>>
          /\ \E x \in Stages : hstage' = [hstage EXCEPT ![k] = x]
          /\ c2m' \in {c2m, [c2m EXCEPT ![k] = @ + 1]}
      BY <1>9, LoopedStage DEF RecvText, Handled, Goto, Stages
    <2>2. Present(k)'
      BY <2>1 DEF Present
    <2>3. \A j \in Users \ {k} : hstage'[j] = hstage[j] /\ c2m'[j] = c2m[j]
      BY <2>1 DEF TypeOK
    <2>4. \A j \in Users \ {k} : Announced(j)' => Present(j)'
      BY <2>1, <2>3, <1>0 DEF Announced, Present
    <2> QED BY <2>2, <2>4 DEF AnnouncedTextThere, Announced, Present
  <1>10. ASSUME NEW k \in Users, RecvEnd(k) PROVE AnnouncedTextThere'
    <2>1. /\ stop_child' = stop_child \cup {k} /\ UNCHANGED <<c2m, m2c, share_mem>>
          /\ \E x \in Stages : hstage' = [hstage EXCEPT ![k] = x]
      BY <1>10, LoopedStage DEF RecvEnd, Handled, Goto, Stages
    <2>2. Kept
      BY <2>1 DEF Present, TypeOK
    <2> QED BY <1>a, <1>b, <2>1, <2>2
  <1>11. ASSUME NEW k \in Users, Deliver(k) PROVE AnnouncedTextThere'
    <2>1. /\ m2c[k] # <<>> /\ m2c' = [m2c EXCEPT ![k] = Tail(@)] /\ hstage[k] = "handle"
          /\ UNCHANGED <<c2m, share_mem, stop_child>>
          /\ \E x \in Stages : hstage' = [hstage EXCEPT ![k] = x]
      BY <1>11, LoopedStage DEF Deliver, At, Handled, Goto, Stages
    <2>2. \A j \in Users : ToSet(m2c'[j]) \subseteq ToSet(m2c[j])
      BY <2>1, TailRange DEF TypeOK
    <2>3. Fewer
      BY <2>1, <2>2 DEF Announced
    <2>4. Kept
      BY <2>1 DEF Present, TypeOK
    <2> QED BY <1>a, <2>3, <2>4
  <1>12. ASSUME NEW k \in Users, Exit(k) PROVE AnnouncedTextThere'
    <2> DEFINE h == [hstage EXCEPT ![k] = "exited"]
    <2>1. /\ hstage' = [j \in Users |-> IF j = k - 1 THEN Interrupted(j, h, stop_child)
                                        ELSE h[j]]
          /\ m2c' = [m2c EXCEPT ![k] = <<>>] /\ stop_child' = stop_child \ {k}
          /\ UNCHANGED <<c2m, share_mem>>
      BY <1>12 DEF Exit
    <2>2. \A j \in Users : /\ h[j] = "recv" => hstage'[j] = "recv"
                           /\ h[j] = "exited" => hstage'[j] = "exited"
      BY <2>1, InterruptedStage
    <2>3. h[k] = "exited" /\ \A j \in Users \ {k} : h[j] = hstage[j]
      BY DEF TypeOK
    <2>4. Kept
      BY <2>1, <2>2, <2>3 DEF Present
    <2>5. ToSet(<<>>) = {}
      BY DEF ToSet
    <2>6. Fewer
      BY <2>1, <2>5 DEF Announced, TypeOK
    <2> QED BY <1>a, <2>4, <2>6
  <1>13. ASSUME \/ UNCHANGED vars \/ EpollWait \/ Refuse \/ StopEmpty \/ Connect
                \/ TermMain
                \/ \E k \in Users : PipeEnded(k) \/ ClientSends(k) \/ ClientLeaves(k)
         PROVE  UNCHANGED <<c2m, m2c, share_mem, hstage, stop_child>>
    BY <1>13 DEF vars, handlers, EpollWait, Refuse, StopEmpty, Connect, TermMain,
                 PipeEnded, ClientSends, ClientLeaves
  <1> QED
    BY <1>1, <1>2, <1>3, <1>4, <1>5, <1>6, <1>7, <1>8, <1>9, <1>10, <1>11, <1>12,
       <1>13, Steps
-----------------------------------------------------------------------------
\* Every step keeps the invariant.
LEMMA InvStep == IInv /\ [Next]_vars => IInv'
  BY TypeStep, CountedStep, OthersStep, AnnouncedStep DEF IInv

\* The invariant holds in every state.
LEMMA Inductive == Spec => []IInv
  BY InitInv, InvStep, PTL DEF Spec

\* For any number of users and inputs: the state keeps its type, and an index is
\* never on its way to the handler it came from, nor is one of a user who never
\* came, whichever process is main by then (subprocess_chat_room.cpp:423-443).
THEOREM OwnTextNeverBack == Spec => []NoOwnText
  <1>1. IInv => NoOwnText
    BY DEF IInv, Others, NoOwnText
  <1> QED BY <1>1, Inductive, PTL

\* For any number of users and inputs: an index on its way stands for a text that
\* is in shared memory, but for the times at which the handler that wrote it clears
\* its segment under its readers (subprocess_chat_room.cpp:138-182).
THEOREM TextThereWhenAnnounced == Spec => []AnnouncedTextThere
  <1>1. IInv => AnnouncedTextThere
    BY DEF IInv
  <1> QED BY <1>1, Inductive, PTL
=============================================================================
