-------------------------- MODULE PollGroupProofs --------------------------
(***************************************************************************)
(* Proofs about PollGroup, for any number of sub polls, with or without a  *)
(* thread that runs the main poll, and for any batch size: the port is     *)
(* closed only when no sub poll is inside run() any more.                  *)
(***************************************************************************)
EXTENDS PollGroup, TLAPS

\* What the server does after the last thread was joined.
AfterJoin == {"flagMain", "postMain", "closePort", "down"}

\* The sub polls whose thread the server has joined.
Joined ==
  IF stage = "join" THEN 1..turn - 1 ELSE IF stage \in AfterJoin THEN Subs ELSE {}

\* A thread that was joined has left run() for good.
JoinInv ==
  /\ \A p \in Joined : pc[p] = "exit"
  /\ stage \in {"flag", "post", "join"} => turn \in Subs
  /\ stage = "up" => turn = 1
  /\ ~open => stage = "down"

\* While a thread is inside poll_() its batch is not full.
BatchInv ==
  \A p \in Polls : pc[p] \in {"wait", "dequeued", "event", "peek"} => processed[p] < MaxBatch

IInv == TypeOK /\ JoinInv /\ BatchInv

-----------------------------------------------------------------------------
\* The invariant holds when the server has started.
LEMMA InitInv == Init => IInv
<1> SUFFICES ASSUME Init PROVE IInv
  OBVIOUS
<1> USE PollGroupAssumption DEF Init, Polls, Subs, Main, Wake
<1>1. TypeOK
  BY DEF TypeOK
<1>2. JoinInv
  BY DEF JoinInv, Joined, AfterJoin
<1>3. BatchInv
  BY DEF BatchInv
<1> QED
  BY <1>1, <1>2, <1>3 DEF IInv

\* A step in which the thread of a poll moves on, unless it has ended, and the server
\* does nothing, keeps the two parts of the invariant that are about threads.
LEMMA PollMove ==
  ASSUME IInv, NEW p \in Polls, NEW to,
         pc[p] # "exit", pc' = [pc EXCEPT ![p] = to],
         to \in {"wait", "dequeued", "event", "peek"} => processed'[p] < MaxBatch,
         \A q \in Polls \ {p} : processed'[q] = processed[q],
         UNCHANGED <<open, stage, turn>>
  PROVE  JoinInv' /\ BatchInv'
<1> USE PollGroupAssumption DEF IInv, TypeOK, Polls, Subs
<1>1. JoinInv'
  <2>1. Joined' = Joined
    BY DEF Joined
  <2>2. Joined \subseteq Polls
    BY DEF Joined, AfterJoin, JoinInv
  <2>3. \A q \in Joined : q # p /\ pc'[q] = pc[q]
    BY <2>2 DEF JoinInv
  <2> QED
    BY <2>1, <2>3 DEF JoinInv
<1>2. BatchInv'
  BY DEF BatchInv
<1> QED
  BY <1>1, <1>2

\* Every step keeps the invariant.
LEMMA StepInv == IInv /\ [Next]_vars => IInv'
<1> SUFFICES ASSUME IInv, [Next]_vars PROVE IInv'
  OBVIOUS
<1> USE PollGroupAssumption
    DEF IInv, TypeOK, Polls, Subs, Main, Wake, portVars, pollVars, serverVars
<1>1. CASE Arrive
  <2>1. TypeOK'
    BY <1>1 DEF Arrive
  <2>2. JoinInv' /\ BatchInv'
    BY <1>1 DEF Arrive, JoinInv, Joined, BatchInv
  <2> QED
    BY <2>1, <2>2
<1>2. ASSUME NEW p \in Polls, Loop(p) PROVE IInv'
  <2>1. TypeOK'
    BY <1>2 DEF Loop, Goto
  <2>2. /\ processed'[p] < MaxBatch
        /\ \A q \in Polls \ {p} : processed'[q] = processed[q]
    BY <1>2 DEF Loop
  <2>3. PICK to : pc[p] = "run" /\ pc' = [pc EXCEPT ![p] = to]
    BY <1>2 DEF Loop, Goto
  <2>4. JoinInv' /\ BatchInv'
    BY <1>2, <2>2, <2>3, PollMove DEF Loop
  <2> QED
    BY <2>1, <2>4
<1>3. ASSUME NEW p \in Polls, Dequeue(p) PROVE IInv'
  <2>1. TypeOK'
    <3>1. Head(queue) \in 0..arrived /\ Tail(queue) \in Seq(0..arrived)
      BY <1>3 DEF Dequeue
    <3> QED
      BY <1>3, <3>1 DEF Dequeue, Goto
  <2>2. JoinInv' /\ BatchInv'
    BY <1>3, PollMove DEF Dequeue, Goto, BatchInv
  <2> QED
    BY <2>1, <2>2
<1>4. ASSUME NEW p \in Polls, Empty(p) \/ Abandoned(p) PROVE IInv'
  <2>1. TypeOK'
    BY <1>4 DEF Empty, Abandoned, Goto
  <2>2. JoinInv' /\ BatchInv'
    BY <1>4, PollMove DEF Empty, Abandoned, Goto
  <2> QED
    BY <2>1, <2>2
<1>5. ASSUME NEW p \in Polls, CheckShut(p) PROVE IInv'
  <2>1. TypeOK'
    BY <1>5 DEF CheckShut, Goto
  <2>2. JoinInv' /\ BatchInv'
    BY <1>5, PollMove DEF CheckShut, Goto, BatchInv
  <2> QED
    BY <2>1, <2>2
<1>6. ASSUME NEW p \in Polls, Event(p) PROVE IInv'
  <2>1. pc[p] = "event" /\ processed[p] < MaxBatch
    BY <1>6 DEF Event, Goto, BatchInv
  <2>2. TypeOK'
    <3>1. pc' \in [Polls -> {"run", "wait", "dequeued", "event", "peek", "exit"}]
      BY <1>6 DEF Event, Goto
    <3>2. processed' \in [Polls -> 0..MaxBatch]
      BY <1>6, <2>1 DEF Event
    <3>3. packet[p] # Wake => packet[p] \in 1..arrived
      OBVIOUS
    <3>4. handled' = handled \union ({packet[p]} \ {Wake})
      BY <1>6 DEF Event
    <3>5. handled' \subseteq 1..arrived
      BY <3>3, <3>4
    <3> QED
      BY <1>6, <3>1, <3>2, <3>5 DEF Event
  <2>3. JoinInv' /\ BatchInv'
    BY <1>6, <2>1, PollMove DEF Event, Goto
  <2> QED
    BY <2>2, <2>3
<1>7. CASE Begin
  <2>1. TypeOK'
    BY <1>7 DEF Begin
  <2>2. JoinInv' /\ BatchInv'
    BY <1>7 DEF Begin, JoinInv, Joined, AfterJoin, BatchInv
  <2> QED
    BY <2>1, <2>2
<1>8. CASE Flag
  <2>1. TypeOK'
    BY <1>8 DEF Flag
  <2>2. JoinInv' /\ BatchInv'
    BY <1>8 DEF Flag, JoinInv, Joined, AfterJoin, BatchInv
  <2> QED
    BY <2>1, <2>2
<1>9. CASE Post
  <2>1. turn \in Subs
    BY <1>9 DEF Post, JoinInv
  <2>2. CASE turn < SubPolls
    <3>1. stage' = "flag" /\ turn' = turn + 1 /\ turn' \in Subs
      BY <1>9, <2>1, <2>2 DEF Post, NextTurn
    <3>2. TypeOK'
      BY <1>9, <3>1 DEF Post
    <3>3. JoinInv' /\ BatchInv'
      BY <1>9, <2>1, <3>1 DEF Post, JoinInv, Joined, AfterJoin, BatchInv
    <3> QED
      BY <3>2, <3>3
  <2>3. CASE ~(turn < SubPolls)
    <3>1. stage' = "join" /\ turn' = 1 /\ turn = SubPolls
      BY <1>9, <2>1, <2>3 DEF Post, NextTurn
    <3>2. TypeOK'
      BY <1>9, <2>1, <3>1 DEF Post
    <3>3. JoinInv' /\ BatchInv'
      BY <1>9, <2>1, <3>1 DEF Post, JoinInv, Joined, AfterJoin, BatchInv
    <3> QED
      BY <3>2, <3>3
  <2> QED
    BY <2>2, <2>3
<1>10. CASE Join
  <2>1. turn \in Subs
    BY <1>10 DEF Join, JoinInv
  <2>2. CASE turn < SubPolls
    <3>1. stage' = "join" /\ turn' = turn + 1 /\ turn' \in Subs
      BY <1>10, <2>1, <2>2 DEF Join, NextTurn
    <3>2. TypeOK'
      BY <1>10, <3>1 DEF Join
    <3>3. Joined' \subseteq Joined \union {turn}
      BY <1>10, <2>1, <3>1 DEF Join, Joined, AfterJoin
    <3>4. \A q \in Joined' : pc'[q] = "exit"
      BY <1>10, <3>3 DEF Join, JoinInv
    <3>5. open' = open /\ open
      BY <1>10 DEF Join, JoinInv
    <3>6. JoinInv'
      BY <3>1, <3>4, <3>5 DEF JoinInv
    <3>7. BatchInv'
      BY <1>10 DEF Join, BatchInv
    <3> QED
      BY <3>2, <3>6, <3>7
  <2>3. CASE ~(turn < SubPolls)
    <3>1. stage' = "flagMain" /\ turn' = 1 /\ turn = SubPolls
      BY <1>10, <2>1, <2>3 DEF Join, NextTurn
    <3>2. TypeOK'
      BY <1>10, <2>1, <3>1 DEF Join
    <3>3. Joined' \subseteq Joined \union {turn}
      BY <1>10, <2>1, <3>1 DEF Join, Joined, AfterJoin
    <3>4. \A q \in Joined' : pc'[q] = "exit"
      BY <1>10, <3>3 DEF Join, JoinInv
    <3>5. open' = open /\ open
      BY <1>10 DEF Join, JoinInv
    <3>6. JoinInv'
      BY <3>1, <3>4, <3>5 DEF JoinInv
    <3>7. BatchInv'
      BY <1>10 DEF Join, BatchInv
    <3> QED
      BY <3>2, <3>6, <3>7
  <2> QED
    BY <2>2, <2>3
<1>11. CASE FlagMain \/ PostMain \/ ClosePort
  <2>1. TypeOK'
    <3>1. CASE FlagMain
      BY <3>1 DEF FlagMain
    <3>2. CASE PostMain
      BY <3>2 DEF PostMain
    <3>3. CASE ClosePort
      BY <3>3 DEF ClosePort
    <3> QED
      BY <1>11, <3>1, <3>2, <3>3
  <2>2. JoinInv' /\ BatchInv'
    BY <1>11 DEF FlagMain, PostMain, ClosePort, JoinInv, Joined, AfterJoin, BatchInv
  <2> QED
    BY <2>1, <2>2
<1>12. CASE UNCHANGED vars
  BY <1>12 DEF vars, JoinInv, Joined, BatchInv
<1> QED
  BY <1>1, <1>2, <1>3, <1>4, <1>5, <1>6, <1>7, <1>8, <1>9, <1>10, <1>11, <1>12
     DEF Next, ServerStep, PollStep

\* The invariant holds in every reachable state.
THEOREM Invariant == Spec => []IInv
<1> QED
  BY InitInv, StepInv, PTL DEF Spec

\* Every variable keeps its type; in particular poll_() processes at most
\* kMaxBatchSize events in one call.
THEOREM TypeCorrect == Spec => []TypeOK
<1>1. IInv => TypeOK
  BY DEF IInv
<1> QED
  BY <1>1, Invariant, PTL

\* shutdown_polls_and_handle_() closes the port only after the thread of every sub
\* poll has left run().
THEOREM PortOutlives == Spec => []PortOutlivesSubPolls
<1>1. IInv => PortOutlivesSubPolls
  BY DEF IInv, JoinInv, Joined, AfterJoin, PortOutlivesSubPolls, Subs
<1> QED
  BY <1>1, Invariant, PTL
=============================================================================
