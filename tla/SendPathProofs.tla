--------------------------- MODULE SendPathProofs ---------------------------
(***************************************************************************)
(* Proofs about SendPath, for any set of threads and any number of         *)
(* messages: no queued message is forgotten, and the send path implements  *)
(* OrderedSender.                                                          *)
(***************************************************************************)
EXTENDS SendPath, SequenceTheorems, TLAPS

\* The queue holds the messages after the last one taken, in order.
QueueInv ==
  /\ Len(sendQueue) <= pushed
  /\ \A i \in 1..Len(sendQueue) : sendQueue[i] = taken + i

\* write_in_progress_ is set exactly while somebody owns the right to write:
\* one thread, or the writes in the hands of the kernel.
FlagInv ==
  /\ writeInProgress =>
       inflight # {} \/ \E t \in Threads : pc[t] \in Holders
  /\ inflight # {} => writeInProgress
  /\ \A t \in Threads : pc[t] \in Holders => writeInProgress /\ inflight = {}
  /\ \A t, u \in Threads : pc[t] \in Holders /\ pc[u] \in Holders => t = u

\* Whatever is being transmitted is the message taken last.
CarrierInv ==
  /\ \A t \in Threads : pc[t] \in Carriers => sendBuf[t] = taken /\ taken > 0
  /\ \A m \in inflight : m = taken

\* If messages wait and no write is in progress, some thread is about to look.
DutyInv ==
  sendQueue # <<>> /\ ~closing
    => \/ writeInProgress
       \/ \E t \in Threads : pc[t] \in {"go_writing", "has_more", "error"}

IInv == TypeOK /\ QueueInv /\ FlagInv /\ CarrierInv /\ DutyInv

-----------------------------------------------------------------------------
\* The invariant holds when nothing has been sent.
LEMMA InitInv == Init => IInv
<1> SUFFICES ASSUME Init PROVE IInv
  OBVIOUS
<1> USE SendPathAssumption DEF Init
<1>1. TypeOK
  <2>1. sendQueue \in Seq(1..pushed)
    BY EmptySeq
  <2>2. connected \in BOOLEAN /\ closing \in BOOLEAN /\ writeInProgress \in BOOLEAN
    BY Zenon
  <2>3. pc \in [Threads -> Labels] /\ sendBuf \in [Threads -> 0..pushed]
    BY DEF Labels
  <2>4. pushed \in 0..MaxSends /\ inflight \subseteq 1..pushed
    OBVIOUS
  <2> QED
    BY <2>1, <2>2, <2>3, <2>4 DEF TypeOK
<1>2. QueueInv
  BY DEF QueueInv, taken
<1>3. FlagInv
  BY DEF FlagInv, Holders
<1>4. CarrierInv
  BY DEF CarrierInv, Carriers, Holders
<1>5. DutyInv
  BY DEF DutyInv
<1> QED
  BY <1>1, <1>2, <1>3, <1>4, <1>5 DEF IInv

\* Every step keeps the types, given the rest of the invariant: WSASend gets a
\* message that really was queued.
LEMMA StepType == IInv /\ [Next]_vars => TypeOK'
<1> SUFFICES ASSUME IInv, [Next]_vars PROVE TypeOK'
  OBVIOUS
<1> USE SendPathAssumption DEF TypeOK, IInv, Labels, Goto
<1>0. 0 \in 0..pushed
  OBVIOUS
<1>1. ASSUME NEW self \in Threads, Send(self) PROVE TypeOK'
  <2>1. pushed' \in 0..MaxSends /\ 1..pushed \subseteq 1..pushed' /\ pushed + 1 \in 1..pushed'
    BY <1>1 DEF Send
  <2>2. sendQueue \in Seq(1..pushed')
    BY <2>1
  <2>3. sendQueue' \in Seq(1..pushed')
    BY <1>1, <2>1, <2>2 DEF Send
  <2>4. sendBuf' \in [Threads -> 0..pushed'] /\ inflight' \subseteq 1..pushed'
    BY <1>1, <2>1 DEF Send
  <2>5. pc' \in [Threads -> Labels]
    BY <1>1 DEF Send
  <2> QED
    BY <1>1, <2>1, <2>3, <2>4, <2>5 DEF Send
<1>2. ASSUME NEW self \in Threads, Claim(self) PROVE TypeOK'
  BY <1>2 DEF Claim
<1>3. ASSUME NEW self \in Threads, PopNothing(self) PROVE TypeOK'
  BY <1>3 DEF PopNothing
<1>4. ASSUME NEW self \in Threads, PopFront(self) PROVE TypeOK'
  BY <1>4 DEF PopFront
<1>5. ASSUME NEW self \in Threads, SendAccepted(self) PROVE TypeOK'
  <2>1. sendBuf[self] \in 1..pushed
    BY <1>5 DEF SendAccepted, CarrierInv, Carriers, Holders
  <2> QED
    BY <1>0, <1>5, <2>1 DEF SendAccepted
<1>6. ASSUME NEW self \in Threads, SendRejected(self) PROVE TypeOK'
  BY <1>6 DEF SendRejected
<1>7. ASSUME NEW self \in Threads, WriteFailed(self) PROVE TypeOK'
  BY <1>0, <1>7 DEF WriteFailed
<1>8. ASSUME NEW self \in Threads, Dispatch(self) PROVE TypeOK'
  BY <1>8 DEF Dispatch
<1>9. ASSUME NEW self \in Threads, OnWrite(self) PROVE TypeOK'
  BY <1>0, <1>9 DEF OnWrite
<1>10. ASSUME NEW self \in Threads, HasMore(self) PROVE TypeOK'
  BY <1>10 DEF HasMore
<1>11. ASSUME NEW self \in Threads, OnWriteError(self) PROVE TypeOK'
  BY <1>0, <1>11 DEF OnWriteError
<1>12. ASSUME NEW self \in Threads, Error(self) PROVE TypeOK'
  BY <1>12 DEF Error
<1>13. CASE Elsewhere
  BY <1>13 DEF Elsewhere
<1>14. CASE UNCHANGED vars
  BY <1>14 DEF vars
<1> QED
  BY <1>1, <1>2, <1>3, <1>4, <1>5, <1>6, <1>7, <1>8, <1>9, <1>10, <1>11, <1>12, <1>13, <1>14 DEF Next, Step

\* Every step keeps the other parts of the invariant.
LEMMA StepInv == IInv /\ TypeOK' /\ [Next]_vars => IInv'
<1> SUFFICES ASSUME IInv, TypeOK', [Next]_vars PROVE IInv'
  OBVIOUS
<1> USE SendPathAssumption DEF TypeOK, IInv, Goto, Holders, Carriers, taken, Labels
<1>1. ASSUME NEW self \in Threads, Send(self) PROVE IInv'
  <2>1. QueueInv'
    <3>1. /\ Len(sendQueue') = Len(sendQueue) + 1
          /\ \A k \in 1..Len(sendQueue) : sendQueue'[k] = sendQueue[k]
          /\ sendQueue'[Len(sendQueue) + 1] = pushed + 1
      BY <1>1, AppendProperties DEF Send
    <3>2. taken' = taken
      BY <1>1, <3>1 DEF Send
    <3> QED
      BY <1>1, <3>1, <3>2 DEF Send, QueueInv
  <2>2. FlagInv'
    BY <1>1 DEF Send, QueueInv, FlagInv, CarrierInv, DutyInv
  <2>3. CarrierInv'
    <3>1. taken' = taken
      BY <1>1 DEF Send
    <3>2. \A t \in Threads : pc'[t] \in Carriers => pc[t] \in Carriers
      BY <1>1 DEF Send
    <3> QED
      BY <1>1, <3>1, <3>2 DEF Send, CarrierInv
  <2>4. DutyInv'
    BY <1>1 DEF Send, QueueInv, FlagInv, CarrierInv, DutyInv
  <2> QED
    BY <2>1, <2>2, <2>3, <2>4
<1>2. ASSUME NEW self \in Threads, Claim(self) PROVE IInv'
  <2>1. QueueInv'
    BY <1>2 DEF Claim, QueueInv, FlagInv, CarrierInv, DutyInv
  <2>2. FlagInv'
    BY <1>2 DEF Claim, QueueInv, FlagInv, CarrierInv, DutyInv
  <2>3. CarrierInv'
    BY <1>2 DEF Claim, QueueInv, FlagInv, CarrierInv, DutyInv
  <2>4. DutyInv'
    BY <1>2 DEF Claim, QueueInv, FlagInv, CarrierInv, DutyInv
  <2> QED
    BY <2>1, <2>2, <2>3, <2>4
<1>3. ASSUME NEW self \in Threads, PopNothing(self) PROVE IInv'
  <2>1. QueueInv'
    BY <1>3 DEF PopNothing, QueueInv, FlagInv, CarrierInv, DutyInv
  <2>2. FlagInv'
    BY <1>3 DEF PopNothing, QueueInv, FlagInv, CarrierInv, DutyInv
  <2>3. CarrierInv'
    BY <1>3 DEF PopNothing, QueueInv, FlagInv, CarrierInv, DutyInv
  <2>4. DutyInv'
    BY <1>3 DEF PopNothing, QueueInv, FlagInv, CarrierInv, DutyInv
  <2> QED
    BY <2>1, <2>2, <2>3, <2>4
<1>4. ASSUME NEW self \in Threads, PopFront(self) PROVE IInv'
  <2>1. QueueInv'
    BY <1>4 DEF PopFront, QueueInv, FlagInv, CarrierInv, DutyInv
  <2>2. FlagInv'
    BY <1>4 DEF PopFront, QueueInv, FlagInv, CarrierInv, DutyInv
  <2>3. CarrierInv'
    BY <1>4 DEF PopFront, QueueInv, FlagInv, CarrierInv, DutyInv
  <2>4. DutyInv'
    BY <1>4 DEF PopFront, QueueInv, FlagInv, CarrierInv, DutyInv
  <2> QED
    BY <2>1, <2>2, <2>3, <2>4
<1>5. ASSUME NEW self \in Threads, SendAccepted(self) PROVE IInv'
  <2>1. QueueInv'
    BY <1>5 DEF SendAccepted, QueueInv, FlagInv, CarrierInv, DutyInv
  <2>2. FlagInv'
    BY <1>5 DEF SendAccepted, QueueInv, FlagInv, CarrierInv, DutyInv
  <2>3. CarrierInv'
    BY <1>5 DEF SendAccepted, QueueInv, FlagInv, CarrierInv, DutyInv
  <2>4. DutyInv'
    BY <1>5 DEF SendAccepted, QueueInv, FlagInv, CarrierInv, DutyInv
  <2> QED
    BY <2>1, <2>2, <2>3, <2>4
<1>6. ASSUME NEW self \in Threads, SendRejected(self) PROVE IInv'
  <2>1. QueueInv'
    BY <1>6 DEF SendRejected, QueueInv, FlagInv, CarrierInv, DutyInv
  <2>2. FlagInv'
    BY <1>6 DEF SendRejected, QueueInv, FlagInv, CarrierInv, DutyInv
  <2>3. CarrierInv'
    BY <1>6 DEF SendRejected, QueueInv, FlagInv, CarrierInv, DutyInv
  <2>4. DutyInv'
    BY <1>6 DEF SendRejected, QueueInv, FlagInv, CarrierInv, DutyInv
  <2> QED
    BY <2>1, <2>2, <2>3, <2>4
<1>7. ASSUME NEW self \in Threads, WriteFailed(self) PROVE IInv'
  <2>1. QueueInv'
    BY <1>7 DEF WriteFailed, QueueInv, FlagInv, CarrierInv, DutyInv
  <2>2. FlagInv'
    BY <1>7 DEF WriteFailed, QueueInv, FlagInv, CarrierInv, DutyInv
  <2>3. CarrierInv'
    BY <1>7 DEF WriteFailed, QueueInv, FlagInv, CarrierInv, DutyInv
  <2>4. DutyInv'
    BY <1>7 DEF WriteFailed, QueueInv, FlagInv, CarrierInv, DutyInv
  <2> QED
    BY <2>1, <2>2, <2>3, <2>4
<1>8. ASSUME NEW self \in Threads, Dispatch(self) PROVE IInv'
  <2>1. QueueInv'
    BY <1>8 DEF Dispatch, QueueInv, FlagInv, CarrierInv, DutyInv
  <2>2. FlagInv'
    BY <1>8 DEF Dispatch, QueueInv, FlagInv, CarrierInv, DutyInv
  <2>3. CarrierInv'
    <3>1. PICK m \in inflight : /\ inflight' = inflight \ {m}
                                /\ sendBuf' = [sendBuf EXCEPT ![self] = m]
      BY <1>8 DEF Dispatch
    <3>2. taken' = taken /\ m = taken /\ taken > 0
      BY <1>8 DEF Dispatch, CarrierInv
    <3>3. \A t \in Threads : pc'[t] \in Carriers => t = self
      BY <1>8, <3>1 DEF Dispatch, FlagInv
    <3> QED
      BY <3>1, <3>2, <3>3 DEF CarrierInv
  <2>4. DutyInv'
    BY <1>8 DEF Dispatch, QueueInv, FlagInv, CarrierInv, DutyInv
  <2> QED
    BY <2>1, <2>2, <2>3, <2>4
<1>9. ASSUME NEW self \in Threads, OnWrite(self) PROVE IInv'
  <2>1. QueueInv'
    BY <1>9 DEF OnWrite, QueueInv, FlagInv, CarrierInv, DutyInv
  <2>2. FlagInv'
    BY <1>9 DEF OnWrite, QueueInv, FlagInv, CarrierInv, DutyInv
  <2>3. CarrierInv'
    BY <1>9 DEF OnWrite, QueueInv, FlagInv, CarrierInv, DutyInv
  <2>4. DutyInv'
    BY <1>9 DEF OnWrite, QueueInv, FlagInv, CarrierInv, DutyInv
  <2> QED
    BY <2>1, <2>2, <2>3, <2>4
<1>10. ASSUME NEW self \in Threads, HasMore(self) PROVE IInv'
  <2>1. QueueInv'
    BY <1>10 DEF HasMore, QueueInv, FlagInv, CarrierInv, DutyInv
  <2>2. FlagInv'
    BY <1>10 DEF HasMore, QueueInv, FlagInv, CarrierInv, DutyInv
  <2>3. CarrierInv'
    BY <1>10 DEF HasMore, QueueInv, FlagInv, CarrierInv, DutyInv
  <2>4. DutyInv'
    BY <1>10 DEF HasMore, QueueInv, FlagInv, CarrierInv, DutyInv
  <2> QED
    BY <2>1, <2>2, <2>3, <2>4
<1>11. ASSUME NEW self \in Threads, OnWriteError(self) PROVE IInv'
  <2>1. QueueInv'
    BY <1>11 DEF OnWriteError, QueueInv, FlagInv, CarrierInv, DutyInv
  <2>2. FlagInv'
    BY <1>11 DEF OnWriteError, QueueInv, FlagInv, CarrierInv, DutyInv
  <2>3. CarrierInv'
    BY <1>11 DEF OnWriteError, QueueInv, FlagInv, CarrierInv, DutyInv
  <2>4. DutyInv'
    BY <1>11 DEF OnWriteError, QueueInv, FlagInv, CarrierInv, DutyInv
  <2> QED
    BY <2>1, <2>2, <2>3, <2>4
<1>12. ASSUME NEW self \in Threads, Error(self) PROVE IInv'
  <2>1. QueueInv'
    BY <1>12 DEF Error, QueueInv, FlagInv, CarrierInv, DutyInv
  <2>2. FlagInv'
    BY <1>12 DEF Error, QueueInv, FlagInv, CarrierInv, DutyInv
  <2>3. CarrierInv'
    BY <1>12 DEF Error, QueueInv, FlagInv, CarrierInv, DutyInv
  <2>4. DutyInv'
    BY <1>12 DEF Error, QueueInv, FlagInv, CarrierInv, DutyInv
  <2> QED
    BY <2>1, <2>2, <2>3, <2>4
<1>13. CASE Elsewhere
  <2> USE <1>13 DEF Elsewhere
  <2>1. QueueInv'
    BY DEF QueueInv
  <2>2. FlagInv'
    BY DEF FlagInv
  <2>3. CarrierInv'
    BY DEF CarrierInv
  <2>4. DutyInv'
    <3>1. closing => closing'
      BY Zenon
    <3> QED
      BY <3>1 DEF DutyInv
  <2> QED
    BY <2>1, <2>2, <2>3, <2>4
<1>14. CASE UNCHANGED vars
  BY <1>14 DEF vars, QueueInv, FlagInv, CarrierInv, DutyInv
<1> QED
  BY <1>1, <1>2, <1>3, <1>4, <1>5, <1>6, <1>7, <1>8, <1>9, <1>10, <1>11, <1>12, <1>13, <1>14 DEF Next, Step

-----------------------------------------------------------------------------
\* The invariant holds in every reachable state.
THEOREM Invariant == Spec => []IInv
<1>1. IInv /\ [Next]_vars => IInv'
  BY StepType, StepInv
<1> QED
  BY InitInv, <1>1, PTL DEF Spec

\* SendPath never leaves its types: in particular no message comes out of the
\* send path of IOCPConn that did not go into it.
THEOREM TypeCorrect == Spec => []TypeOK
<1>1. IInv => TypeOK
  BY DEF IInv
<1> QED
  BY Invariant, <1>1, PTL

\* A message waiting in send_queue_ of a live connection always has somebody who
\* will look at the queue again, however the threads calling send() and the
\* threads handling completions interleave in go_writing_().
THEOREM NothingStranded == Spec => []NoStrandedMessage
<1>1. IInv => NoStrandedMessage
  BY DEF IInv, TypeOK, Labels, FlagInv, DutyInv, NoStrandedMessage, Holders
<1> QED
  BY Invariant, <1>1, PTL

-----------------------------------------------------------------------------
\* The send path starts where OrderedSender starts.
LEMMA InitImplements == Init => Abstract!Init
<1> SUFFICES ASSUME Init PROVE Abstract!Init
  OBVIOUS
<1>1. pushed = 0 /\ taken = 0
  <2>1. pushed = 0 /\ Len(sendQueue) = 0
    BY EmptySeq DEF Init
  <2> QED
    BY <2>1 DEF taken
<1>2. \A t \in Threads : pc[t] \notin Carriers
  BY DEF Init, Carriers, Holders
<1>3. current = {}
  BY <1>2 DEF Init, current
<1> QED
  BY <1>1, <1>3 DEF Abstract!Init

\* Every step of the send path is a step of OrderedSender or changes nothing there:
\* queueing is Accept, popping is Take, and the end of a write is Finish.
LEMMA StepImplements == IInv /\ IInv' /\ [Next]_vars => [Abstract!Next]_(Abstract!vars)
<1> SUFFICES ASSUME IInv, IInv', [Next]_vars PROVE [Abstract!Next]_(Abstract!vars)
  OBVIOUS
<1> USE SendPathAssumption
<1> DEFINE Unchanged == pushed' = pushed /\ taken' = taken /\ current' = current
<1>0. Unchanged => [Abstract!Next]_(Abstract!vars)
  BY DEF Abstract!vars
<1>1. ASSUME NEW self \in Threads, Send(self) PROVE [Abstract!Next]_(Abstract!vars)
  <2>1. pushed' = pushed + 1 /\ taken' = taken
    BY <1>1 DEF Send, Goto, IInv, TypeOK, taken
  <2>2. current' = current
    BY <1>1 DEF Send, Goto, IInv, TypeOK, Labels, current, Carriers, Holders
  <2> QED
    BY <2>1, <2>2 DEF Abstract!Next, Abstract!Accept
<1>2. ASSUME NEW self \in Threads, Claim(self) PROVE [Abstract!Next]_(Abstract!vars)
  <2>1. pushed' = pushed /\ taken' = taken
    BY <1>2 DEF Claim, Goto, IInv, TypeOK, QueueInv, taken
  <2>2. current' = current
    BY <1>2 DEF Claim, Goto, IInv, TypeOK, FlagInv, CarrierInv, Labels, current, Carriers, Holders
  <2> QED
    BY <1>0, <2>1, <2>2
<1>3. ASSUME NEW self \in Threads, PopNothing(self) PROVE [Abstract!Next]_(Abstract!vars)
  <2>1. pushed' = pushed /\ taken' = taken
    BY <1>3 DEF PopNothing, Goto, IInv, TypeOK, QueueInv, taken
  <2>2. current' = current
    BY <1>3 DEF PopNothing, Goto, IInv, TypeOK, FlagInv, CarrierInv, Labels, current, Carriers, Holders
  <2> QED
    BY <1>0, <2>1, <2>2
<1>4. ASSUME NEW self \in Threads, PopFront(self) PROVE [Abstract!Next]_(Abstract!vars)
  <2>1. pushed' = pushed /\ taken' = taken + 1 /\ taken < pushed
    BY <1>4 DEF PopFront, Goto, IInv, TypeOK, QueueInv, taken
  <2>2. current = {}
    BY <1>4 DEF PopFront, Goto, IInv, TypeOK, FlagInv, current, Carriers, Holders
  <2>3. current' = {taken + 1}
    <3>1. sendBuf'[self] = taken + 1
      <4>1. Len(sendQueue) \in Nat \ {0} /\ Head(sendQueue) = sendQueue[1]
        BY <1>4 DEF PopFront, Goto, IInv, TypeOK
      <4>2. sendQueue[1] = taken + 1
        BY <4>1 DEF IInv, QueueInv
      <4> QED
        BY <1>4, <4>1, <4>2 DEF PopFront, IInv, TypeOK
    <3>2. pc'[self] \in Carriers /\ inflight' = {}
      BY <1>4 DEF PopFront, Goto, IInv, TypeOK, FlagInv, Carriers, Holders
    <3>3. \A u \in Threads : pc'[u] \in Carriers => u = self
      BY <1>4 DEF PopFront, Goto, IInv, TypeOK, FlagInv, Carriers, Holders
    <3> QED
      BY <3>1, <3>2, <3>3 DEF current
  <2> QED
    BY <2>1, <2>2, <2>3 DEF Abstract!Next, Abstract!Take
<1>5. ASSUME NEW self \in Threads, SendAccepted(self) PROVE [Abstract!Next]_(Abstract!vars)
  <2>1. pushed' = pushed /\ taken' = taken
    BY <1>5 DEF SendAccepted, Goto, IInv, TypeOK, QueueInv, taken
  <2>2. current' = current
    BY <1>5 DEF SendAccepted, Goto, IInv, TypeOK, FlagInv, CarrierInv, Labels, current, Carriers, Holders
  <2> QED
    BY <1>0, <2>1, <2>2
<1>6. ASSUME NEW self \in Threads, SendRejected(self) PROVE [Abstract!Next]_(Abstract!vars)
  <2>1. pushed' = pushed /\ taken' = taken
    BY <1>6 DEF SendRejected, Goto, IInv, TypeOK, QueueInv, taken
  <2>2. current' = current
    BY <1>6 DEF SendRejected, Goto, IInv, TypeOK, FlagInv, CarrierInv, Labels, current, Carriers, Holders
  <2> QED
    BY <1>0, <2>1, <2>2
<1>7. ASSUME NEW self \in Threads, WriteFailed(self) PROVE [Abstract!Next]_(Abstract!vars)
  <2>1. pushed' = pushed /\ taken' = taken
    BY <1>7 DEF WriteFailed, Goto, IInv, TypeOK, taken
  <2>2. current # {}
    <3>1. pc[self] \in Carriers
      BY <1>7 DEF WriteFailed, Goto, IInv, TypeOK, Carriers, Holders
    <3> QED
      BY <3>1 DEF current
  <2>3. current' = {}
    <3>1. \A u \in Threads : pc'[u] \notin Carriers
      BY <1>7 DEF WriteFailed, Goto, IInv, TypeOK, FlagInv, Carriers, Holders
    <3>2. inflight' = {}
      BY <1>7 DEF WriteFailed, Goto, IInv, TypeOK, FlagInv, Holders
    <3> QED
      BY <3>1, <3>2 DEF current
  <2> QED
    BY <2>1, <2>2, <2>3 DEF Abstract!Next, Abstract!Finish
<1>8. ASSUME NEW self \in Threads, Dispatch(self) PROVE [Abstract!Next]_(Abstract!vars)
  <2>1. pushed' = pushed /\ taken' = taken
    BY <1>8 DEF Dispatch, Goto, IInv, TypeOK, QueueInv, taken
  <2>2. current' = current
    BY <1>8 DEF Dispatch, Goto, IInv, TypeOK, FlagInv, CarrierInv, Labels, current, Carriers, Holders
  <2> QED
    BY <1>0, <2>1, <2>2
<1>9. ASSUME NEW self \in Threads, OnWrite(self) PROVE [Abstract!Next]_(Abstract!vars)
  <2>1. pushed' = pushed /\ taken' = taken
    BY <1>9 DEF OnWrite, Goto, IInv, TypeOK, taken
  <2>2. current # {}
    <3>1. pc[self] \in Carriers
      BY <1>9 DEF OnWrite, Goto, IInv, TypeOK, Carriers, Holders
    <3> QED
      BY <3>1 DEF current
  <2>3. current' = {}
    <3>1. \A u \in Threads : pc'[u] \notin Carriers
      BY <1>9 DEF OnWrite, Goto, IInv, TypeOK, FlagInv, Carriers, Holders
    <3>2. inflight' = {}
      BY <1>9 DEF OnWrite, Goto, IInv, TypeOK, FlagInv, Holders
    <3> QED
      BY <3>1, <3>2 DEF current
  <2> QED
    BY <2>1, <2>2, <2>3 DEF Abstract!Next, Abstract!Finish
<1>10. ASSUME NEW self \in Threads, HasMore(self) PROVE [Abstract!Next]_(Abstract!vars)
  <2>1. pushed' = pushed /\ taken' = taken
    BY <1>10 DEF HasMore, Goto, IInv, TypeOK, QueueInv, taken
  <2>2. current' = current
    BY <1>10 DEF HasMore, Goto, IInv, TypeOK, FlagInv, CarrierInv, Labels, current, Carriers, Holders
  <2> QED
    BY <1>0, <2>1, <2>2
<1>11. ASSUME NEW self \in Threads, OnWriteError(self) PROVE [Abstract!Next]_(Abstract!vars)
  <2>1. pushed' = pushed /\ taken' = taken
    BY <1>11 DEF OnWriteError, Goto, IInv, TypeOK, taken
  <2>2. current # {}
    <3>1. pc[self] \in Carriers
      BY <1>11 DEF OnWriteError, Goto, IInv, TypeOK, Carriers, Holders
    <3> QED
      BY <3>1 DEF current
  <2>3. current' = {}
    <3>1. \A u \in Threads : pc'[u] \notin Carriers
      BY <1>11 DEF OnWriteError, Goto, IInv, TypeOK, FlagInv, Carriers, Holders
    <3>2. inflight' = {}
      BY <1>11 DEF OnWriteError, Goto, IInv, TypeOK, FlagInv, Holders
    <3> QED
      BY <3>1, <3>2 DEF current
  <2> QED
    BY <2>1, <2>2, <2>3 DEF Abstract!Next, Abstract!Finish
<1>12. ASSUME NEW self \in Threads, Error(self) PROVE [Abstract!Next]_(Abstract!vars)
  <2>1. pushed' = pushed /\ taken' = taken
    BY <1>12 DEF Error, Goto, IInv, TypeOK, QueueInv, taken
  <2>2. current' = current
    BY <1>12 DEF Error, Goto, IInv, TypeOK, FlagInv, CarrierInv, Labels, current, Carriers, Holders
  <2> QED
    BY <1>0, <2>1, <2>2
<1>13. CASE Elsewhere
  BY <1>0, <1>13 DEF Elsewhere, taken, current
<1>14. CASE UNCHANGED vars
  BY <1>0, <1>14 DEF vars, taken, current
<1> QED
  BY <1>1, <1>2, <1>3, <1>4, <1>5, <1>6, <1>7, <1>8, <1>9, <1>10, <1>11, <1>12, <1>13, <1>14 DEF Next, Step

\* send(), go_writing_() and the write handlers keep OrderedSender's promise for
\* any threads: messages go to the socket one at a time and in order of send().
THEOREM OrderKept == Spec => ImplementsOrderedSender
<1> QED
  BY Invariant, InitImplements, StepImplements, PTL DEF Spec, ImplementsOrderedSender, Abstract!Spec
=============================================================================
