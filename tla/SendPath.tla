------------------------------ MODULE SendPath ------------------------------
(***************************************************************************)
(* The sending half of IOCPConn: send(), go_writing_() and the completion  *)
(* handlers of a write, run by any number of threads at once.              *)
(*                                                                         *)
(* The threads share the queue send_queue_, guarded by mutex_, and the     *)
(* atomic flag write_in_progress_.  Every action below is the code between *)
(* two accesses to that shared state: a critical section, a compare and    *)
(* swap, or a store.  A message is named by its place in the order in      *)
(* which send() queued the messages; what it says does not matter here.    *)
(*                                                                         *)
(* The rest of the connection appears only through two facts: whether      *)
(* state_value_ is kConnected, which it may change at any time, and        *)
(* whether cleanup_() has begun.  Module IOCPConn has them in full.        *)
(***************************************************************************)
EXTENDS Naturals, Sequences

CONSTANTS
  Threads,    \* the threads that run code of the connection
  Pollers,    \* those of them that dequeue completion packets
  MaxSends    \* bound on the number of messages queued

ASSUME SendPathAssumption ==
  /\ Pollers \subseteq Threads
  /\ MaxSends \in Nat

VARIABLES
  connected,        \* state_value_ is kConnected
  closing,          \* cleanup_done_: cleanup_() has begun
  pushed,           \* number of messages queued so far
  sendQueue,        \* send_queue_
  writeInProgress,  \* write_in_progress_
  inflight,         \* messages given to WSASend whose packet is not dequeued
  pc,               \* where each thread is
  sendBuf           \* the message a thread holds: send_buf or its context's

vars == <<connected, closing, pushed, sendQueue, writeInProgress, inflight,
          pc, sendBuf>>

Labels == {"idle", "go_writing", "pop", "wsasend", "write_failed", "error",
           "on_write", "has_more", "on_write_error"}

\* Messages are numbers of those queued so far, and threads are somewhere in the code.
TypeOK ==
  /\ connected \in BOOLEAN
  /\ closing \in BOOLEAN
  /\ pushed \in 0..MaxSends
  /\ sendQueue \in Seq(1..pushed)
  /\ writeInProgress \in BOOLEAN
  /\ inflight \subseteq 1..pushed
  /\ pc \in [Threads -> Labels]
  /\ sendBuf \in [Threads -> 0..pushed]

Init ==
  /\ connected \in BOOLEAN
  /\ closing = FALSE
  /\ pushed = 0
  /\ sendQueue = <<>>
  /\ writeInProgress = FALSE
  /\ inflight = {}
  /\ pc = [t \in Threads |-> "idle"]
  /\ sendBuf = [t \in Threads |-> 0]

Goto(t, from, to) ==
  /\ pc[t] = from
  /\ pc' = [pc EXCEPT ![t] = to]

-----------------------------------------------------------------------------
\* send(): under mutex_, refuse unless connected, queue the message and see
\* whether it is alone there.  (A refused message leaves no trace.)
Send(t) ==
  /\ connected
  /\ pushed < MaxSends
  /\ pushed' = pushed + 1
  /\ sendQueue' = Append(sendQueue, pushed + 1)
  /\ Goto(t, "idle", IF Len(sendQueue') = 1 THEN "go_writing" ELSE "idle")
  /\ UNCHANGED <<connected, closing, writeInProgress, inflight, sendBuf>>

\* Broken variant: the flag is set without looking at its old value.
ClaimBlindly(t) ==
  /\ writeInProgress' = TRUE
  /\ Goto(t, "go_writing", "pop")
  /\ UNCHANGED <<connected, closing, pushed, sendQueue, inflight, sendBuf>>

\* go_writing_(): compare and swap write_in_progress_; the loser leaves.
Claim(t) ==
  /\ writeInProgress' = TRUE
  /\ Goto(t, "go_writing", IF writeInProgress THEN "idle" ELSE "pop")
  /\ UNCHANGED <<connected, closing, pushed, sendQueue, inflight, sendBuf>>

\* go_writing_(): the queue turned out empty; the flag is given back inside
\* the critical section.
PopNothing(t) ==
  /\ sendQueue = <<>>
  /\ writeInProgress' = FALSE
  /\ Goto(t, "pop", "idle")
  /\ UNCHANGED <<connected, closing, pushed, sendQueue, inflight, sendBuf>>

\* go_writing_(): take the oldest message off the queue.
PopFront(t) ==
  /\ sendQueue # <<>>
  /\ sendBuf' = [sendBuf EXCEPT ![t] = Head(sendQueue)]
  /\ sendQueue' = Tail(sendQueue)
  /\ Goto(t, "pop", "wsasend")
  /\ UNCHANGED <<connected, closing, pushed, writeInProgress, inflight>>

\* go_writing_(): WSASend succeeds or is pending; either way a completion
\* packet will follow.
SendAccepted(t) ==
  /\ inflight' = inflight \union {sendBuf[t]}
  /\ sendBuf' = [sendBuf EXCEPT ![t] = 0]
  /\ Goto(t, "wsasend", "idle")
  /\ UNCHANGED <<connected, closing, pushed, sendQueue, writeInProgress>>

\* go_writing_(): WSASend fails at once, and no packet will follow.
SendRejected(t) ==
  /\ Goto(t, "wsasend", "write_failed")
  /\ UNCHANGED <<connected, closing, pushed, sendQueue, writeInProgress,
                 inflight, sendBuf>>

\* go_writing_(): the flag is given back before the context is discarded and
\* the error reported.
WriteFailed(t) ==
  /\ writeInProgress' = FALSE
  /\ sendBuf' = [sendBuf EXCEPT ![t] = 0]
  /\ Goto(t, "write_failed", "error")
  /\ UNCHANGED <<connected, closing, pushed, sendQueue, inflight>>

\* The poll dequeues the packet of a write: a success or a failure.
Dispatch(t) ==
  /\ t \in Pollers
  /\ \E m \in inflight, handler \in {"on_write", "on_write_error"} :
       /\ inflight' = inflight \ {m}
       /\ sendBuf' = [sendBuf EXCEPT ![t] = m]
       /\ Goto(t, "idle", handler)
  /\ UNCHANGED <<connected, closing, pushed, sendQueue, writeInProgress>>

\* on_completion_write_(): delete the buffer, give back the flag.
OnWrite(t) ==
  /\ writeInProgress' = FALSE
  /\ sendBuf' = [sendBuf EXCEPT ![t] = 0]
  /\ Goto(t, "on_write", "has_more")
  /\ UNCHANGED <<connected, closing, pushed, sendQueue, inflight>>

\* Broken variant: the handler forgets to look at the queue again.
NeverMore(t) ==
  /\ Goto(t, "has_more", "idle")
  /\ UNCHANGED <<connected, closing, pushed, sendQueue, writeInProgress,
                 inflight, sendBuf>>

\* on_completion_write_(): only now, under mutex_, look for more to send.
HasMore(t) ==
  /\ Goto(t, "has_more", IF sendQueue # <<>> THEN "go_writing" ELSE "idle")
  /\ UNCHANGED <<connected, closing, pushed, sendQueue, writeInProgress,
                 inflight, sendBuf>>

\* on_completion_error_() of a write: delete the buffer, give back the flag.
OnWriteError(t) ==
  /\ writeInProgress' = FALSE
  /\ sendBuf' = [sendBuf EXCEPT ![t] = 0]
  /\ Goto(t, "on_write_error", "error")
  /\ UNCHANGED <<connected, closing, pushed, sendQueue, inflight>>

\* on_completion_error_(): unless cleanup_() has begun already, it begins now.
Error(t) ==
  /\ closing' = TRUE
  /\ Goto(t, "error", "idle")
  /\ UNCHANGED <<connected, pushed, sendQueue, writeInProgress, inflight, sendBuf>>

\* Everything else the connection does: it connects, shuts down, cleans up.
Elsewhere ==
  /\ connected' \in BOOLEAN
  /\ closing' \in {closing, TRUE}
  /\ UNCHANGED <<pushed, sendQueue, writeInProgress, inflight, pc, sendBuf>>

-----------------------------------------------------------------------------
\* What a thread does by itself once it is inside the code.
Step(t) ==
  \/ Claim(t)
  \/ PopNothing(t) \/ PopFront(t)
  \/ SendAccepted(t) \/ SendRejected(t) \/ WriteFailed(t)
  \/ OnWrite(t) \/ HasMore(t)
  \/ OnWriteError(t) \/ Error(t)

Next ==
  \/ \E t \in Threads : Send(t) \/ Dispatch(t) \/ Step(t)
  \/ Elsewhere

\* Threads are scheduled, and every write completes and is dequeued: the pollers
\* come back for packets as long as there are any.  Nobody has to send.
Fairness ==
  /\ \A t \in Threads : WF_vars(Step(t))
  /\ WF_vars(\E t \in Pollers : Dispatch(t))

Spec == Init /\ [][Next]_vars

FairSpec == Spec /\ Fairness

-----------------------------------------------------------------------------
\* A thread that owns the flag: nobody else may start or finish a write.
Holders == {"pop", "wsasend", "write_failed", "on_write", "on_write_error"}

\* A thread that has a message in hand.
Carriers == Holders \ {"pop"}

taken == pushed - Len(sendQueue)

\* Messages taken off the queue whose transmission is not over.
current == inflight \union {sendBuf[t] : t \in {u \in Threads : pc[u] \in Carriers}}

\* While the connection lives, a queued message is never forgotten: a write is
\* in flight whose completion will look at the queue, or some thread is inside
\* the send path.  send() triggers a write only for the first message of the
\* queue, so this is what makes the second and later ones go out.
NoStrandedMessage ==
  sendQueue # <<>> /\ ~closing
    => inflight # {} \/ \E t \in Threads : pc[t] # "idle"

\* The send path keeps the promise of OrderedSender: one at a time, in the order
\* of the calls of send(), none twice, none skipped.
Abstract == INSTANCE OrderedSender WITH
              accepted <- pushed, taken <- taken, current <- current

ImplementsOrderedSender == Abstract!Spec

\* Unless the connection is cleaned up, every message send() accepts is
\* eventually taken off the queue and given to WSASend.
EveryMessageGoesOut ==
  \A k \in 1..MaxSends : (pushed >= k) ~> (taken >= k \/ closing)
=============================================================================
