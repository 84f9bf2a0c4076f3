------------------------- MODULE IOCPConnSoloProofs -------------------------
(***************************************************************************)
(* Proofs about IOCPConn when the library's threads do not work for the    *)
(* same connection at once: one thread polls and calls, and the timer's    *)
(* thread is beside it; or that one thread is all there is.                *)
(***************************************************************************)
EXTENDS IOCPConnProofs

\* The threads that poll or call; the timer's thread only cleans up.
Main == Pollers \union AppThreads

OneMain == MaxConnects <= 1 /\ \A t, u \in Main : t = u

\* The end of a connection: cleanup_() and do_cleanup_().
ClosingLabels ==
  {"cleanup", "cancelTimer", "checkIo", "cancelIo", "storeErr", "doCleanup", "reset"}

\* A completion has been dequeued and not been counted down.
Dequeued == {"decrIo"}

\* Where a thread is only when the channel exists, or did until the end.
LinkedLabels ==
  Dequeued \union {"onConnect", "onRead", "onWrite", "onError", "connectEx", "countIo",
                   "goReading", "recv", "goWriting", "pop", "wsaSend", "writeFailed",
                   "freeFailed", "hasMore", "errorTail"}

\* The timer's thread does nothing but clean up.
MainInv ==
  \A t \in Threads \ Main : pc[t] \in ClosingLabels \union {"idle"} /\ home[t] = "idle"

\* The one socket and its channel; before there is a channel, nothing can be outstanding.
LinkInv ==
  /\ opened \in {0, 1} /\ handle \in {0, opened} /\ channel \in {0, opened}
  /\ \A o \in posted : o.sock = 1
  /\ posted # {} => opened = 1
  /\ channel = 0 /\ closes = <<>> =>
       /\ posted = {} /\ stateValue # "Connected"
       /\ \A t \in Threads : pc[t] \notin LinkedLabels /\ home[t] # "message"
  /\ \A t \in Threads : pc[t] = "connectEx" => posted = {}

Counting == \E t \in Threads : pc[t] = "countIo"
Handling == \E t \in Threads : pc[t] \in Dequeued

\* The counter lags behind the kernel by what a thread has just handed over, and is ahead
\* by what a thread has just been given back.
CountInv ==
  /\ IsFiniteSet(posted) /\ ioCount \in Nat
  /\ channel # 0 =>
       ioCount + (IF Counting THEN 1 ELSE 0)
         = Cardinality(posted) + (IF Handling THEN 1 ELSE 0)

\* Messages taken off the queue whose buffer exists.
Alive == (1..taken) \ freed

\* A buffer is deleted when its write is over, and write_ol_context_ is that write's.
MessageInv ==
  /\ freed \subseteq 1..taken
  /\ writeContext \in 0..taken
  /\ \A o \in posted : o.op = "write" => o.msg \in Alive
  /\ \A t \in Threads :
       /\ Carrying(t) => job[t].msg \in Alive
       /\ pc[t] \in {"wsaSend", "writeFailed", "freeFailed"} => writeContext # 0
       /\ pc[t] = "freeFailed" => \A o \in posted : o.op # "write"
  /\ fault \notin {"nullContext", "doubleFree"}

MainAll == MainInv /\ LinkInv /\ CountInv /\ QueueInv /\ MessageInv

\* What the timer's thread can do.
Cleans(t) ==
  \/ TimerFires(t) \/ Cleanup(t) \/ CancelTimer(t) \/ CheckIo(t) \/ CancelIo(t) \/ StoreErr(t)
  \/ DoCleanup(t) \/ Reset(t)

-----------------------------------------------------------------------------
\* The timer's thread cleans up.
LEMMA TimerCleans ==
  ASSUME ThreadInv, MainInv, NEW t \in Threads, t \notin Main, Acts(t)
  PROVE  Cleans(t)
<1>1. pc[t] \in ClosingLabels \union {"idle"} /\ home[t] = "idle"
  BY DEF MainInv
<1>2. ~UserCall(t) /\ ~Dispatch(t)
  BY <1>1 DEF UserCall, Connect, Send, Close, Shutdown, InUserCode, Dispatch, Main
<1>3. CASE Step(t)
  BY <1>1, <1>3 DEF Step, ConnectPending, ConnectRefused, CountIo, EndOnConnection, Start,
     StartFails, GoReading, RecvAccepted, RecvRejected, DecrIo, OnRead, EndMessage, GoWriting,
     PopNothing, PopFront, SendAccepted, SendRejected, WriteFailed, FreeFailed, OnWrite,
     HasMore, OnConnect, OnError, ErrorTail, ShutdownState, AddTimer, At, ClosingLabels, Cleans
<1> QED
  BY <1>2, <1>3 DEF Acts, Cleans

\* What cleaning up does not touch.
LEMMA CleansFrame ==
  ASSUME ThreadInv, NEW t \in Threads, Cleans(t)
  PROVE  /\ pc[t] \in ClosingLabels \union {"idle"}
         /\ pc'[t] \in ClosingLabels \union {home[t]} /\ home'[t] = home[t]
         /\ UNCHANGED <<opened, posted, readPending, sendVars, received, lateSuccess, fault>>
         /\ handle' \in {handle, 0}
         /\ \/ UNCHANGED <<ioCount, channel, closes>>
            \/ Reset(t) /\ channel' = 0 /\ ioCount' = 0 /\ closes' # <<>>
         /\ stateValue' \in {stateValue, "Disconnecting", "Disconnected"}
<1>1. /\ pc[t] \in ClosingLabels \union {"idle"}
      /\ UNCHANGED <<opened, posted, readPending, sendVars, received, lateSuccess, fault>>
      /\ handle' \in {handle, 0}
      /\ stateValue' \in {stateValue, "Disconnecting", "Disconnected"}
  BY DEF Cleans, TimerFires, Cleanup, CancelTimer, CheckIo, CancelIo, StoreErr, DoCleanup, Reset,
         At, ClosingLabels, dataVars, linkVars, ioVars, kernelVars, opVars, historyVars
<1>2. \/ UNCHANGED <<ioCount, channel, closes>>
      \/ Reset(t) /\ channel' = 0 /\ ioCount' = 0 /\ closes' # <<>>
  <2>1. CASE Reset(t)
    BY <2>1 DEF Reset
  <2>2. CASE ~Reset(t)
    BY <2>2 DEF Cleans, TimerFires, Cleanup, CancelTimer, CheckIo, CancelIo, StoreErr, DoCleanup,
           dataVars, linkVars, ioVars, kernelVars, opVars, historyVars
  <2> QED
    BY <2>1, <2>2
<1>3. \E to \in ClosingLabels \union {home[t]} : MovesTo(t, to, home[t])
  <2>1. \/ \E to \in ClosingLabels \union {home[t]} : Go(t, to)
        \/ GoWith(t, "cleanup", "none", 0, "timeout")
    BY DEF Cleans, TimerFires, Cleanup, CancelTimer, CheckIo, CancelIo, StoreErr, DoCleanup,
           Reset, Return, ClosingLabels
  <2> QED
    BY <2>1, GoMoves, GoWithMoves DEF ClosingLabels
<1> QED
  BY <1>1, <1>2, <1>3, OthersKeep
-----------------------------------------------------------------------------
LEMMA MainKeeps ==
  ASSUME ThreadInv, MainInv, NEW t \in Threads, Acts(t)
  PROVE  MainInv'
<1>1. CASE t \in Main
  BY <1>1, OthersStay DEF MainInv
<1>2. CASE t \notin Main
  <2>1. pc'[t] \in ClosingLabels \union {"idle"} /\ home'[t] = "idle"
    BY <1>2, TimerCleans, CleansFrame DEF MainInv
  <2> QED
    BY <2>1, OthersStay DEF MainInv
<1> QED
  BY <1>1, <1>2

\* When the one main thread acts, the others are cleaning up or idle, before and after.
LEMMA MainSees ==
  ASSUME ThreadInv, MainInv, OneMain, NEW t \in Threads, t \in Main, Acts(t)
  PROVE  /\ \A u \in Threads \ {t} :
              /\ pc[u] \in ClosingLabels \union {"idle"} /\ home[u] = "idle"
              /\ pc'[u] = pc[u] /\ home'[u] = home[u] /\ job'[u] = job[u]
         /\ Counting <=> pc[t] = "countIo"
         /\ Counting' <=> pc'[t] = "countIo"
         /\ Handling <=> pc[t] \in Dequeued
         /\ Handling' <=> pc'[t] \in Dequeued
<1>1. \A u \in Threads \ {t} :
        /\ pc[u] \in ClosingLabels \union {"idle"} /\ home[u] = "idle"
        /\ pc'[u] = pc[u] /\ home'[u] = home[u] /\ job'[u] = job[u]
  <2>1. \A u \in Threads \ {t} : u \notin Main
    BY DEF OneMain
  <2> QED
    BY <2>1, OthersStay DEF MainInv
<1>2. "countIo" \notin ClosingLabels \union {"idle"} /\ Dequeued \intersect (ClosingLabels \union {"idle"}) = {}
  BY DEF Dequeued, ClosingLabels
<1> QED
  BY <1>1, <1>2 DEF Counting, Handling

-----------------------------------------------------------------------------
\* Nothing is opened or handed over, and the channel stays.
LEMMA LinkStays ==
  ASSUME ThreadInv, LinkInv, NEW t \in Threads, Acts(t),
         UNCHANGED <<opened, channel, closes>>, posted' \subseteq posted,
         handle' \in {handle, 0},
         channel = 0 /\ closes = <<>> =>
           pc'[t] \notin LinkedLabels /\ home'[t] # "message" /\ stateValue' # "Connected",
         pc'[t] # "connectEx"
  PROVE  LinkInv'
<1>1. \A u \in Threads \ {t} : pc'[u] = pc[u] /\ home'[u] = home[u]
  BY OthersStay
<1>2. /\ opened' \in {0, 1} /\ handle' \in {0, opened'} /\ channel' \in {0, opened'}
      /\ \A o \in posted' : o.sock = 1
      /\ posted' # {} => opened' = 1
  BY DEF LinkInv
<1>3. channel' = 0 /\ closes' = <<>> =>
       /\ posted' = {} /\ stateValue' # "Connected"
       /\ \A u \in Threads : pc'[u] \notin LinkedLabels /\ home'[u] # "message"
  BY <1>1 DEF LinkInv
<1>4. \A u \in Threads : pc'[u] = "connectEx" => posted' = {}
  BY <1>1 DEF LinkInv
<1> QED
  BY <1>2, <1>3, <1>4 DEF LinkInv

LEMMA LinkKeepsCleans ==
  ASSUME ThreadInv, LinkInv, NEW t \in Threads, Acts(t), Cleans(t)
  PROVE  LinkInv'
<1>0. home[t] \in {"idle", "onConnection", "message"}
  BY DEF ThreadInv
<1>1. pc'[t] \notin LinkedLabels
  BY <1>0, CleansFrame DEF ClosingLabels, LinkedLabels, Dequeued
<1>2. CASE UNCHANGED <<channel, closes>>
  <2>1. channel = 0 /\ closes = <<>> =>
           pc'[t] \notin LinkedLabels /\ home'[t] # "message" /\ stateValue' # "Connected"
    BY <1>1, CleansFrame DEF LinkInv
  <2>2. pc'[t] # "connectEx" /\ handle' \in {handle, 0} /\ UNCHANGED <<opened, posted>>
    BY <1>1, CleansFrame DEF LinkedLabels
  <2> QED
    BY <1>2, <2>1, <2>2, LinkStays
<1>3. CASE channel' = 0 /\ closes' # <<>>
  <2>1. \A u \in Threads \ {t} : pc'[u] = pc[u] /\ home'[u] = home[u]
    BY OthersStay
  <2>2. /\ UNCHANGED <<opened, posted>> /\ handle' \in {handle, 0} /\ pc'[t] # "connectEx"
    BY <1>1, CleansFrame DEF LinkedLabels
  <2>3. \A u \in Threads : pc'[u] = "connectEx" => posted' = {}
    BY <2>1, <2>2 DEF LinkInv
  <2> QED
    BY <1>3, <2>2, <2>3 DEF LinkInv
<1> QED
  BY <1>2, <1>3, CleansFrame

\* Steps that only go on where the channel is there, or that do not need it.
LEMMA LinkKeepsPlain ==
  ASSUME ThreadInv, LinkInv, NEW t \in Threads, Acts(t),
         \/ Send(t) \/ Close(t) \/ Shutdown(t) \/ CountIo(t) \/ EndOnConnection(t) \/ StartFails(t)
         \/ GoReading(t) \/ RecvRejected(t) \/ DecrIo(t) \/ OnRead(t) \/ EndMessage(t)
         \/ GoWriting(t) \/ PopNothing(t) \/ PopFront(t) \/ SendRejected(t) \/ WriteFailed(t)
         \/ FreeFailed(t) \/ OnWrite(t) \/ HasMore(t) \/ OnConnect(t) \/ OnError(t) \/ ErrorTail(t)
         \/ ShutdownState(t) \/ AddTimer(t)
  PROVE  LinkInv'
<1>0. home[t] \in {"idle", "onConnection", "message"}
  BY DEF ThreadInv
<1>1. CASE Send(t) \/ Close(t) \/ Shutdown(t) \/ ShutdownState(t) \/ AddTimer(t)
  <2>1. /\ UNCHANGED <<opened, channel, closes, posted, handle>>
        /\ stateValue' \in {stateValue, "Disconnecting"}
        /\ channel = 0 /\ closes = <<>> => ~Send(t)
    BY <1>1 DEF Send, Close, Shutdown, ShutdownState, AddTimer, dataVars, linkVars, kernelVars,
       opVars, historyVars, LinkInv
  <2>2. \E to \in {"goWriting", "cleanup", "shutdownState", "addTimer", home[t]} :
          Go(t, to) /\ (to = "goWriting" => Send(t))
    BY <1>0, <1>1 DEF Send, Close, Shutdown, ShutdownState, AddTimer, Return
  <2>3. /\ home'[t] = home[t]
        /\ pc'[t] \in {"cleanup", "shutdownState", "addTimer", home[t]} \/ (pc'[t] = "goWriting" /\ Send(t))
    BY <2>2 DEF Go, ThreadInv
  <2>4. pc'[t] # "connectEx" /\ (pc'[t] \in LinkedLabels => Send(t))
    BY <1>0, <2>3 DEF LinkedLabels, Dequeued
  <2> QED
    BY <2>1, <2>3, <2>4, LinkStays DEF LinkInv
<1>2. CASE EndOnConnection(t) \/ StartFails(t)
  <2>1. /\ UNCHANGED <<opened, channel, closes, posted, stateValue>> /\ handle' \in {handle, 0}
    BY <1>2 DEF EndOnConnection, StartFails, dataVars, linkVars, kernelVars, opVars, historyVars
  <2>2. pc'[t] \in {"start", "cleanup", home[t]} /\ home'[t] \in {"idle", home[t]}
    BY <1>2 DEF EndOnConnection, StartFails, Resume, Go, ThreadInv
  <2>3. pc'[t] \notin LinkedLabels
    BY <1>0, <2>2 DEF LinkedLabels, Dequeued
  <2> QED
    BY <2>1, <2>2, <2>3, LinkStays DEF LinkInv, LinkedLabels
<1>3. CASE \/ CountIo(t) \/ GoReading(t) \/ RecvRejected(t) \/ DecrIo(t) \/ OnRead(t) \/ EndMessage(t)
           \/ GoWriting(t) \/ PopNothing(t) \/ PopFront(t) \/ SendRejected(t) \/ WriteFailed(t)
           \/ FreeFailed(t) \/ OnWrite(t) \/ HasMore(t) \/ OnConnect(t) \/ OnError(t) \/ ErrorTail(t)
  <2>1. UNCHANGED <<opened, channel, closes, posted, stateValue, handle>>
    BY <1>3 DEF CountIo, GoReading, RecvRejected, DecrIo, OnRead, EndMessage, GoWriting, PopNothing,
       PopFront, SendRejected, WriteFailed, FreeFailed, OnWrite, HasMore, OnConnect, OnError,
       ErrorTail, dataVars, linkVars, kernelVars, opVars, historyVars
  <2>2. pc[t] \in LinkedLabels \/ home[t] = "message"
    BY <1>3 DEF CountIo, GoReading, RecvRejected, DecrIo, OnRead, EndMessage, GoWriting, PopNothing,
       PopFront, SendRejected, WriteFailed, FreeFailed, OnWrite, HasMore, OnConnect, OnError,
       ErrorTail, At, LinkedLabels, Dequeued, ThreadInv
  <2>3. ~(channel = 0 /\ closes = <<>>)
    BY <2>2 DEF LinkInv
  <2>4. pc'[t] # "connectEx"
    <3>1. CASE \/ CountIo(t) \/ GoReading(t) \/ GoWriting(t) \/ PopNothing(t) \/ FreeFailed(t) \/ HasMore(t)
      BY <1>0, <3>1 DEF CountIo, GoReading, GoWriting, PopNothing, FreeFailed, HasMore, Return, Go, ThreadInv
    <3>2. CASE \/ RecvRejected(t) \/ PopFront(t) \/ SendRejected(t) \/ WriteFailed(t) \/ OnWrite(t) \/ OnError(t)
      BY <3>2 DEF RecvRejected, PopFront, SendRejected, WriteFailed, OnWrite, OnError, GoWith, ThreadInv
    <3>3. CASE OnRead(t) \/ EndMessage(t) \/ OnConnect(t) \/ ErrorTail(t)
      BY <1>0, <3>3 DEF OnRead, EndMessage, OnConnect, ErrorTail, Return, Go, GoWith, CallUser, Resume, ThreadInv
    <3>4. CASE DecrIo(t)
      <4>1. Handler(job[t].op, job[t].err) # "connectEx"
        BY <3>4 DEF DecrIo, At, Handler, ThreadInv
      <4> QED
        BY <3>4, <4>1 DEF DecrIo, Go, ThreadInv
    <3> QED
      BY <1>3, <3>1, <3>2, <3>3, <3>4
  <2> QED
    BY <2>1, <2>3, <2>4, LinkStays
<1> QED
  BY <1>1, <1>2, <1>3
\* The kernel gets an operation of the one socket.
LEMMA LinkKeepsIssue ==
  ASSUME ThreadInv, MainInv, LinkInv, OneMain, NEW t \in Threads, t \in Main, Acts(t),
         ConnectPending(t) \/ RecvAccepted(t) \/ SendAccepted(t)
  PROVE  LinkInv'
<1>1. /\ UNCHANGED <<opened, handle, channel, stateValue, closes>>
      /\ pc[t] \in LinkedLabels /\ handle # 0
      /\ \E op, msg : Issue(op, msg)
  BY DEF ConnectPending, RecvAccepted, SendAccepted, At, linkVars, historyVars, LinkedLabels
<1>2. pc'[t] = "countIo"
  BY DEF ConnectPending, RecvAccepted, SendAccepted, Go, GoWith, ThreadInv
<1>3. handle = 1 /\ opened = 1 /\ ~(channel = 0 /\ closes = <<>>)
  BY <1>1 DEF LinkInv
<1>4. \A o \in posted' : o.sock = 1
  BY <1>1, <1>3 DEF Issue, LinkInv
<1>5. \A u \in Threads : pc'[u] # "connectEx"
  BY <1>2, MainSees DEF ClosingLabels
<1> QED
  BY <1>1, <1>3, <1>4, <1>5 DEF LinkInv

LEMMA LinkKeepsLink ==
  ASSUME Inv, MainInv, LinkInv, OneMain, NEW t \in Threads, t \in Main, Acts(t),
         Connect(t) \/ ConnectRefused(t) \/ Start(t)
  PROVE  LinkInv'
<1>0. ThreadInv /\ EndInv /\ home[t] \in {"idle", "onConnection", "message"}
  BY DEF Inv, ThreadInv
<1>1. CASE Connect(t)
  <2>1. opened = 0 /\ opened' = 1 /\ handle' = 1 /\ channel' = 1
    BY <1>1, IOCPConnAssumption DEF Connect, LinkInv, OneMain
  <2>2. posted' = {}
    BY <1>0, <1>1, <2>1 DEF Connect, opVars, EndInv
  <2> QED
    BY <2>1, <2>2 DEF LinkInv
<1>2. CASE ConnectRefused(t)
  <2>1. /\ pc[t] = "connectEx" /\ opened' = opened /\ handle' = 0 /\ channel' = 0
        /\ posted' = posted /\ stateValue' = "Disconnected"
    BY <1>2 DEF ConnectRefused, At, opVars
  <2>2. posted = {} /\ home[t] = "idle"
    BY <1>0, <2>1 DEF LinkInv, ThreadInv, LineLabels
  <2>3. pc'[t] = "idle" /\ home'[t] = "idle"
    BY <1>0, <1>2, <2>2 DEF ConnectRefused, Return, Go, ThreadInv
  <2>4. \A u \in Threads : pc'[u] \notin LinkedLabels /\ home'[u] # "message"
    BY <1>0, <2>3, MainSees DEF LinkedLabels, ClosingLabels, Dequeued
  <2> QED
    BY <2>1, <2>2, <2>4 DEF LinkInv
<1>3. CASE Start(t)
  <2>1. /\ UNCHANGED <<opened, handle, posted, closes>>
        /\ pc[t] = "start" /\ home[t] = "idle"
    BY <1>0, <1>3 DEF Start, At, ThreadInv, LineLabels, kernelVars, opVars, historyVars
  <2>2. /\ channel' \in {channel, handle}
        /\ channel = 0 /\ stateValue # "Connected" => handle # 0 /\ channel' = handle
        /\ channel # 0 => channel' = channel
    BY <1>3 DEF Start
  <2>3. pc'[t] \in {"idle", "goReading"}
    BY <1>0, <1>3, <2>1 DEF Start, Go, ThreadInv
  <2>4. \A u \in Threads : pc'[u] # "connectEx"
    BY <1>0, <2>3, MainSees DEF ClosingLabels
  <2>5. ~(channel' = 0 /\ closes' = <<>>)
    BY <2>1, <2>2 DEF LinkInv
  <2>6. channel' \in {0, opened'} /\ handle' \in {0, opened'}
    BY <2>1, <2>2 DEF LinkInv
  <2> QED
    BY <2>1, <2>4, <2>5, <2>6 DEF LinkInv
<1> QED
  BY <1>1, <1>2, <1>3

LEMMA LinkKeepsDispatch ==
  ASSUME ThreadInv, LinkInv, NEW t \in Threads, Acts(t), Dispatch(t)
  PROVE  LinkInv'
<1>1. /\ UNCHANGED <<opened, handle, channel, stateValue, closes>>
      /\ posted # {} /\ posted' \subseteq posted
  BY DEF Dispatch, linkVars
<1>2. pc'[t] # "connectEx"
  <2>1. PICK o \in posted, outcome \in Errors \union {"eof"} :
             GoWith(t, "decrIo", o.op, o.msg, outcome)
    BY DEF Dispatch, Outcomes, Errors
  <2> QED
    BY <2>1 DEF GoWith, ThreadInv
<1>3. ~(channel = 0 /\ closes = <<>>)
  BY <1>1 DEF LinkInv
<1> QED
  BY <1>1, <1>2, <1>3, LinkStays

LEMMA LinkKeeps ==
  ASSUME Inv, MainInv, LinkInv, OneMain, NEW t \in Threads, Acts(t)
  PROVE  LinkInv'
<1>0. ThreadInv
  BY DEF Inv
<1>1. CASE Cleans(t)
  BY <1>0, <1>1, LinkKeepsCleans
<1>2. CASE ~Cleans(t)
  <2>1. t \in Main
    BY <1>0, <1>2, TimerCleans
  <2> QED
    BY <1>0, <1>2, <2>1, LinkKeepsPlain, LinkKeepsIssue, LinkKeepsLink, LinkKeepsDispatch
    DEF Acts, UserCall, Step, Cleans
<1> QED
  BY <1>1, <1>2

-----------------------------------------------------------------------------
\* Nothing is handed over, given back or counted.
LEMMA CountStays ==
  ASSUME CountInv, UNCHANGED <<ioCount, posted>>, channel' \in {channel, 0},
         Counting' <=> Counting, Handling' <=> Handling
  PROVE  CountInv'
BY DEF CountInv

LEMMA CountKeepsCleans ==
  ASSUME ThreadInv, CountInv, NEW t \in Threads, Acts(t), Cleans(t)
  PROVE  CountInv'
<1>1. CASE UNCHANGED <<ioCount, channel>>
  <2>1. /\ pc[t] \notin Dequeued \union {"countIo"} /\ pc'[t] \notin Dequeued \union {"countIo"}
        /\ posted' = posted
    <3>1. home[t] \in {"idle", "onConnection", "message"}
      BY DEF ThreadInv
    <3> QED
      BY <3>1, CleansFrame DEF ClosingLabels, Dequeued
  <2>2. (Counting' <=> Counting) /\ (Handling' <=> Handling)
    BY <2>1, OthersStay DEF Counting, Handling
  <2> QED
    BY <1>1, <2>1, <2>2, CountStays
<1>2. CASE channel' = 0 /\ ioCount' = 0
  BY <1>2, CleansFrame DEF CountInv
<1> QED
  BY <1>1, <1>2, CleansFrame

\* Steps between the calls of the kernel and their completions.
LEMMA CountKeepsPlain ==
  ASSUME ThreadInv, MainInv, OneMain, CountInv, NEW t \in Threads, t \in Main, Acts(t),
         \/ Send(t) \/ Close(t) \/ Shutdown(t) \/ EndOnConnection(t) \/ StartFails(t)
         \/ GoReading(t) \/ RecvRejected(t) \/ EndMessage(t) \/ ConnectRefused(t)
         \/ GoWriting(t) \/ PopNothing(t) \/ PopFront(t) \/ SendRejected(t) \/ WriteFailed(t)
         \/ FreeFailed(t) \/ HasMore(t) \/ ErrorTail(t) \/ ShutdownState(t) \/ AddTimer(t)
         \/ OnRead(t) \/ OnWrite(t) \/ OnConnect(t) \/ OnError(t)
  PROVE  CountInv'
<1>0. home[t] \in {"idle", "onConnection", "message"}
  BY DEF ThreadInv
<1>1. UNCHANGED <<ioCount, posted>> /\ channel' \in {channel, 0}
  BY DEF Send, Close, Shutdown, EndOnConnection, StartFails, GoReading, RecvRejected, EndMessage,
     GoWriting, PopNothing, PopFront, SendRejected, WriteFailed, FreeFailed, HasMore, ErrorTail,
     ShutdownState, AddTimer, ConnectRefused, OnRead, OnWrite, OnConnect, OnError, dataVars, linkVars, ioVars, kernelVars, opVars
<1>2. pc[t] \notin Dequeued \union {"countIo"}
  BY <1>0 DEF Send, Close, Shutdown, EndOnConnection, StartFails, GoReading, RecvRejected, EndMessage,
     GoWriting, PopNothing, PopFront, SendRejected, WriteFailed, FreeFailed, HasMore, ErrorTail,
     ShutdownState, AddTimer, ConnectRefused, OnRead, OnWrite, OnConnect, OnError, InUserCode, At, Dequeued
<1>3. pc'[t] \notin Dequeued \union {"countIo"}
  <2>1. CASE \/ Send(t) \/ Close(t) \/ Shutdown(t) \/ ShutdownState(t) \/ AddTimer(t)
             \/ StartFails(t) \/ GoReading(t) \/ ConnectRefused(t) \/ GoWriting(t) \/ PopNothing(t)
             \/ FreeFailed(t) \/ HasMore(t)
    BY <1>0, <2>1 DEF Send, Close, Shutdown, ShutdownState, AddTimer, StartFails, GoReading,
       ConnectRefused, GoWriting, PopNothing, FreeFailed, HasMore, Return, Go, ThreadInv, Dequeued
  <2>2. CASE RecvRejected(t) \/ PopFront(t) \/ SendRejected(t) \/ WriteFailed(t)
    BY <2>2 DEF RecvRejected, PopFront, SendRejected, WriteFailed, GoWith, ThreadInv, Dequeued
  <2>3. CASE EndOnConnection(t) \/ EndMessage(t) \/ ErrorTail(t)
    BY <1>0, <2>3 DEF EndOnConnection, EndMessage, ErrorTail, Return, Go, GoWith, Resume, ThreadInv,
       Dequeued
  <2>4. CASE OnRead(t) \/ OnWrite(t) \/ OnConnect(t) \/ OnError(t)
    BY <2>4 DEF OnRead, OnWrite, OnConnect, OnError, Go, GoWith, CallUser, ThreadInv, Dequeued
  <2> QED
    BY <2>1, <2>2, <2>3, <2>4
<1>4. (Counting' <=> Counting) /\ (Handling' <=> Handling)
  BY <1>2, <1>3, MainSees
<1> QED
  BY <1>1, <1>4, CountStays
\* An operation is handed to the kernel, which had none of its kind.
LEMMA CountKeepsIssue ==
  ASSUME Inv, MainInv, OneMain, CountInv, NEW t \in Threads, t \in Main, Acts(t),
         ConnectPending(t) \/ RecvAccepted(t) \/ SendAccepted(t)
  PROVE  CountInv'
<1>0. ThreadInv /\ LineInv /\ WriteInv
  BY DEF Inv
<1>1. UNCHANGED <<ioCount, channel>>
  BY DEF ConnectPending, RecvAccepted, SendAccepted, ioVars, linkVars
<1>2. pc[t] \notin Dequeued \union {"countIo"} /\ pc'[t] = "countIo"
  BY <1>0 DEF ConnectPending, RecvAccepted, SendAccepted, Go, GoWith, At, ThreadInv, Dequeued
<1>3. PICK op \in {"connect", "read", "write"}, msg \in {0, writeContext} :
        /\ Issue(op, msg)
        /\ op = "write" => SendAccepted(t)
        /\ op # "write" => ConnectPending(t) \/ RecvAccepted(t)
  BY DEF ConnectPending, RecvAccepted, SendAccepted
<1> DEFINE new == [op |-> op, msg |-> msg, sock |-> handle]
<1>4. posted' = posted \union {new} /\ new.op = op
  BY <1>3 DEF Issue
<1> HIDE DEF new
<1>5. new \notin posted
  <2>1. CASE op = "write"
    <3>1. Writing(t)
      BY <1>3, <2>1 DEF SendAccepted, At, Writing
    <3> QED
      BY <1>0, <1>4, <2>1, <3>1 DEF WriteInv
  <2>2. CASE op # "write"
    <3>1. OnLine(t)
      BY <1>3, <2>2 DEF ConnectPending, RecvAccepted, At, OnLine, LineLabels
    <3> QED
      BY <1>0, <1>4, <2>2, <3>1 DEF LineInv
  <2> QED
    BY <2>1, <2>2
<1>6. /\ IsFiniteSet(posted') /\ Cardinality(posted') = Cardinality(posted) + 1
      /\ Cardinality(posted) \in Nat
  BY <1>4, <1>5, FS_AddElement, FS_CardinalityType DEF CountInv
<1>7. ~Counting /\ Counting' /\ ~Handling /\ ~Handling'
  BY <1>0, <1>2, MainSees DEF Dequeued
<1> QED
  BY <1>1, <1>6, <1>7 DEF CountInv

\* It is counted.
LEMMA CountKeepsCountIo ==
  ASSUME ThreadInv, MainInv, OneMain, CountInv, NEW t \in Threads, t \in Main, Acts(t), CountIo(t)
  PROVE  CountInv'
<1>1. UNCHANGED <<posted, channel>> /\ ioCount' = ioCount + 1 /\ pc[t] = "countIo"
  BY DEF CountIo, At, linkVars, kernelVars, opVars
<1>2. pc'[t] \in {"idle", "onConnection", "message"}
  BY DEF CountIo, Return, Go, ThreadInv
<1>3. Counting /\ ~Counting' /\ ~Handling /\ ~Handling'
  BY <1>1, <1>2, MainSees DEF Dequeued
<1>4. Cardinality(posted) \in Nat
  BY FS_CardinalityType DEF CountInv
<1> QED
  BY <1>1, <1>3, <1>4 DEF CountInv

\* A packet is dequeued.
LEMMA CountKeepsDispatch ==
  ASSUME ThreadInv, MainInv, OneMain, CountInv, NEW t \in Threads, t \in Main, Acts(t), Dispatch(t)
  PROVE  CountInv'
<1>1. PICK o \in posted, outcome \in Errors \union {"eof"} :
        /\ posted' = posted \ {o}
        /\ GoWith(t, "decrIo", o.op, o.msg, outcome)
  BY DEF Dispatch, Outcomes, Errors
<1>2. UNCHANGED <<ioCount, channel>> /\ pc[t] = "idle"
  BY DEF Dispatch, At, linkVars, ioVars
<1>3. pc'[t] \in Dequeued
  BY <1>1 DEF GoWith, ThreadInv, Dequeued
<1>4. ~Counting /\ ~Counting' /\ ~Handling /\ Handling'
  BY <1>2, <1>3, MainSees DEF Dequeued
<1>5. /\ IsFiniteSet(posted') /\ Cardinality(posted') = Cardinality(posted) - 1
      /\ Cardinality(posted) \in Nat /\ Cardinality(posted') \in Nat
  BY <1>1, FS_RemoveElement, FS_CardinalityType DEF CountInv
<1> QED
  BY <1>2, <1>4, <1>5 DEF CountInv

\* Its handler counts it down, and the counter was not at zero.
LEMMA CountKeepsDone ==
  ASSUME ThreadInv, MainInv, OneMain, CountInv, NEW t \in Threads, t \in Main, Acts(t), DecrIo(t)
  PROVE  CountInv'
<1>1. /\ UNCHANGED <<posted, channel>> /\ Decrement /\ pc[t] = "decrIo" /\ channel # 0
  BY DEF DecrIo, At, linkVars, kernelVars, opVars
<1>2. pc'[t] \notin Dequeued \union {"countIo"}
  <2>1. Handler(job[t].op, job[t].err) \notin {"decrIo", "countIo"}
    BY <1>1 DEF Handler, ThreadInv
  <2> QED
    BY <2>1 DEF DecrIo, Go, ThreadInv, Dequeued
<1>3. ~Counting /\ ~Counting' /\ Handling /\ ~Handling'
  BY <1>1, <1>2, MainSees DEF Dequeued
<1>4. Cardinality(posted) \in Nat /\ ioCount \in Nat /\ ioCount = Cardinality(posted) + 1
  BY <1>1, <1>3, FS_CardinalityType DEF CountInv
<1>5. ioCount' = ioCount - 1
  BY <1>1, <1>4 DEF Decrement
<1> QED
  BY <1>1, <1>3, <1>4, <1>5 DEF CountInv

\* A channel is made, when there is nothing to count.
LEMMA CountKeepsLink ==
  ASSUME Inv, MainInv, LinkInv, OneMain, CountInv, NEW t \in Threads, t \in Main, Acts(t),
         Connect(t) \/ Start(t)
  PROVE  CountInv'
<1>0. ThreadInv /\ EndInv /\ home[t] \in {"idle", "onConnection", "message"}
  BY DEF Inv, ThreadInv
<1>1. posted' = posted /\ pc[t] \notin Dequeued \union {"countIo"} /\ pc'[t] \notin Dequeued \union {"countIo"}
  <2>1. CASE Connect(t)
    BY <1>0, <2>1 DEF Connect, InUserCode, At, Go, opVars, ThreadInv, Dequeued
  <2>2. CASE Start(t)
    BY <1>0, <2>2 DEF Start, At, Go, kernelVars, opVars, ThreadInv, Dequeued
  <2> QED
    BY <2>1, <2>2
<1>2. ~Counting /\ ~Counting' /\ ~Handling /\ ~Handling'
  BY <1>0, <1>1, MainSees
<1>3. CASE UNCHANGED <<channel, ioCount>>
  BY <1>1, <1>2, <1>3, CountStays
<1>4. CASE posted = {} /\ ioCount' = 0
  <2>1. Cardinality(posted') = 0
    BY <1>1, <1>4, FS_EmptySet
  <2> QED
    BY <1>1, <1>2, <1>4, <2>1 DEF CountInv
<1>5. Connect(t) => posted = {} /\ ioCount' = 0
  BY <1>0, IOCPConnAssumption DEF Connect, LinkInv, EndInv, OneMain
<1>6. Start(t) => (posted = {} /\ ioCount' = 0) \/ UNCHANGED <<channel, ioCount>>
  <2>1. handle # 0 => closes = <<>>
    BY <1>0 DEF EndInv
  <2> QED
    BY <2>1 DEF Start, LinkInv
<1> QED
  BY <1>3, <1>4, <1>5, <1>6

LEMMA CountKeeps ==
  ASSUME Inv, MainInv, LinkInv, OneMain, CountInv, NEW t \in Threads, Acts(t)
  PROVE  CountInv'
<1>0. ThreadInv
  BY DEF Inv
<1>1. CASE Cleans(t)
  BY <1>0, <1>1, CountKeepsCleans
<1>2. CASE ~Cleans(t)
  <2>1. t \in Main
    BY <1>0, <1>2, TimerCleans
  <2> QED
    BY <1>0, <1>2, <2>1, CountKeepsPlain, CountKeepsIssue, CountKeepsCountIo, CountKeepsDispatch,
       CountKeepsDone, CountKeepsLink
    DEF Acts, UserCall, Step, Cleans
<1> QED
  BY <1>1, <1>2

-----------------------------------------------------------------------------
CarryLabels == {"wsaSend", "writeFailed", "freeFailed", "decrIo", "onWrite", "onError"}

\* No context is made or discarded; the thread may take something over.
LEMMA MessageStays ==
  ASSUME ThreadInv, MessageInv, NEW t \in Threads, Acts(t),
         UNCHANGED <<freed, writeContext, fault>>, taken' = taken,
         \A o \in posted' : o.op = "write" => o \in posted,
         \/ pc'[t] \notin CarryLabels
         \/ /\ Carrying(t)' => job'[t].msg \in Alive
            /\ pc'[t] \in {"wsaSend", "writeFailed", "freeFailed"} => writeContext # 0
            /\ pc'[t] = "freeFailed" => \A o \in posted : o.op # "write"
  PROVE  MessageInv'
<1>1. \A u \in Threads \ {t} : pc'[u] = pc[u] /\ job'[u] = job[u]
  BY OthersStay
<1>2. Alive' = Alive
  BY DEF Alive
<1>3. \A u \in Threads :
       /\ Carrying(u)' => job'[u].msg \in Alive'
       /\ pc'[u] \in {"wsaSend", "writeFailed", "freeFailed"} => writeContext' # 0
       /\ pc'[u] = "freeFailed" => \A o \in posted' : o.op # "write"
  <2>1. ASSUME NEW u \in Threads \ {t}
        PROVE  /\ Carrying(u)' => job'[u].msg \in Alive'
               /\ pc'[u] \in {"wsaSend", "writeFailed", "freeFailed"} => writeContext' # 0
               /\ pc'[u] = "freeFailed" => \A o \in posted' : o.op # "write"
    <3>1. Carrying(u)' <=> Carrying(u)
      BY <1>1 DEF Carrying
    <3> QED
      BY <1>1, <1>2, <3>1 DEF MessageInv
  <2>2. /\ Carrying(t)' => job'[t].msg \in Alive'
        /\ pc'[t] \in {"wsaSend", "writeFailed", "freeFailed"} => writeContext' # 0
        /\ pc'[t] = "freeFailed" => \A o \in posted' : o.op # "write"
    BY <1>2 DEF CarryLabels, Carrying
  <2> QED
    BY <2>1, <2>2
<1> QED
  BY <1>2, <1>3 DEF MessageInv

LEMMA MessageKeepsPlain ==
  ASSUME Inv, QueueInv, MessageInv, NEW t \in Threads, Acts(t),
         \/ Cleans(t) \/ Send(t) \/ Close(t) \/ Shutdown(t) \/ EndOnConnection(t) \/ StartFails(t)
         \/ GoReading(t) \/ RecvRejected(t) \/ EndMessage(t) \/ ConnectRefused(t)
         \/ GoWriting(t) \/ PopNothing(t) \/ HasMore(t) \/ ErrorTail(t) \/ ShutdownState(t)
         \/ AddTimer(t) \/ Connect(t) \/ Start(t) \/ CountIo(t) \/ OnRead(t) \/ OnConnect(t)
         \/ ConnectPending(t) \/ RecvAccepted(t)
  PROVE  MessageInv'
<1>0. ThreadInv /\ home[t] \in {"idle", "onConnection", "message"}
  BY DEF Inv, ThreadInv
<1>1. /\ UNCHANGED <<freed, writeContext, fault>> /\ ~PopFront(t)
      /\ \A o \in posted' : o.op = "write" => o \in posted
  <2>1. CASE Cleans(t)
    <3>1. pc[t] # "pop"
      BY <1>0, <2>1, CleansFrame DEF ClosingLabels
    <3> QED
      BY <1>0, <2>1, <3>1, CleansFrame DEF sendVars, PopFront, At
  <2>2. CASE \/ Send(t) \/ Close(t) \/ Shutdown(t) \/ EndOnConnection(t) \/ StartFails(t)
         \/ GoReading(t) \/ RecvRejected(t) \/ EndMessage(t) \/ ConnectRefused(t)
         \/ GoWriting(t) \/ PopNothing(t) \/ HasMore(t) \/ ErrorTail(t) \/ ShutdownState(t)
         \/ AddTimer(t) \/ Connect(t) \/ Start(t) \/ CountIo(t) \/ OnRead(t) \/ OnConnect(t)
    <3>1. UNCHANGED <<freed, writeContext, fault, posted>>
      BY <2>2 DEF Send, Close, Shutdown, EndOnConnection, StartFails, GoReading, RecvRejected,
         EndMessage, ConnectRefused, GoWriting, PopNothing, HasMore, ErrorTail, ShutdownState,
         AddTimer, Connect, Start, CountIo, OnRead, OnConnect, dataVars, sendVars,
         kernelVars, opVars, historyVars
    <3>2. ~PopFront(t)
      BY <1>0, <2>2 DEF Send, Close, Shutdown, EndOnConnection, StartFails, GoReading, RecvRejected,
         EndMessage, ConnectRefused, GoWriting, PopNothing, HasMore, ErrorTail, ShutdownState,
         AddTimer, Connect, Start, CountIo, OnRead, OnConnect, InUserCode, At, PopFront
    <3> QED
      BY <3>1, <3>2
  <2>3. CASE ConnectPending(t) \/ RecvAccepted(t)
    <3>1. PICK op \in {"connect", "read"} :
            posted' = posted \union {[op |-> op, msg |-> 0, sock |-> handle]}
      BY <2>3 DEF ConnectPending, RecvAccepted, Issue
    <3> QED
      BY <2>3, <3>1 DEF ConnectPending, RecvAccepted, At, PopFront, sendVars, historyVars
  <2> QED
    BY <2>1, <2>2, <2>3
<1>2. pc'[t] \notin CarryLabels
  <2>1. CASE Cleans(t)
    BY <1>0, <2>1, CleansFrame DEF ClosingLabels, CarryLabels
  <2>2. CASE \/ Send(t) \/ Close(t) \/ Shutdown(t) \/ ShutdownState(t) \/ AddTimer(t)
             \/ StartFails(t) \/ GoReading(t) \/ ConnectRefused(t) \/ GoWriting(t) \/ PopNothing(t)
             \/ HasMore(t) \/ Connect(t) \/ Start(t) \/ CountIo(t) \/ ConnectPending(t)
             \/ RecvAccepted(t)
    BY <1>0, <2>2 DEF Send, Close, Shutdown, ShutdownState, AddTimer, StartFails, GoReading,
       ConnectRefused, GoWriting, PopNothing, HasMore, Connect, Start, CountIo, ConnectPending,
       RecvAccepted, Return, Go, ThreadInv, CarryLabels
  <2>3. CASE \/ RecvRejected(t) \/ EndOnConnection(t) \/ EndMessage(t) \/ ErrorTail(t)
             \/ OnRead(t) \/ OnConnect(t)
    BY <1>0, <2>3 DEF RecvRejected, EndOnConnection, EndMessage, ErrorTail, OnRead, OnConnect, Return,
       Go, GoWith, Resume, CallUser, ThreadInv, CarryLabels
  <2> QED
    BY <2>1, <2>2, <2>3
<1>3. taken' = taken
  BY <1>1, QueueKeeps
<1> QED
  BY <1>0, <1>1, <1>2, <1>3, MessageStays

\* A packet is dequeued or counted down, or WSASend has failed.
LEMMA MessageKeepsTaken ==
  ASSUME Inv, JobInv, QueueInv, MessageInv, NEW t \in Threads, Acts(t),
         Dispatch(t) \/ DecrIo(t) \/ SendRejected(t) \/ WriteFailed(t)
  PROVE  MessageInv'
<1>0. ThreadInv /\ WriteInv
  BY DEF Inv
<1>1. /\ UNCHANGED <<freed, writeContext, fault>> /\ ~PopFront(t)
      /\ posted' \subseteq posted
  BY DEF Dispatch, DecrIo, SendRejected, WriteFailed, At, PopFront, dataVars, sendVars, kernelVars, opVars,
     historyVars
<1>2. taken' = taken
  BY <1>1, QueueKeeps
<1>3. /\ Carrying(t)' => job'[t].msg \in Alive
      /\ pc'[t] \in {"wsaSend", "writeFailed", "freeFailed"} => writeContext # 0
      /\ pc'[t] = "freeFailed" => \A o \in posted : o.op # "write"
  <2>1. CASE Dispatch(t)
    <3>1. PICK o \in posted, outcome \in Errors \union {"eof"} :
            GoWith(t, "decrIo", o.op, o.msg, outcome)
      BY <2>1 DEF Dispatch, Outcomes, Errors
    <3>2. pc'[t] = "decrIo" /\ job'[t].op = o.op /\ job'[t].msg = o.msg
      BY <1>0, <3>1 DEF GoWith, ThreadInv
    <3> QED
      BY <3>2 DEF MessageInv, Carrying
  <2>2. CASE SendRejected(t)
    <3>1. pc[t] = "wsaSend" /\ pc'[t] = "writeFailed" /\ job'[t].msg = job[t].msg
      BY <1>0, <2>2 DEF SendRejected, At, GoWith, ThreadInv
    <3> QED
      BY <3>1 DEF MessageInv, Carrying
  <2>3. CASE WriteFailed(t)
    <3>1. pc[t] = "writeFailed" /\ pc'[t] = "freeFailed"
      BY <1>0, <2>3 DEF WriteFailed, At, GoWith, ThreadInv
    <3> QED
      BY <1>0, <3>1 DEF MessageInv, Carrying, WriteInv, Writing
  <2>4. CASE DecrIo(t)
    <3>1. /\ pc[t] = "decrIo" /\ job[t].op \in {"connect", "read", "write"}
          /\ pc'[t] = Handler(job[t].op, job[t].err)
      BY <1>0, <2>4 DEF DecrIo, At, Go, ThreadInv
    <3>2. /\ pc'[t] \in {"onConnect", "onRead", "onWrite", "onError"} /\ job'[t] = job[t]
          /\ pc'[t] = "onWrite" => job[t].op = "write"
      BY <1>0, <2>4, <3>1 DEF DecrIo, Go, Handler, ThreadInv
    <3> QED
      BY <3>1, <3>2 DEF MessageInv, Carrying
  <2> QED
    BY <2>1, <2>2, <2>3, <2>4
<1> QED
  BY <1>0, <1>1, <1>2, <1>3, MessageStays

\* A message is taken off the queue, and its buffer cannot have been deleted.
LEMMA MessageKeepsPop ==
  ASSUME ThreadInv, QueueInv, MessageInv, NEW t \in Threads, Acts(t), PopFront(t)
  PROVE  MessageInv'
<1>1. /\ sendQueue # <<>> /\ sendQueue' = Tail(sendQueue) /\ writeContext' = Head(sendQueue)
      /\ UNCHANGED <<pushed, freed, posted, fault>>
      /\ GoWith(t, "wsaSend", "write", Head(sendQueue), "ok")
  BY DEF PopFront, kernelVars, opVars, historyVars
<1>2. /\ Len(sendQueue) \in Nat \ {0} /\ Head(sendQueue) = taken + 1 /\ taken \in Nat
  BY <1>1 DEF QueueInv, taken
<1>3. taken' = taken + 1
  <2>1. Len(sendQueue') = Len(sendQueue) - 1
    BY <1>1 DEF QueueInv
  <2> QED
    BY <1>1, <1>2, <2>1 DEF QueueInv, taken
<1>4. Alive \subseteq Alive' /\ taken + 1 \in Alive'
  BY <1>1, <1>2, <1>3 DEF Alive, MessageInv
<1>5. pc'[t] = "wsaSend" /\ job'[t].msg = taken + 1 /\ writeContext' = taken + 1
  BY <1>1, <1>2 DEF GoWith, ThreadInv
<1>6. \A u \in Threads \ {t} : pc'[u] = pc[u] /\ job'[u] = job[u]
  BY OthersStay
<1>7. \A u \in Threads :
       /\ Carrying(u)' => job'[u].msg \in Alive'
       /\ pc'[u] \in {"wsaSend", "writeFailed", "freeFailed"} => writeContext' # 0
       /\ pc'[u] = "freeFailed" => \A o \in posted' : o.op # "write"
  <2>1. \A u \in Threads \ {t} : Carrying(u)' => job'[u].msg \in Alive'
    BY <1>4, <1>6 DEF MessageInv, Carrying
  <2>2. taken + 1 # 0
    BY <1>2
  <2> QED
    BY <1>1, <1>4, <1>5, <1>6, <2>1, <2>2 DEF MessageInv
<1>8. freed' \subseteq 1..taken' /\ writeContext' \in 0..taken'
  BY <1>1, <1>2, <1>3, <1>5 DEF MessageInv
<1> QED
  BY <1>1, <1>4, <1>7, <1>8 DEF MessageInv
\* A write is over, and nobody else has one.
LEMMA MessageOver ==
  ASSUME ThreadInv, MainInv, OneMain, MessageInv, NEW t \in Threads, t \in Main, Acts(t),
         \A o \in posted' : o.op # "write", taken' = taken, fault' = fault,
         taken \in Nat, NEW m \in 1..taken, freed' = freed \union {m}, writeContext' \in {writeContext, 0},
         pc'[t] \notin CarryLabels
  PROVE  MessageInv'
<1>1. \A u \in Threads : pc'[u] \notin CarryLabels
  BY MainSees DEF ClosingLabels, CarryLabels
<1>2. \A u \in Threads : ~Carrying(u)'
  BY <1>1 DEF Carrying, CarryLabels
<1>3. freed' \subseteq 1..taken' /\ writeContext' \in 0..taken'
  <2>1. freed \subseteq 1..taken /\ writeContext \in 0..taken
    BY DEF MessageInv
  <2>2. 0 \in 0..taken
    OBVIOUS
  <2> QED
    BY <2>1, <2>2
<1> QED
  BY <1>1, <1>2, <1>3 DEF MessageInv, CarryLabels

LEMMA MessageKeepsOver ==
  ASSUME Inv, JobInv, MainInv, OneMain, QueueInv, MessageInv, NEW t \in Threads, t \in Main, Acts(t),
         FreeFailed(t) \/ OnWrite(t) \/ OnError(t)
  PROVE  MessageInv'
<1>0. ThreadInv /\ WriteInv
  BY DEF Inv
<1>1. UNCHANGED <<posted, fault>> /\ pc'[t] \notin CarryLabels
  BY <1>0 DEF FreeFailed, OnWrite, OnError, Go, GoWith, ThreadInv, CarryLabels,
     kernelVars, opVars, historyVars
<1>2. taken' = taken /\ taken \in Nat
  <2>1. taken' = taken
    BY QueueKeeps DEF FreeFailed, OnWrite, OnError, At, PopFront
  <2>2. Len(sendQueue) \in Nat /\ Len(sendQueue) <= pushed /\ pushed \in Nat
    BY DEF QueueInv
  <2> QED
    BY <2>1, <2>2 DEF taken
<1>3. CASE FreeFailed(t)
  <2>1. /\ pc[t] = "freeFailed" /\ writeContext # 0 /\ freed' = freed \union {writeContext}
        /\ writeContext' = 0
    BY <1>3 DEF FreeFailed, At
  <2>2. \A o \in posted' : o.op # "write"
    BY <1>1, <2>1 DEF MessageInv
  <2>3. writeContext \in 1..taken
    BY <2>1 DEF MessageInv
  <2> QED
    BY <1>0, <1>1, <1>2, <2>1, <2>2, <2>3, MessageOver
<1>4. CASE OnWrite(t) \/ (OnError(t) /\ job[t].op = "write")
  <2>1. /\ Carrying(t) /\ Writing(t) /\ freed' = freed \union {job[t].msg}
        /\ writeContext' \in {writeContext, 0}
    BY <1>4 DEF OnWrite, OnError, At, Carrying, Writing, WriteOver
  <2>2. \A o \in posted' : o.op # "write"
    BY <1>0, <1>1, <2>1 DEF WriteInv
  <2>3. job[t].msg \in 1..taken
    BY <2>1 DEF MessageInv, Alive
  <2> QED
    BY <1>0, <1>1, <1>2, <2>1, <2>2, <2>3, MessageOver
<1>5. CASE OnError(t) /\ job[t].op # "write"
  <2>1. UNCHANGED <<freed, writeContext>>
    BY <1>5 DEF OnError
  <2> QED
    BY <1>0, <1>1, <1>2, <2>1, MessageStays
<1> QED
  BY <1>3, <1>4, <1>5

\* WSASend is given the message its thread has taken.
LEMMA MessageKeepsSend ==
  ASSUME Inv, JobInv, MainInv, OneMain, QueueInv, MessageInv, NEW t \in Threads, t \in Main, Acts(t),
         SendAccepted(t)
  PROVE  MessageInv'
<1>0. ThreadInv
  BY DEF Inv
<1>1. /\ UNCHANGED <<freed, writeContext, fault>> /\ pc[t] = "wsaSend" /\ writeContext # 0
      /\ posted' = posted \union {[op |-> "write", msg |-> writeContext, sock |-> handle]}
  BY DEF SendAccepted, Issue, At, sendVars, historyVars
<1>2. taken' = taken
  BY <1>1, QueueKeeps DEF PopFront, At
<1>3. writeContext \in Alive
  BY <1>1 DEF JobInv, JobOf, MessageInv, Carrying
<1>4. Alive' = Alive
  BY <1>1, <1>2 DEF Alive
<1>5. \A o \in posted' : o.op = "write" => o.msg \in Alive'
  BY <1>1, <1>3, <1>4 DEF MessageInv
<1>6. pc'[t] = "countIo"
  BY <1>0 DEF SendAccepted, GoWith, ThreadInv
<1>7. \A u \in Threads : pc'[u] \notin CarryLabels
  BY <1>0, <1>6, MainSees DEF ClosingLabels, CarryLabels
<1>8. \A u \in Threads : ~Carrying(u)'
  BY <1>7 DEF Carrying, CarryLabels
<1> QED
  BY <1>1, <1>2, <1>5, <1>7, <1>8 DEF MessageInv, CarryLabels

LEMMA MessageKeeps ==
  ASSUME Inv, JobInv, MainInv, OneMain, QueueInv, MessageInv, NEW t \in Threads, Acts(t)
  PROVE  MessageInv'
<1>0. ThreadInv
  BY DEF Inv
<1>1. CASE Cleans(t)
  BY <1>1, MessageKeepsPlain
<1>2. CASE ~Cleans(t)
  <2>1. t \in Main
    BY <1>0, <1>2, TimerCleans
  <2> QED
    BY <1>0, <1>2, <2>1, MessageKeepsPlain, MessageKeepsTaken, MessageKeepsPop, MessageKeepsOver,
       MessageKeepsSend
    DEF Acts, UserCall, Step, Cleans
<1> QED
  BY <1>1, <1>2

-----------------------------------------------------------------------------
LEMMA MainInit ==
  ASSUME Init, MaxConnects <= 1
  PROVE  MainAll
<1>1. PICK acceptor \in {{}} \union {{t} : t \in Pollers} :
        /\ opened = (IF acceptor # {} THEN 1 ELSE 0) /\ handle = opened
        /\ stateValue = (IF acceptor # {} THEN "Connecting" ELSE "Disconnected")
        /\ pc = [t \in Threads |-> IF t \in acceptor THEN "onConnection" ELSE "idle"]
        /\ home = pc
  BY DEF Init
<1>2. /\ job = [t \in Threads |-> NoJob] /\ posted = {} /\ channel = 0 /\ ioCount = 0
      /\ pushed = 0 /\ sendQueue = <<>> /\ writeContext = 0 /\ freed = {} /\ closes = <<>>
      /\ fault = "none"
  BY DEF Init
<1>3. \A t \in Threads : pc[t] \in {"onConnection", "idle"} /\ home[t] = pc[t]
  BY <1>1
<1>4. MainInv
  BY <1>1 DEF MainInv, Main
<1>5. LinkInv
  BY <1>1, <1>2, <1>3 DEF LinkInv, LinkedLabels, Dequeued
<1>6. CountInv
  BY <1>2, FS_EmptySet DEF CountInv
<1>7. QueueInv
  BY <1>2 DEF QueueInv, taken
<1>8. MessageInv
  BY <1>2, <1>3 DEF MessageInv, Carrying, Alive, taken
<1> QED
  BY <1>4, <1>5, <1>6, <1>7, <1>8 DEF MainAll

\* write_ol_context_ is there when its thread uses it, and a buffer is deleted once.
LEMMA MainUndefined ==
  ASSUME Inv, JobInv, MainAll, NEW t \in Threads, Undefined(t)
  PROVE  MainAll' /\ (NullChannel(t) \/ StaleChannel(t))
<1>1. ~NullContext(t) /\ ~DoubleFree(t)
  <2>1. ~NullContext(t)
    BY DEF NullContext, At, MainAll, MessageInv
  <2>2. ASSUME DoubleFree(t)
        PROVE  FALSE
    <3>1. pc[t] \in {"onWrite", "onError"} /\ job[t].msg \in freed
      BY <2>2 DEF DoubleFree, At
    <3>2. job[t].msg # 0
      BY <3>1 DEF MainAll, MessageInv
    <3>3. Carrying(t)
      BY <3>2 DEF JobInv, JobOf
    <3> QED
      BY <3>1, <3>3 DEF MainAll, MessageInv, Alive
  <2> QED
    BY <2>1, <2>2
<1>2. NullChannel(t) \/ StaleChannel(t)
  BY <1>1 DEF Undefined
<1>3. /\ fault' \in {"nullChannel", "staleChannel"}
      /\ UNCHANGED <<linkVars, ioVars, sendVars, threadVars, kernelVars, closes>>
  BY <1>2 DEF NullChannel, StaleChannel, Fails
<1> QED
  BY <1>2, <1>3 DEF MainAll, MainInv, LinkInv, CountInv, QueueInv, MessageInv, Counting, Handling, taken,
     Alive, Carrying, linkVars, ioVars, sendVars, queueVars, threadVars, kernelVars, opVars

LEMMA MainNext ==
  ASSUME Inv, JobInv, MainAll, OneMain, [Next]_vars
  PROVE  MainAll'
<1>0. ThreadInv
  BY DEF Inv
<1>1. CASE UNCHANGED vars
  BY <1>1 DEF MainAll, MainInv, LinkInv, CountInv, QueueInv, MessageInv, Counting, Handling, taken,
     Alive, Carrying, vars, dataVars, linkVars, ioVars, sendVars, queueVars, threadVars, kernelVars,
     opVars, historyVars
<1>2. ASSUME NEW t \in Threads, Acts(t)
      PROVE  MainAll'
  BY <1>0, <1>2, MainKeeps, LinkKeeps, CountKeeps, QueueKeeps, MessageKeeps DEF MainAll
<1>3. ASSUME NEW t \in Threads, Undefined(t)
      PROVE  MainAll'
  BY <1>3, MainUndefined
<1> QED
  BY <1>1, <1>2, <1>3 DEF Next, Acts

-----------------------------------------------------------------------------
\* Beside the timer's thread, one thread that polls and calls keeps the counter, the
\* queue and the contexts in step with the kernel.
THEOREM MainInvariance == OneMain => (Spec => [](Inv /\ JobInv /\ MainAll))
<1>0. OneMain => MaxConnects <= 1
  BY DEF OneMain
<1>1. OneMain /\ Init => JobInv /\ MainAll
  BY <1>0, InitRefines, MainInit
<1>2. OneMain /\ Inv /\ JobInv /\ MainAll /\ [Next]_vars => JobInv' /\ MainAll'
  BY NextRefines, MainNext
<1>3. OneMain => []OneMain
  BY DEF OneMain, Main
<1> QED
  BY <1>0, <1>1, <1>2, <1>3, Invariance, PTL DEF Spec

\* When no thread is in the library, the channel's counter is the number of operations
\* the kernel holds.
THEOREM CounterExact == OneMain => (Spec => []IoCounted)
<1>1. Inv /\ MainAll => IoCounted
  <2> SUFFICES ASSUME Inv, MainAll, channel # 0, \A t \in Threads : pc[t] = home[t]
               PROVE  ioCount = Cardinality(OnSocket(channel))
    BY DEF IoCounted
  <2>1. ~Counting /\ ~Handling
    BY DEF Inv, ThreadInv, Counting, Handling, Dequeued
  <2>2. OnSocket(channel) = posted
    BY DEF MainAll, LinkInv, OnSocket
  <2>3. Cardinality(posted) \in Nat
    BY FS_CardinalityType DEF MainAll, CountInv
  <2> QED
    BY <2>1, <2>2, <2>3 DEF MainAll, CountInv
<1> QED
  BY <1>1, MainInvariance, PTL

\* The kernel never sends from a buffer that was deleted.
THEOREM BuffersOutlive == OneMain => (Spec => []BufferOutlivesWrite)
<1>1. MainAll => BufferOutlivesWrite
  BY DEF MainAll, MessageInv, Alive, BufferOutlivesWrite
<1> QED
  BY <1>1, MainInvariance, PTL
-----------------------------------------------------------------------------
\* Nothing else works for the connection: the timer's thread has no close timeout to
\* call, or the thread that polls is the timer's too.
OneThread == OneMain /\ (CloseTimeout => TimerThreads \subseteq Main)

\* cleanup_() has begun and not ended.
ChainLabels == ClosingLabels \ {"cleanup"}

\* The threads beside the main one have nothing to do.
IdleInv ==
  /\ \A t \in Threads \ Main : pc[t] = "idle"
  /\ timers # {} \/ (\E t \in Threads : pc[t] = "addTimer") => CloseTimeout

\* What a thread reports is an error of the library.
ErrorInv ==
  /\ \A t \in Threads :
       /\ pc[t] \notin {"decrIo", "onRead"} => job[t].err \in Errors
       /\ pc[t] = "decrIo" /\ job[t].err = "eof" => job[t].op = "read"
       /\ pc[t] = "decrIo" => job[t].err \in Errors \union {"eof"}
  /\ cleanupErr \in Errors

\* The socket of the connection is not closed, and outlasts the operations on it.
SocketInv ==
  /\ DOMAIN sock = Sockets
  /\ handle # 0 => handle \in Sockets /\ sock[handle] # "closed"
  /\ posted # {} => handle # 0

\* The cleanup waits for the last operation, and reports what it began with, once.
ReportInv ==
  /\ closes # <<>> =>
       posted = {} /\ cleanupDone /\ ~Counting /\ ~Handling /\ \A t \in Threads : pc[t] # "onRead"
  /\ \A t \in Threads :
       /\ pc[t] \in {"doCleanup", "reset"} => posted = {}
       /\ pc[t] \in ChainLabels => closes = <<>> /\ cleanupDone /\ job[t].err = cause
  /\ cleanupDone /\ closes = <<>> /\ (\A t \in Threads : pc[t] \notin ChainLabels)
       => cleanupErr = cause
  /\ closes # <<>> => closes = <<cause>>
  /\ fault = "none"

SoloAll == IdleInv /\ ErrorInv /\ SocketInv /\ ReportInv

\* The others do nothing.
LEMMA SoloSees ==
  ASSUME ThreadInv, MainInv, IdleInv, OneThread, NEW t \in Threads, Acts(t)
  PROVE  /\ t \in Main
         /\ \A u \in Threads \ {t} :
              pc[u] = "idle" /\ pc'[u] = "idle" /\ home'[u] = home[u] /\ job'[u] = job[u]
<1>1. t \in Main
  <2> SUFFICES ASSUME t \notin Main PROVE FALSE
    OBVIOUS
  <2>1. pc[t] = "idle" /\ t \in TimerThreads
    BY DEF IdleInv, Threads, Main
  <2>2. TimerFires(t)
    BY <2>1, TimerCleans DEF Cleans, Cleanup, CancelTimer, CheckIo, CancelIo, StoreErr, DoCleanup,
       Reset, At
  <2>3. timers # {}
    BY <2>2 DEF TimerFires
  <2> QED
    BY <2>1, <2>3 DEF IdleInv, OneThread
<1>2. \A u \in Threads \ {t} : u \notin Main
  BY <1>1 DEF OneThread, OneMain
<1> QED
  BY <1>1, <1>2, OthersStay DEF IdleInv

LEMMA IdleKeeps ==
  ASSUME ThreadInv, MainInv, IdleInv, OneThread, NEW t \in Threads, Acts(t)
  PROVE  IdleInv'
<1>0. home[t] \in {"idle", "onConnection", "message"}
  BY DEF ThreadInv
<1>1. \A u \in Threads \ Main : pc'[u] = "idle"
  BY SoloSees
<1>2. timers' # {} => timers # {} \/ pc[t] = "addTimer"
  <2>1. CASE UserCall(t)
    BY <2>1 DEF UserCall, Connect, Send, Close, Shutdown, closeVars, timerVars, dataVars
  <2>2. CASE Dispatch(t) \/ TimerFires(t)
    BY <2>2 DEF Dispatch, TimerFires, closeVars, timerVars
  <2>3. CASE Step(t)
    BY <2>3 DEF Step, ConnectPending, ConnectRefused, CountIo, EndOnConnection, Start,
     StartFails, GoReading, RecvAccepted, RecvRejected, DecrIo, OnRead, EndMessage, GoWriting,
     PopNothing, PopFront, SendAccepted, SendRejected, WriteFailed, FreeFailed, OnWrite,
     HasMore, OnConnect, OnError, ErrorTail, ShutdownState, AddTimer, Cleanup, CancelTimer, CheckIo,
     CancelIo, StoreErr, DoCleanup, Reset, closeVars, timerVars, dataVars, At
  <2> QED
    BY <2>1, <2>2, <2>3 DEF Acts
<1>3. pc'[t] = "addTimer" => CloseTimeout
  <2>1. ~ShutdownState(t) => pc'[t] # "addTimer"
    <3>1. CASE UserCall(t)
      BY <1>0, <3>1 DEF UserCall, Connect, Send, Close, Shutdown, Go, ThreadInv
    <3>2. CASE Dispatch(t)
      <4>1. PICK o \in posted, outcome \in Errors \union {"eof"} :
              GoWith(t, "decrIo", o.op, o.msg, outcome)
        BY <3>2 DEF Dispatch, Outcomes, Errors
      <4> QED
        BY <4>1 DEF GoWith, ThreadInv
    <3>3. CASE Cleans(t)
      BY <1>0, <3>3, CleansFrame DEF ClosingLabels
    <3>4. CASE \/ ConnectPending(t) \/ ConnectRefused(t) \/ CountIo(t) \/ Start(t) \/ StartFails(t)
             \/ GoReading(t) \/ RecvAccepted(t) \/ GoWriting(t) \/ PopNothing(t) \/ FreeFailed(t)
             \/ HasMore(t) \/ AddTimer(t)
      BY <1>0, <3>4 DEF ConnectPending, ConnectRefused, CountIo, Start, StartFails, GoReading,
         RecvAccepted, GoWriting, PopNothing, FreeFailed, HasMore, AddTimer, Return, Go, ThreadInv
    <3>5. CASE \/ RecvRejected(t) \/ PopFront(t) \/ SendAccepted(t) \/ SendRejected(t)
             \/ WriteFailed(t) \/ OnWrite(t) \/ OnError(t)
      BY <3>5 DEF RecvRejected, PopFront, SendAccepted, SendRejected, WriteFailed, OnWrite, OnError,
         GoWith, ThreadInv
    <3>6. CASE OnRead(t) \/ OnConnect(t) \/ ErrorTail(t) \/ EndOnConnection(t) \/ EndMessage(t)
      BY <1>0, <3>6 DEF OnRead, OnConnect, ErrorTail, EndOnConnection, EndMessage, Return, Go, GoWith,
         CallUser, Resume, ThreadInv
    <3>7. CASE DecrIo(t)
      <4>1. Handler(job[t].op, job[t].err) # "addTimer"
        BY <3>7 DEF DecrIo, At, Handler, ThreadInv
      <4> QED
        BY <3>7, <4>1 DEF DecrIo, Go, ThreadInv
    <3> QED
      BY <3>1, <3>2, <3>3, <3>4, <3>5, <3>6, <3>7 DEF Acts, Step, Cleans
  <2>2. ShutdownState(t) /\ pc'[t] = "addTimer" => CloseTimeout
    BY <1>0 DEF ShutdownState, Go, ThreadInv
  <2> QED
    BY <2>1, <2>2
<1>4. \A u \in Threads : pc'[u] = "addTimer" => CloseTimeout
  BY <1>3, SoloSees
<1> QED
  BY <1>1, <1>2, <1>4 DEF IdleInv

\* The error of a job comes with the job.
LEMMA ErrorKeeps ==
  ASSUME ThreadInv, ErrorInv, NEW t \in Threads, Acts(t)
  PROVE  ErrorInv'
<1>0. home[t] \in {"idle", "onConnection", "message"}
  BY DEF ThreadInv
<1>1. cleanupErr' \in {cleanupErr, job[t].err} /\ (cleanupErr' # cleanupErr => pc[t] = "storeErr")
  <2>1. CASE UserCall(t)
    BY <2>1 DEF UserCall, Connect, Send, Close, Shutdown, closeVars, dataVars
  <2>2. CASE Dispatch(t) \/ TimerFires(t)
    BY <2>2 DEF Dispatch, TimerFires, closeVars
  <2>3. CASE Step(t)
    BY <2>3 DEF Step, ConnectPending, ConnectRefused, CountIo, EndOnConnection, Start,
     StartFails, GoReading, RecvAccepted, RecvRejected, DecrIo, OnRead, EndMessage, GoWriting,
     PopNothing, PopFront, SendAccepted, SendRejected, WriteFailed, FreeFailed, OnWrite,
     HasMore, OnConnect, OnError, ErrorTail, ShutdownState, AddTimer, Cleanup, CancelTimer, CheckIo,
     CancelIo, StoreErr, DoCleanup, Reset, closeVars, dataVars, At
  <2> QED
    BY <2>1, <2>2, <2>3 DEF Acts
<1>2. /\ pc'[t] \notin {"decrIo", "onRead"} => job'[t].err \in Errors
      /\ pc'[t] = "decrIo" /\ job'[t].err = "eof" => job'[t].op = "read"
      /\ pc'[t] = "decrIo" => job'[t].err \in Errors \union {"eof"}
  <2>0. /\ job[t].err \in Errors \/ pc[t] \in {"decrIo", "onRead"}
        /\ NoJob.err \in Errors /\ {"ok", "timeout", "net", "notsock", "shutdown"} \subseteq Errors
        /\ "eof" \notin Errors
    BY DEF ErrorInv, NoJob, Errors
  <2>1. ASSUME \E to : Go(t, to), pc[t] \notin {"decrIo", "onRead"}
        PROVE  job'[t].err \in Errors /\ job'[t].err # "eof"
    BY <2>0, <2>1 DEF Go, ThreadInv
  <2>2. ASSUME NEW err \in Errors, \E to, op, msg : GoWith(t, to, op, msg, err)
        PROVE  job'[t].err \in Errors /\ job'[t].err # "eof"
    BY <2>0, <2>2 DEF GoWith, ThreadInv
  <2>3. CASE UserCall(t)
    BY <1>0, <2>1, <2>3 DEF UserCall, Connect, Send, Close, Shutdown, InUserCode, At
  <2>4. CASE TimerFires(t)
    BY <2>0, <2>2, <2>4 DEF TimerFires
  <2>5. CASE Dispatch(t)
    <3>1. PICK o \in posted, outcome \in Errors \union {"eof"} :
            /\ GoWith(t, "decrIo", o.op, o.msg, outcome)
            /\ outcome = "eof" => o.op = "read"
      BY <2>5 DEF Dispatch, Outcomes, Errors
    <3>2. pc'[t] = "decrIo" /\ job'[t].err = outcome /\ job'[t].op = o.op
      BY <3>1 DEF GoWith, ThreadInv
    <3> QED
      BY <3>1, <3>2
  <2>6. CASE \/ ConnectPending(t) \/ ConnectRefused(t) \/ CountIo(t) \/ Start(t) \/ StartFails(t)
             \/ GoReading(t) \/ RecvAccepted(t) \/ GoWriting(t) \/ PopNothing(t) \/ FreeFailed(t)
             \/ HasMore(t) \/ AddTimer(t) \/ ShutdownState(t) \/ Cleanup(t) \/ CancelTimer(t)
             \/ CheckIo(t) \/ CancelIo(t) \/ StoreErr(t) \/ DoCleanup(t) \/ Reset(t)
    BY <2>1, <2>6 DEF ConnectPending, ConnectRefused, CountIo, Start, StartFails, GoReading,
       RecvAccepted, GoWriting, PopNothing, FreeFailed, HasMore, AddTimer, ShutdownState, Cleanup,
       CancelTimer, CheckIo, CancelIo, StoreErr, DoCleanup, Reset, Return, At
  <2>7. CASE \/ RecvRejected(t) \/ PopFront(t) \/ SendAccepted(t) \/ WriteFailed(t) \/ OnWrite(t)
             \/ OnError(t)
    BY <2>0, <2>2, <2>7 DEF RecvRejected, PopFront, SendAccepted, WriteFailed, OnWrite, OnError, At
  <2>8. CASE SendRejected(t)
    <3>1. PICK err \in {"notsock", "shutdown", "net"} : GoWith(t, "writeFailed", "write", job[t].msg, err)
      BY <2>8 DEF SendRejected
    <3> QED
      BY <2>0, <2>2, <3>1
  <2>9. CASE ErrorTail(t)
    <3>1. cleanupErr \in Errors /\ pc[t] \notin {"decrIo", "onRead"}
      BY <2>9 DEF ErrorInv, ErrorTail, At
    <3> QED
      BY <2>1, <2>2, <2>9, <3>1 DEF ErrorTail, Return
  <2>10. CASE OnConnect(t)
    BY <2>0, <2>1, <2>2, <2>10 DEF OnConnect, At
  <2>11. CASE OnRead(t)
    BY <2>0, <2>2, <2>11 DEF OnRead, CallUser, ThreadInv
  <2>12. CASE EndOnConnection(t) \/ EndMessage(t)
    BY <2>0, <2>12 DEF EndOnConnection, EndMessage, Resume, At
  <2>13. CASE DecrIo(t)
    <3>1. /\ pc[t] = "decrIo" /\ job[t].op \in {"connect", "read", "write"}
          /\ pc'[t] = Handler(job[t].op, job[t].err)
      BY <2>13 DEF DecrIo, At, Go, ThreadInv
    <3>2. pc'[t] # "decrIo" /\ (pc'[t] # "onRead" => job[t].err # "eof")
      BY <3>1 DEF Handler, ErrorInv
    <3>3. job'[t].err = job[t].err \/ job'[t] = NoJob
      BY <2>13 DEF DecrIo, Go, ThreadInv
    <3> QED
      BY <2>0, <3>1, <3>2, <3>3 DEF ErrorInv
  <2> QED
    BY <2>3, <2>4, <2>5, <2>6, <2>7, <2>8, <2>9, <2>10, <2>11, <2>12, <2>13 DEF Acts, Step
<1>3. cleanupErr' \in Errors
  BY <1>1 DEF ErrorInv
<1> QED
  BY <1>2, <1>3, OthersStay DEF ErrorInv
-----------------------------------------------------------------------------
\* Without a channel there is no operation: there was none yet, or none is left.
LEMMA NoneWithoutChannel ==
  ASSUME LinkInv, ReportInv, channel = 0
  PROVE  posted = {}
BY DEF LinkInv, ReportInv

LEMMA SocketKeeps ==
  ASSUME Inv, LinkInv, OneThread, SocketInv, ReportInv, NEW t \in Threads, Acts(t)
  PROVE  SocketInv'
<1>1. CASE UNCHANGED <<sock, handle>> /\ (posted' \subseteq posted \/ handle # 0)
  BY <1>1 DEF SocketInv
<1>2. CASE posted' = {} /\ handle' = 0 /\ DOMAIN sock' = DOMAIN sock
  BY <1>2 DEF SocketInv
<1>3. ASSUME UNCHANGED <<handle, posted>>,
             sock' = sock \/ \E how \in {"half", "connected"} : sock' = [sock EXCEPT ![handle] = how]
      PROVE  SocketInv'
  BY <1>3 DEF SocketInv
<1>4. CASE UserCall(t)
  <2>1. CASE Connect(t)
    <3>1. opened < MaxConnects /\ opened' = opened + 1 /\ handle' = opened'
          /\ sock' = [sock EXCEPT ![opened'] = "unconnected"]
      BY <2>1 DEF Connect, SocketBecomes
    <3>2. handle' = 1 /\ 1 \in Sockets
      BY <3>1, IOCPConnAssumption DEF LinkInv, OneThread, OneMain, Sockets
    <3> QED
      BY <3>1, <3>2 DEF SocketInv
  <2>2. CASE Send(t) \/ Close(t)
    BY <1>1, <2>2 DEF Send, Close, dataVars, linkVars, kernelVars, opVars
  <2>3. CASE Shutdown(t)
    BY <1>3, <2>3 DEF Shutdown, ShutdownSend, SocketBecomes, linkVars, opVars
  <2> QED
    BY <1>4, <2>1, <2>2, <2>3 DEF UserCall
<1>5. CASE Dispatch(t) \/ TimerFires(t)
  BY <1>1, <1>5 DEF Dispatch, TimerFires, linkVars, kernelVars, opVars
<1>6. CASE ConnectRefused(t) \/ StartFails(t) \/ DoCleanup(t)
  <2>1. /\ posted' = posted /\ handle' = 0
        /\ sock' = sock \/ sock' = [sock EXCEPT ![handle] = "closed"]
    BY <1>6 DEF ConnectRefused, StartFails, DoCleanup, SocketBecomes, opVars
  <2>2. posted = {}
    <3>1. StartFails(t) => channel = 0
      BY DEF StartFails
    <3> QED
      BY <1>6, <3>1, NoneWithoutChannel DEF ConnectRefused, DoCleanup, At, LinkInv, ReportInv
  <2> QED
    BY <1>2, <2>1, <2>2
<1>7. CASE CancelTimer(t) \/ OnConnect(t)
  BY <1>3, <1>7 DEF CancelTimer, OnConnect, ShutdownSend, SocketBecomes, linkVars, opVars
<1>8. CASE ConnectPending(t) \/ RecvAccepted(t) \/ SendAccepted(t)
  BY <1>1, <1>8 DEF ConnectPending, RecvAccepted, SendAccepted, linkVars
<1>9. CASE \/ CountIo(t) \/ EndOnConnection(t) \/ Start(t) \/ GoReading(t) \/ RecvRejected(t)
           \/ DecrIo(t) \/ OnRead(t) \/ EndMessage(t) \/ GoWriting(t) \/ PopNothing(t) \/ PopFront(t)
           \/ SendRejected(t) \/ WriteFailed(t) \/ FreeFailed(t) \/ OnWrite(t) \/ HasMore(t)
           \/ OnError(t) \/ ErrorTail(t) \/ ShutdownState(t) \/ AddTimer(t) \/ Cleanup(t)
           \/ CheckIo(t) \/ CancelIo(t) \/ StoreErr(t) \/ Reset(t)
  BY <1>1, <1>9 DEF CountIo, EndOnConnection, Start, GoReading, RecvRejected, DecrIo, OnRead, EndMessage,
     GoWriting, PopNothing, PopFront, SendRejected, WriteFailed, FreeFailed, OnWrite, HasMore,
     OnError, ErrorTail, ShutdownState, AddTimer, Cleanup, CheckIo, CancelIo, StoreErr, Reset,
     dataVars, linkVars, kernelVars, opVars
<1> QED
  BY <1>4, <1>5, <1>6, <1>7, <1>8, <1>9 DEF Acts, Step

-----------------------------------------------------------------------------
\* Steps outside the cleanup.
LEMMA ReportStays ==
  ASSUME ThreadInv, MainInv, IdleInv, OneThread, ReportInv, NEW t \in Threads, Acts(t),
         UNCHANGED <<closes, cleanupDone, cleanupErr, cause, fault>>,
         pc[t] \notin ChainLabels, pc'[t] \notin ChainLabels,
         closes # <<>> => posted' = {} /\ pc'[t] \notin Dequeued \union {"countIo", "onRead"}
  PROVE  ReportInv'
<1>1. \A u \in Threads : pc[u] \notin ChainLabels /\ pc'[u] \notin ChainLabels
  BY SoloSees DEF ChainLabels, ClosingLabels
<1>2. closes # <<>> => ~Counting' /\ ~Handling' /\ \A u \in Threads : pc'[u] # "onRead"
  BY SoloSees DEF Counting, Handling, Dequeued
<1>3. \A u \in Threads : pc'[u] \notin {"doCleanup", "reset"}
  BY <1>1 DEF ChainLabels, ClosingLabels
<1> QED
  BY <1>1, <1>2, <1>3 DEF ReportInv

LEMMA ReportKeepsPlain ==
  ASSUME Inv, MainInv, IdleInv, OneThread, ReportInv, NEW t \in Threads, Acts(t),
         \/ UserCall(t) \/ TimerFires(t) \/ ConnectRefused(t) \/ CountIo(t)
         \/ EndOnConnection(t) \/ Start(t) \/ StartFails(t) \/ GoReading(t) \/ RecvRejected(t)
         \/ OnRead(t) \/ EndMessage(t) \/ GoWriting(t) \/ PopNothing(t) \/ PopFront(t)
         \/ SendRejected(t) \/ WriteFailed(t) \/ FreeFailed(t) \/ OnWrite(t) \/ HasMore(t)
         \/ OnConnect(t) \/ OnError(t) \/ ShutdownState(t) \/ AddTimer(t)
  PROVE  ReportInv'
<1>0. ThreadInv /\ home[t] \in {"idle", "onConnection", "message"}
  BY DEF Inv, ThreadInv
<1>1. UNCHANGED <<closes, cleanupDone, cleanupErr, cause, fault, posted>>
  BY DEF UserCall, Connect, Send, Close, Shutdown, TimerFires, ConnectRefused, CountIo,
     EndOnConnection, Start, StartFails, GoReading, RecvRejected, OnRead, EndMessage, GoWriting,
     PopNothing, PopFront, SendRejected, WriteFailed, FreeFailed, OnWrite, HasMore, OnConnect,
     OnError, ShutdownState, AddTimer, dataVars, closeVars, kernelVars, opVars,
     historyVars
<1>2. pc[t] \notin ChainLabels
  BY <1>0 DEF UserCall, Connect, Send, Close, Shutdown, TimerFires, ConnectRefused, CountIo,
     EndOnConnection, Start, StartFails, GoReading, RecvRejected, OnRead, EndMessage, GoWriting,
     PopNothing, PopFront, SendRejected, WriteFailed, FreeFailed, OnWrite, HasMore, OnConnect,
     OnError, ShutdownState, AddTimer, InUserCode, At, ChainLabels, ClosingLabels
<1>3. pc'[t] \notin ChainLabels \union Dequeued \union {"countIo", "onRead"}
  <2> DEFINE Fine == {"idle", "onConnection", "message", "connectEx", "goWriting", "cleanup",
                      "shutdownState", "addTimer", "start", "goReading", "recv", "pop", "wsaSend",
                      "writeFailed", "freeFailed", "hasMore", "errorTail"}
  <2> SUFFICES pc'[t] \in Fine
    BY DEF ChainLabels, ClosingLabels, Dequeued
  <2>1. CASE UserCall(t)
    BY <1>0, <2>1 DEF UserCall, Connect, Send, Close, Shutdown, Go, ThreadInv
  <2>2. CASE \/ ConnectRefused(t) \/ CountIo(t) \/ Start(t) \/ StartFails(t) \/ GoReading(t)
             \/ GoWriting(t) \/ PopNothing(t) \/ FreeFailed(t) \/ HasMore(t) \/ AddTimer(t)
             \/ ShutdownState(t)
    BY <1>0, <2>2 DEF ConnectRefused, CountIo, Start, StartFails, GoReading, GoWriting,
       PopNothing, FreeFailed, HasMore, AddTimer, ShutdownState, Return, Go, ThreadInv
  <2>3. CASE \/ TimerFires(t) \/ RecvRejected(t) \/ PopFront(t) \/ SendRejected(t) \/ WriteFailed(t)
             \/ OnWrite(t) \/ OnError(t)
    BY <1>0, <2>3 DEF TimerFires, RecvRejected, PopFront, SendRejected, WriteFailed, OnWrite,
       OnError, GoWith, ThreadInv
  <2>4. CASE OnRead(t) \/ OnConnect(t) \/ EndOnConnection(t) \/ EndMessage(t)
    BY <1>0, <2>4 DEF OnRead, OnConnect, EndOnConnection, EndMessage, Go, GoWith, CallUser, Resume,
       ThreadInv
  <2> QED
    BY <2>1, <2>2, <2>3, <2>4
<1> QED
  BY <1>0, <1>1, <1>2, <1>3, ReportStays DEF ReportInv

\* The kernel gets or returns an operation, or it is counted down: the end has not been reported.
LEMMA ReportKeepsKernel ==
  ASSUME Inv, MainInv, IdleInv, OneThread, ReportInv, NEW t \in Threads, Acts(t),
         ConnectPending(t) \/ RecvAccepted(t) \/ SendAccepted(t) \/ Dispatch(t) \/ DecrIo(t)
  PROVE  ReportInv'
<1>0. ThreadInv /\ EndInv
  BY DEF Inv
<1>1. UNCHANGED <<closes, cleanupDone, cleanupErr, cause, fault>>
  BY DEF ConnectPending, RecvAccepted, SendAccepted, Dispatch, DecrIo, closeVars, historyVars
<1>2. closes = <<>>
  BY <1>0 DEF ConnectPending, RecvAccepted, SendAccepted, Dispatch, DecrIo, At, ReportInv, Handling, Dequeued, EndInv
<1>3. pc[t] \notin ChainLabels
  BY DEF ConnectPending, RecvAccepted, SendAccepted, Dispatch, DecrIo, At, ChainLabels, ClosingLabels
<1>4. pc'[t] \notin ChainLabels
  <2>1. CASE ConnectPending(t) \/ RecvAccepted(t) \/ SendAccepted(t)
    BY <1>0, <2>1 DEF ConnectPending, RecvAccepted, SendAccepted, Go, GoWith, ThreadInv, ChainLabels,
       ClosingLabels
  <2>2. CASE Dispatch(t)
    <3>1. PICK o \in posted, outcome \in Errors \union {"eof"} :
            GoWith(t, "decrIo", o.op, o.msg, outcome)
      BY <2>2 DEF Dispatch, Outcomes, Errors
    <3> QED
      BY <1>0, <3>1 DEF GoWith, ThreadInv, ChainLabels, ClosingLabels
  <2>3. CASE DecrIo(t)
    <3>1. Handler(job[t].op, job[t].err) \in {"onConnect", "onRead", "onWrite", "onError"}
      BY <1>0, <2>3 DEF DecrIo, At, Handler, ThreadInv
    <3> QED
      BY <1>0, <2>3, <3>1 DEF DecrIo, Go, ThreadInv, ChainLabels, ClosingLabels
  <2> QED
    BY <2>1, <2>2, <2>3
<1> QED
  BY <1>0, <1>1, <1>2, <1>3, <1>4, ReportStays
\* Steps of the cleanup.
LEMMA ReportMove ==
  ASSUME ThreadInv, MainInv, IdleInv, OneThread, ReportInv, NEW t \in Threads, Acts(t),
         UNCHANGED <<posted, fault>>, pc'[t] \notin Dequeued \union {"countIo", "onRead"},
         closes' # <<>> => posted = {} /\ cleanupDone' /\ closes' = <<cause'>>,
         pc'[t] \in {"doCleanup", "reset"} => posted = {},
         pc'[t] \in ChainLabels => closes' = <<>> /\ cleanupDone' /\ job'[t].err = cause',
         cleanupDone' /\ closes' = <<>> /\ pc'[t] \notin ChainLabels => cleanupErr' = cause'
  PROVE  ReportInv'
<1>1. \A u \in Threads \ {t} : pc'[u] = "idle"
  BY SoloSees
<1>2. ~Counting' /\ ~Handling' /\ \A u \in Threads : pc'[u] # "onRead"
  BY <1>1 DEF Counting, Handling, Dequeued
<1>3. \A u \in Threads :
       /\ pc'[u] \in {"doCleanup", "reset"} => posted' = {}
       /\ pc'[u] \in ChainLabels => closes' = <<>> /\ cleanupDone' /\ job'[u].err = cause'
  BY <1>1 DEF ChainLabels, ClosingLabels
<1> QED
  BY <1>2, <1>3 DEF ReportInv

\* A channel that counts nothing has nothing outstanding.
LEMMA NothingPending ==
  ASSUME LinkInv, CountInv, ReportInv, ~Counting, ~Handling, ~IoPending
  PROVE  posted = {}
<1>1. CASE channel = 0
  BY <1>1, NoneWithoutChannel
<1>2. CASE channel # 0
  <2>1. Cardinality(posted) = 0
    BY <1>2, FS_CardinalityType DEF CountInv, IoPending
  <2> QED
    BY <2>1, FS_EmptySet DEF CountInv
<1> QED
  BY <1>1, <1>2

LEMMA ReportKeepsChain ==
  ASSUME Inv, JobInv, MainAll, IdleInv, OneThread, ReportInv, NEW t \in Threads, Acts(t),
         \/ Cleanup(t) \/ CancelTimer(t) \/ CheckIo(t) \/ CancelIo(t) \/ StoreErr(t)
         \/ DoCleanup(t) \/ Reset(t) \/ ErrorTail(t)
  PROVE  ReportInv'
<1>0. /\ ThreadInv /\ EndInv /\ MainInv /\ LinkInv /\ CountInv
      /\ home[t] \in {"idle", "onConnection", "message"} /\ cleanupDone \in BOOLEAN
  BY DEF Inv, ThreadInv, MainAll, JobInv
<1>1. /\ UNCHANGED <<posted, fault>>
      /\ \A to : Go(t, to) => pc'[t] = to /\ (to # home[t] => job'[t] = job[t])
  BY <1>0 DEF Cleanup, CancelTimer, CheckIo, CancelIo, StoreErr, DoCleanup, Reset, ErrorTail, dataVars,
     kernelVars, opVars, historyVars, Go, ThreadInv
<1>2. \A u \in Threads \ {t} : pc[u] = "idle"
  BY <1>0, SoloSees
<1>3. pc[t] \notin Dequeued \union {"countIo"} => ~Counting /\ ~Handling
  BY <1>2 DEF Counting, Handling, Dequeued
<1>4. CASE Cleanup(t)
  <2>1. /\ pc[t] = "cleanup" /\ cleanupDone' = TRUE /\ UNCHANGED <<closes, cleanupErr>>
        /\ cause' = (IF cleanupDone THEN cause ELSE job[t].err)
    BY <1>4 DEF Cleanup, At
  <2>2. \A u \in Threads : pc[u] \notin ChainLabels
    BY <1>2, <2>1 DEF ChainLabels, ClosingLabels
  <2>3. CASE cleanupDone
    <3>1. pc'[t] = home[t] /\ cause' = cause
      BY <1>1, <1>4, <2>1, <2>3 DEF Cleanup
    <3>2. pc'[t] \notin ChainLabels /\ pc'[t] \notin Dequeued \union {"countIo", "onRead"}
      BY <1>0, <3>1 DEF ChainLabels, ClosingLabels, Dequeued
    <3> QED
      BY <1>0, <1>1, <2>1, <2>2, <2>3, <3>1, <3>2, ReportMove DEF ReportInv, ChainLabels, ClosingLabels
  <2>4. CASE ~cleanupDone
    <3>1. pc'[t] = "cancelTimer" /\ job'[t] = job[t] /\ cause' = job[t].err
      BY <1>0, <1>1, <1>4, <2>1, <2>4 DEF Cleanup
    <3>2. closes' = <<>>
      BY <2>1, <2>4 DEF ReportInv
    <3> QED
      BY <1>0, <1>1, <2>1, <3>1, <3>2, ReportMove DEF ChainLabels, ClosingLabels, Dequeued
  <2> QED
    BY <1>0, <2>3, <2>4
<1>5. CASE CancelTimer(t) \/ CheckIo(t) \/ CancelIo(t) \/ DoCleanup(t)
  <2>1. /\ UNCHANGED <<closes, cleanupErr, cleanupDone, cause>> /\ pc[t] \in ChainLabels
    BY <1>5 DEF CancelTimer, CheckIo, CancelIo, DoCleanup, At, closeVars, historyVars,
       ChainLabels, ClosingLabels
  <2>2. closes = <<>> /\ cleanupDone /\ job[t].err = cause
    BY <2>1 DEF ReportInv
  <2>3. /\ pc'[t] \in {"checkIo", "cancelIo", "storeErr", "doCleanup", "reset"}
        /\ job'[t] = job[t]
    BY <1>0, <1>1, <1>5 DEF CancelTimer, CheckIo, CancelIo, DoCleanup
  <2>4. pc'[t] \in {"doCleanup", "reset"} => posted = {}
    <3>1. CASE CheckIo(t)
      <4>1. pc[t] = "checkIo" /\ (IoPending => pc'[t] = "cancelIo")
        BY <1>1, <3>1 DEF CheckIo, At
      <4> QED
        BY <1>0, <1>3, <4>1, NothingPending DEF Dequeued
    <3>2. CASE DoCleanup(t)
      BY <3>2 DEF DoCleanup, At, ReportInv
    <3>3. CASE CancelTimer(t) \/ CancelIo(t)
      BY <1>1, <3>3 DEF CancelTimer, CancelIo
    <3> QED
      BY <1>5, <3>1, <3>2, <3>3
  <2> QED
    BY <1>0, <1>1, <2>1, <2>2, <2>3, <2>4, ReportMove DEF ChainLabels, ClosingLabels, Dequeued
<1>6. CASE StoreErr(t)
  <2>1. /\ UNCHANGED <<closes, cleanupDone, cause>> /\ pc[t] \in ChainLabels
        /\ cleanupErr' = job[t].err /\ pc'[t] = home[t]
    BY <1>1, <1>6 DEF StoreErr, Return, At, historyVars, ChainLabels, ClosingLabels
  <2>2. closes = <<>> /\ cleanupErr' = cause
    BY <2>1 DEF ReportInv
  <2>3. pc'[t] \notin ChainLabels /\ pc'[t] \notin Dequeued \union {"countIo", "onRead"}
    BY <1>0, <2>1 DEF ChainLabels, ClosingLabels, Dequeued
  <2> QED
    BY <1>0, <1>1, <2>1, <2>2, <2>3, ReportMove DEF ChainLabels, ClosingLabels
<1>7. CASE Reset(t)
  <2>1. /\ UNCHANGED <<cleanupErr, cleanupDone, cause>> /\ pc[t] = "reset"
        /\ closes' = Append(closes, job[t].err) /\ pc'[t] = home[t]
    BY <1>1, <1>7 DEF Reset, Return, At, closeVars
  <2>2. closes' = <<cause>> /\ cleanupDone /\ posted = {}
    <3>1. closes = <<>> /\ job[t].err = cause /\ cleanupDone /\ posted = {}
      BY <2>1 DEF ReportInv, ChainLabels, ClosingLabels
    <3> QED
      BY <2>1, <3>1
  <2>3. pc'[t] \notin ChainLabels /\ pc'[t] \notin Dequeued \union {"countIo", "onRead"}
    BY <1>0, <2>1 DEF ChainLabels, ClosingLabels, Dequeued
  <2> QED
    BY <1>0, <1>1, <2>1, <2>2, <2>3, ReportMove DEF ChainLabels, ClosingLabels
<1>8. CASE ErrorTail(t)
  <2>1. /\ UNCHANGED <<closes, cleanupErr, cleanupDone, cause>> /\ pc[t] = "errorTail"
    BY <1>8 DEF ErrorTail, At, dataVars, closeVars, historyVars
  <2>2. \A u \in Threads : pc[u] \notin ChainLabels
    BY <1>2, <2>1 DEF ChainLabels, ClosingLabels
  <2>3. CASE pc'[t] \in {"cleanup", home[t]}
    <3>1. pc'[t] \notin ChainLabels /\ pc'[t] \notin Dequeued \union {"countIo", "onRead"}
      BY <1>0, <2>3 DEF ChainLabels, ClosingLabels, Dequeued
    <3> QED
      BY <1>0, <1>1, <2>1, <2>2, <3>1, ReportMove DEF ReportInv, ChainLabels, ClosingLabels
  <2>4. CASE cleanupDone /\ LastOperation /\ GoWith(t, "doCleanup", job[t].op, 0, cleanupErr)
    <3>1. pc'[t] = "doCleanup" /\ job'[t].err = cleanupErr
      BY <1>0, <2>4 DEF GoWith, ThreadInv
    <3>2. closes = <<>> /\ cleanupErr = cause
      BY <1>0, <2>2, <2>4 DEF LastOperation, EndInv, ReportInv
    <3>3. posted = {}
      BY <1>0, <1>3, <2>1, <2>4, NothingPending DEF Dequeued, LastOperation, IoPending
    <3> QED
      BY <1>0, <1>1, <2>1, <2>4, <3>1, <3>2, <3>3, ReportMove DEF Dequeued
  <2> QED
    BY <1>1, <1>8, <2>3, <2>4 DEF ErrorTail, Return
<1> QED
  BY <1>4, <1>5, <1>6, <1>7, <1>8

LEMMA ReportKeeps ==
  ASSUME Inv, JobInv, MainAll, IdleInv, OneThread, ReportInv, NEW t \in Threads, Acts(t)
  PROVE  ReportInv'
BY ReportKeepsPlain, ReportKeepsKernel, ReportKeepsChain DEF Acts, Step, MainAll

\* The channel a step uses exists, and every packet bears the key of that channel.
LEMMA SoloDefined ==
  ASSUME Inv, JobInv, MainAll, SoloAll, NEW t \in Threads
  PROVE  ~Undefined(t)
<1>0. LinkInv /\ ReportInv
  BY DEF MainAll, SoloAll
<1>1. ~NullChannel(t)
  <2> SUFFICES ASSUME NullChannel(t) PROVE FALSE
    OBVIOUS
  <2>1. pc[t] \in Dequeued \union {"countIo"} /\ channel = 0
    BY DEF NullChannel, At, Dequeued
  <2>2. closes = <<>>
    BY <1>0, <2>1 DEF ReportInv, Counting, Handling
  <2> QED
    BY <1>0, <2>1, <2>2 DEF LinkInv, LinkedLabels
<1>2. ~StaleChannel(t)
  <2> SUFFICES ASSUME NEW o \in posted, o.sock # channel PROVE FALSE
    BY DEF StaleChannel
  <2>1. channel = 0
    BY <1>0 DEF LinkInv
  <2> QED
    BY <1>0, <2>1, NoneWithoutChannel
<1>3. ~(NullContext(t) \/ DoubleFree(t))
  <2> SUFFICES ASSUME NullContext(t) \/ DoubleFree(t) PROVE FALSE
    OBVIOUS
  <2>1. Undefined(t)
    BY DEF Undefined
  <2>2. NullChannel(t) \/ StaleChannel(t)
    BY <2>1, MainUndefined
  <2> QED
    BY <1>1, <1>2, <2>2
<1> QED
  BY <1>1, <1>2, <1>3 DEF Undefined

LEMMA SoloInit ==
  ASSUME Init
  PROVE  SoloAll
<1>1. PICK acceptor \in IF Accepted THEN {{}} \union {{t} : t \in Pollers} ELSE {{}} :
        /\ opened = (IF acceptor # {} THEN 1 ELSE 0) /\ handle = opened
        /\ sock = [s \in Sockets |-> IF s <= opened THEN "connected" ELSE "new"]
        /\ pc = [t \in Threads |-> IF t \in acceptor THEN "onConnection" ELSE "idle"]
        /\ home = pc
  BY DEF Init
<1>2. /\ job = [t \in Threads |-> NoJob] /\ posted = {} /\ closes = <<>> /\ timers = {}
      /\ fault = "none" /\ cleanupDone = FALSE /\ cleanupErr = "ok"
  BY DEF Init
<1>3. IdleInv
  BY <1>1, <1>2 DEF IdleInv, Main
<1>4. ErrorInv
  BY <1>2 DEF ErrorInv, NoJob, Errors
<1>5. SocketInv
  BY <1>1, <1>2, IOCPConnAssumption DEF SocketInv, Sockets
<1>6. ReportInv
  BY <1>1, <1>2 DEF ReportInv, ChainLabels, ClosingLabels
<1> QED
  BY <1>3, <1>4, <1>5, <1>6 DEF SoloAll

LEMMA SoloNext ==
  ASSUME Inv, JobInv, MainAll, SoloAll, OneThread, [Next]_vars
  PROVE  SoloAll'
<1>1. CASE UNCHANGED vars
  BY <1>1 DEF SoloAll, IdleInv, ErrorInv, SocketInv, ReportInv, Counting, Handling, vars, dataVars,
     linkVars, closeVars, timerVars, threadVars, kernelVars, opVars, historyVars
<1>2. ASSUME NEW t \in Threads, Acts(t)
      PROVE  SoloAll'
  BY <1>2, IdleKeeps, ErrorKeeps, SocketKeeps, ReportKeeps DEF SoloAll, MainAll, Inv
<1> QED
  BY <1>1, <1>2, SoloDefined DEF Next, Acts

-----------------------------------------------------------------------------
\* Of one thread that polls and calls, with no close timeout beside it, cleanup_() waits
\* for the operations outstanding and reports once what it began with.
THEOREM SoloInvariance == OneThread => (Spec => [](Inv /\ JobInv /\ MainAll /\ SoloAll))
<1>0. OneThread => OneMain
  BY DEF OneThread
<1>1. OneThread /\ Inv /\ JobInv /\ MainAll /\ SoloAll /\ [Next]_vars => SoloAll'
  BY SoloNext
<1>2. OneThread => []OneThread
  BY DEF OneThread, OneMain, Main
<1> QED
  BY <1>0, <1>1, <1>2, SoloInit, MainInvariance, PTL DEF Spec

\* One thread never calls through a channel that is gone, is never given a packet of a
\* destroyed one, and never uses a context or a buffer that was discarded.
THEOREM AllDefined == OneThread => (Spec => []Defined)
<1>1. SoloAll => Defined
  BY DEF SoloAll, ReportInv, Defined
<1> QED
  BY <1>1, SoloInvariance, PTL

\* The socket is closed only when the kernel has given back all operations.
THEOREM CleanupWaits == OneThread => (Spec => []WaitsForPendingIo)
<1>1. MainAll /\ SoloAll => WaitsForPendingIo
  <2> SUFFICES ASSUME MainAll, SoloAll, NEW o \in posted
               PROVE  sock[o.sock] # "closed"
    BY DEF WaitsForPendingIo
  <2>1. o.sock = 1 /\ handle \in {0, 1} /\ handle # 0 /\ sock[handle] # "closed"
    BY DEF MainAll, LinkInv, SoloAll, SocketInv
  <2> QED
    BY <2>1
<1> QED
  BY <1>1, SoloInvariance, PTL

\* on_close_func_ is given the error cleanup_() began with, even when the last
\* completion ends the cleanup.
THEOREM CauseKept == OneThread => (Spec => []CauseReported)
<1>1. SoloAll => CauseReported
  BY DEF SoloAll, ReportInv, CauseReported
<1> QED
  BY <1>1, SoloInvariance, PTL
-----------------------------------------------------------------------------
\* Only do_cleanup_() calls on_close_func_.
LEMMA ClosesSteps ==
  ASSUME Next
  PROVE  closes' = closes \/ \E t \in Threads : Reset(t)
<1>1. ASSUME NEW t \in Threads, Acts(t)
      PROVE  closes' = closes \/ Reset(t)
  BY <1>1 DEF Acts, UserCall, Connect, Send, Close, Shutdown, Dispatch, TimerFires, Step,
     ConnectPending, ConnectRefused, CountIo, EndOnConnection, Start, StartFails, GoReading,
     RecvAccepted, RecvRejected, DecrIo, OnRead, EndMessage, GoWriting, PopNothing, PopFront, SendAccepted,
     SendRejected, WriteFailed, FreeFailed, OnWrite, HasMore, OnConnect, OnError, ErrorTail,
     ShutdownState, AddTimer, Cleanup, CancelTimer, CheckIo, CancelIo, StoreErr, DoCleanup,
     dataVars, historyVars
<1>2. ASSUME NEW t \in Threads, Undefined(t)
      PROVE  closes' = closes
  BY <1>2 DEF Undefined, NullChannel, StaleChannel, NullContext, DoubleFree, Fails
<1> QED
  BY <1>1, <1>2 DEF Next, Acts

\* The threads that run on_message_func_.
Delivering == {t \in Threads : home[t] = "message"}

LEMMA ContractStep ==
  ASSUME Inv, SoloAll, [Next]_vars
  PROVE  [Contract!Next]_(Contract!vars)
<1>0. ThreadInv /\ LineInv
  BY DEF Inv
<1>1. CASE UNCHANGED vars
  BY <1>1 DEF Contract!vars, vars, threadVars, dataVars, historyVars
<1>2. ASSUME NEW t \in Threads, Reset(t)
      PROVE  Contract!End
  <2>1. /\ pc[t] = "reset" /\ closes' = Append(closes, job[t].err) /\ home' = home
    BY <1>2 DEF Reset, Return, Go, At
  <2>2. closes = <<>> /\ job[t].err \in Errors
    BY <2>1 DEF SoloAll, ReportInv, ErrorInv, ChainLabels, ClosingLabels
  <2>3. closes' = <<job[t].err>>
    BY <2>1, <2>2
  <2> QED
    BY <2>1, <2>2, <2>3 DEF Contract!End
<1>3. CASE Next /\ closes' = closes
  <2>1. CASE UNCHANGED home
    BY <1>3, <2>1 DEF Contract!vars
  <2>2. ASSUME NEW t \in Threads, home' = [home EXCEPT ![t] = "idle"]
        PROVE  [Contract!Next]_(Contract!vars)
    <3>1. Delivering' = Delivering \ {t}
      BY <1>0, <2>2 DEF Delivering, ThreadInv
    <3>2. CASE home[t] = "message"
      <4>1. Delivering = {t}
        BY <1>0, <3>2 DEF Delivering, LineInv, OnLine
      <4>2. Contract!Handled
        BY <1>3, <3>1, <4>1 DEF Contract!Handled, Delivering
      <4> QED
        BY <4>2 DEF Contract!Next
    <3>3. CASE home[t] # "message"
      BY <1>3, <3>1, <3>3 DEF Contract!vars, Delivering
    <3> QED
      BY <3>2, <3>3
  <2>3. ASSUME NEW t \in Threads, OnRead(t), CallUser(t)
        PROVE  [Contract!Next]_(Contract!vars)
    <3>1. home[t] # "message" /\ home' = [home EXCEPT ![t] = "message"] /\ home'[t] = "message"
      BY <1>0, <2>3 DEF OnRead, At, ThreadInv, LineLabels, CallUser
    <3>2. closes = <<>> /\ \A u \in Threads : home[u] # "message"
      BY <2>3, <3>1, DeliveryStep DEF OnRead, At, SoloAll, ReportInv
    <3>3. Delivering = {} /\ Delivering' = {t}
      BY <1>0, <3>1, <3>2 DEF Delivering, ThreadInv
    <3>4. Contract!Deliver
      BY <1>3, <3>2, <3>3 DEF Contract!Deliver, Delivering
    <3> QED
      BY <3>4 DEF Contract!Next
  <2> QED
    BY <1>3, <2>1, <2>2, <2>3, HomeSteps
<1> QED
  BY <1>1, <1>2, <1>3, ClosesSteps DEF Contract!Next

\* One thread keeps what Callbacks promises the user: messages one at a time, the end
\* once, and nothing after it.
THEOREM ContractKept == OneThread => (Spec => KeepsContract)
<1>1. Init => Contract!Init
  BY DEF Init, Contract!Init
<1>2. Inv /\ SoloAll /\ [Next]_vars => [Contract!Next]_(Contract!vars)
  BY ContractStep
<1> QED
  BY <1>1, <1>2, SoloInvariance, PTL DEF Spec, KeepsContract, Contract!Spec
====
