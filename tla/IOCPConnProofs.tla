--------------------------- MODULE IOCPConnProofs ---------------------------
(***************************************************************************)
(* Proofs about IOCPConn, for any threads that poll and call: a connection *)
(* that opens one socket has at most one read and one write outstanding,   *)
(* and its messages are delivered one at a time.                           *)
(*                                                                         *)
(* The connect, start(), the first read, each message and each next read   *)
(* follow one another.  Whoever is at this line of control, a thread or an *)
(* operation in the kernel, is alone there.  A write is alone because its  *)
(* thread, or the kernel, has claimed write_in_progress_.                  *)
(*                                                                         *)
(* From there it is shown that the sending half implements SendPath, hence *)
(* has all that SendPathProofs proves of it, and that every variable keeps *)
(* its type: the counter of pending operations is bounded by what was      *)
(* connected, queued and received.                                         *)
(***************************************************************************)
EXTENDS IOCPConn, TLAPS, FiniteSetTheorems, SequenceTheorems

\* Where a thread is at the line of control by its label.
LineLabels == {"connectEx", "onConnect", "start", "goReading", "recv", "onRead"}

\* The thread is at the line of control, or has user code to return to that is.
OnLine(t) ==
  \/ home[t] # "idle"
  \/ pc[t] \in LineLabels
  \/ pc[t] = "decrIo" /\ job[t].op # "write"

\* The thread holds write_in_progress_.
Writing(t) ==
  \/ pc[t] \in {"pop", "wsaSend", "writeFailed", "onWrite"}
  \/ pc[t] \in {"decrIo", "onError"} /\ job[t].op = "write"

\* Threads have a label and somewhere to return to; user code is never inside itself.
ThreadInv ==
  /\ pc \in [Threads -> Labels]
  /\ home \in [Threads -> {"idle", "onConnection", "message"}]
  /\ DOMAIN job = Threads
  /\ \A t \in Threads :
       /\ pc[t] \in LineLabels \union {"idle", "decrIo"} => home[t] = "idle"
       /\ pc[t] = "decrIo" => job[t].op \in {"connect", "read", "write"}
       /\ pc[t] \in {"onConnection", "message"} => home[t] = pc[t]
  /\ \A o \in posted : o.op \in {"connect", "read", "write"}

\* One thread or operation is at the line of control.
LineInv ==
  /\ \A t, u \in Threads : OnLine(t) /\ OnLine(u) => t = u
  /\ \A o \in posted : o.op # "write" => \A t \in Threads : ~OnLine(t)
  /\ \A o, p \in posted : o.op # "write" /\ p.op # "write" => o = p

\* One thread or operation holds write_in_progress_.
WriteInv ==
  /\ writeInProgress \in BOOLEAN
  /\ \A t \in Threads : Writing(t) => writeInProgress
  /\ \A t, u \in Threads : Writing(t) /\ Writing(u) => t = u
  /\ \A o \in posted : o.op = "write" => writeInProgress /\ \A t \in Threads : ~Writing(t)
  /\ \A o, p \in posted : o.op = "write" /\ p.op = "write" => o = p

\* Nothing happens before the socket is opened, and none is left after the end.
EndInv ==
  /\ opened \in Nat
  /\ opened = 0 =>
       /\ \A t \in Threads : pc[t] = "idle" /\ home[t] = "idle"
       /\ stateValue = "Disconnected" /\ posted = {} /\ timers = {}
       /\ closes = <<>>
  /\ \A t \in Threads : pc[t] = "reset" => handle = 0
  /\ closes # <<>> => handle = 0 /\ channel = 0

Inv == ThreadInv /\ LineInv /\ WriteInv /\ EndInv

-----------------------------------------------------------------------------
\* Thread t moves to a label, and no other thread does anything.
MovesTo(t, to, back) ==
  /\ pc' = [pc EXCEPT ![t] = to]
  /\ home' = [home EXCEPT ![t] = back]
  /\ DOMAIN job' = Threads
  /\ \A u \in Threads \ {t} : job'[u] = job[u]

LEMMA GoMoves ==
  ASSUME ThreadInv, NEW t \in Threads, NEW to, Go(t, to)
  PROVE  MovesTo(t, to, home[t]) /\ (to # home[t] => job'[t] = job[t])
BY DEF ThreadInv, Go, MovesTo

LEMMA GoWithMoves ==
  ASSUME ThreadInv, NEW t \in Threads, NEW to, NEW op, NEW msg, NEW err,
         GoWith(t, to, op, msg, err)
  PROVE  MovesTo(t, to, home[t]) /\ job'[t].op = op /\ job'[t].err = err
BY DEF ThreadInv, GoWith, MovesTo

LEMMA UserMoves ==
  ASSUME ThreadInv, NEW t \in Threads
  PROVE  /\ CallUser(t) => MovesTo(t, "message", "message")
         /\ \A to : Resume(t, to) => MovesTo(t, to, "idle")
BY DEF ThreadInv, CallUser, Resume, MovesTo

\* Everybody else keeps what they have.
LEMMA OthersKeep ==
  ASSUME ThreadInv, NEW t \in Threads, NEW to, NEW back, MovesTo(t, to, back)
  PROVE  /\ pc'[t] = to /\ home'[t] = back
         /\ \A u \in Threads \ {t} :
              /\ pc'[u] = pc[u] /\ home'[u] = home[u]
              /\ OnLine(u)' <=> OnLine(u)
              /\ Writing(u)' <=> Writing(u)
<1>1. pc'[t] = to /\ home'[t] = back
  BY DEF ThreadInv, MovesTo
<1>2. \A u \in Threads \ {t} : pc'[u] = pc[u] /\ home'[u] = home[u] /\ job'[u] = job[u]
  BY DEF ThreadInv, MovesTo
<1> QED
  BY <1>1, <1>2 DEF OnLine, Writing

\* The kernel gets no operation, and the thread goes where its label says.
LEMMA ThreadMove ==
  ASSUME ThreadInv, NEW t \in Threads, NEW to \in Labels,
         NEW back \in {"idle", "onConnection", "message"}, MovesTo(t, to, back),
         to \in LineLabels \union {"idle", "decrIo"} => back = "idle",
         to = "decrIo" => job'[t].op \in {"connect", "read", "write"},
         to \in {"onConnection", "message"} => back = to,
         \A o \in posted' : o.op \in {"connect", "read", "write"}
  PROVE  ThreadInv'
<1>1. /\ pc' \in [Threads -> Labels]
      /\ home' \in [Threads -> {"idle", "onConnection", "message"}]
      /\ DOMAIN job' = Threads
  BY DEF ThreadInv, MovesTo
<1>2. \A u \in Threads :
        /\ pc'[u] \in LineLabels \union {"idle", "decrIo"} => home'[u] = "idle"
        /\ pc'[u] = "decrIo" => job'[u].op \in {"connect", "read", "write"}
        /\ pc'[u] \in {"onConnection", "message"} => home'[u] = pc'[u]
  BY OthersKeep DEF ThreadInv, MovesTo
<1> QED
  BY <1>1, <1>2 DEF ThreadInv

\* Nobody comes to the line of control.
LEMMA LineMove ==
  ASSUME ThreadInv, LineInv, NEW t \in Threads, NEW to, NEW back, MovesTo(t, to, back),
         posted' \subseteq posted, OnLine(t)' => OnLine(t)
  PROVE  LineInv'
<1>1. \A u \in Threads : OnLine(u)' => OnLine(u)
  BY OthersKeep
<1> QED
  BY <1>1 DEF LineInv

\* Nobody claims the flag or gives it back.
LEMMA WriteMove ==
  ASSUME ThreadInv, WriteInv, NEW t \in Threads, NEW to, NEW back, MovesTo(t, to, back),
         posted' \subseteq posted, Writing(t)' => Writing(t),
         writeInProgress' = writeInProgress
  PROVE  WriteInv'
<1>1. \A u \in Threads : Writing(u)' => Writing(u)
  BY OthersKeep
<1> QED
  BY <1>1 DEF WriteInv

\* The thread that holds the flag gives it back.
LEMMA WriteReturn ==
  ASSUME ThreadInv, WriteInv, NEW t \in Threads, NEW to, NEW back, MovesTo(t, to, back),
         posted' = posted, Writing(t), ~Writing(t)', writeInProgress' = FALSE
  PROVE  WriteInv'
<1>1. \A u \in Threads : ~Writing(u)'
  BY OthersKeep DEF WriteInv
<1>2. \A o \in posted : o.op # "write"
  BY DEF WriteInv
<1> QED
  BY <1>1, <1>2 DEF WriteInv

\* The socket is opened already.
LEMMA EndMove ==
  ASSUME ThreadInv, EndInv, NEW t \in Threads, NEW to, NEW back, MovesTo(t, to, back),
         opened # 0, opened' = opened, handle' \in {handle, 0}, closes' = closes,
         to = "reset" => handle' = 0,
         closes # <<>> => channel' \in {channel, 0}
  PROVE  EndInv'
<1>1. \A u \in Threads : pc'[u] = "reset" => handle' = 0
  BY OthersKeep DEF EndInv
<1> QED
  BY <1>1 DEF EndInv

-----------------------------------------------------------------------------
\* Labels that neither are on the line of control nor hold the flag nor end anything.
PlainLabels ==
  {"countIo", "shutdownState", "addTimer", "goWriting", "freeFailed", "hasMore",
   "errorTail", "cleanup", "cancelTimer", "checkIo", "cancelIo", "storeErr", "doCleanup"}

\* A thread that is in the library has a socket to be there for.
LEMMA Opened ==
  ASSUME Inv, NEW t \in Threads,
         \/ pc[t] # "idle" \/ stateValue # "Disconnected" \/ posted # {} \/ timers # {}
  PROVE  opened # 0
BY DEF Inv, EndInv

\* Most steps: the thread goes on, or returns, with nothing gained or lost.
LEMMA PlainMove ==
  ASSUME Inv, NEW t \in Threads, NEW to \in PlainLabels \union {home[t]},
         MovesTo(t, to, home[t]), posted' = posted, writeInProgress' = writeInProgress,
         opened # 0, opened' = opened, handle' \in {handle, 0}, closes' = closes,
         closes # <<>> => channel' \in {channel, 0},
         ~Writing(t)
  PROVE  Inv'
<1>0. ThreadInv /\ LineInv /\ WriteInv /\ EndInv
  BY DEF Inv
<1>1. home[t] \in {"idle", "onConnection", "message"}
  BY <1>0 DEF ThreadInv
<1>2. /\ to \in Labels /\ to \notin LineLabels /\ to # "reset"
      /\ to = "idle" => home[t] = "idle"
      /\ to \in {"onConnection", "message"} => home[t] = to
      /\ to \notin {"pop", "wsaSend", "writeFailed", "onWrite", "onError", "decrIo"}
  BY <1>1 DEF PlainLabels, Labels, LineLabels
<1>3. pc'[t] = to /\ home'[t] = home[t]
  BY <1>0, OthersKeep
<1>4. ThreadInv'
  BY <1>0, <1>1, <1>2, ThreadMove DEF ThreadInv
<1>5. LineInv'
  BY <1>0, <1>2, <1>3, LineMove DEF OnLine
<1>6. ~Writing(t)'
  BY <1>2, <1>3 DEF Writing
<1>7. WriteInv'
  BY <1>0, <1>6, WriteMove
<1>8. EndInv'
  BY <1>0, <1>2, EndMove
<1> QED
  BY <1>4, <1>5, <1>7, <1>8 DEF Inv

\* The same when the flag is given back.
LEMMA ReturnMove ==
  ASSUME Inv, NEW t \in Threads, NEW to \in PlainLabels \union {home[t]},
         MovesTo(t, to, home[t]), posted' = posted, writeInProgress' = FALSE,
         UNCHANGED <<opened, handle, channel, closes>>,
         Writing(t)
  PROVE  Inv'
<1>0. ThreadInv /\ LineInv /\ WriteInv /\ EndInv
  BY DEF Inv
<1>1. home[t] \in {"idle", "onConnection", "message"}
  BY <1>0 DEF ThreadInv
<1>2. /\ to \in Labels /\ to \notin LineLabels /\ to # "reset"
      /\ to = "idle" => home[t] = "idle"
      /\ to \in {"onConnection", "message"} => home[t] = to
      /\ to \notin {"pop", "wsaSend", "writeFailed", "onWrite", "onError", "decrIo"}
  BY <1>1 DEF PlainLabels, Labels, LineLabels
<1>3. pc'[t] = to /\ home'[t] = home[t]
  BY <1>0, OthersKeep
<1>4. ThreadInv'
  BY <1>0, <1>1, <1>2, ThreadMove DEF ThreadInv
<1>5. LineInv'
  BY <1>0, <1>2, <1>3, LineMove DEF OnLine
<1>6. ~Writing(t)'
  BY <1>2, <1>3 DEF Writing
<1>7. WriteInv'
  BY <1>0, <1>6, WriteReturn
<1>8. opened # 0
  BY Opened DEF Writing
<1>9. EndInv'
  BY <1>0, <1>2, <1>8, EndMove
<1> QED
  BY <1>4, <1>5, <1>7, <1>9 DEF Inv

-----------------------------------------------------------------------------
\* Steps that only move their thread.
LEMMA ClosingKeeps ==
  ASSUME Inv, NEW t \in Threads,
         \/ Close(t) \/ Shutdown(t) \/ ShutdownState(t) \/ AddTimer(t) \/ TimerFires(t)
         \/ Cleanup(t) \/ CancelTimer(t) \/ CheckIo(t) \/ CancelIo(t) \/ StoreErr(t)
  PROVE  Inv'
<1>0. ThreadInv
  BY DEF Inv
<1>1. UNCHANGED <<opened, handle, channel, posted, writeInProgress, closes>>
  BY DEF Close, Shutdown, ShutdownState, AddTimer, TimerFires, Cleanup, CancelTimer, CheckIo,
         CancelIo, StoreErr, dataVars, linkVars, sendVars, kernelVars, opVars, historyVars
<1>2. opened # 0
  BY Opened DEF Close, Shutdown, ShutdownState, AddTimer, TimerFires, Cleanup, CancelTimer,
                CheckIo, CancelIo, StoreErr, At
<1>3. ~Writing(t)
  BY <1>0 DEF Close, Shutdown, ShutdownState, AddTimer, TimerFires, Cleanup, CancelTimer,
              CheckIo, CancelIo, StoreErr, InUserCode, At, Writing, ThreadInv
<1>4. \E to \in PlainLabels \union {home[t]} : MovesTo(t, to, home[t])
  <2>1. \/ \E to \in PlainLabels \union {home[t]} : Go(t, to)
        \/ GoWith(t, "cleanup", "none", 0, "timeout")
    BY DEF Close, Shutdown, ShutdownState, AddTimer, TimerFires, Cleanup, CancelTimer, CheckIo,
           CancelIo, StoreErr, Return, PlainLabels
  <2> QED
    BY <1>0, <2>1, GoMoves, GoWithMoves DEF PlainLabels
<1> QED
  BY <1>1, <1>2, <1>3, <1>4, PlainMove

\* Other steps that only move their thread, or take it off the line of control.
LEMMA PlainKeeps ==
  ASSUME Inv, NEW t \in Threads,
         \/ ConnectRefused(t) \/ CountIo(t) \/ StartFails(t) \/ RecvRejected(t) \/ Send(t)
         \/ FreeFailed(t) \/ HasMore(t) \/ ErrorTail(t)
  PROVE  Inv'
<1>0. ThreadInv
  BY DEF Inv
<1>1. /\ UNCHANGED <<opened, posted, writeInProgress, closes>>
      /\ handle' \in {handle, 0} /\ channel' \in {channel, 0}
  BY DEF ConnectRefused, CountIo, StartFails, RecvRejected, Send, FreeFailed, HasMore, ErrorTail,
         dataVars, linkVars, sendVars, queueVars, kernelVars, opVars, historyVars
<1>2. opened # 0
  BY Opened DEF ConnectRefused, CountIo, StartFails, RecvRejected, Send, FreeFailed, HasMore,
                ErrorTail, At
<1>3. ~Writing(t)
  BY <1>0 DEF ConnectRefused, CountIo, StartFails, RecvRejected, Send, FreeFailed, HasMore,
              ErrorTail, InUserCode, At, Writing, ThreadInv
<1>4. \E to \in PlainLabels \union {home[t]} : MovesTo(t, to, home[t])
  <2>1. \/ \E to \in PlainLabels \union {home[t]} : Go(t, to)
        \/ \E to \in PlainLabels : \E op, err : GoWith(t, to, op, 0, err)
    BY DEF ConnectRefused, CountIo, StartFails, RecvRejected, Send, FreeFailed, HasMore, ErrorTail,
           Return, PlainLabels
  <2>2. CASE \E to \in PlainLabels \union {home[t]} : Go(t, to)
    BY <1>0, <2>2, GoMoves
  <2>3. CASE \E to \in PlainLabels : \E op, err : GoWith(t, to, op, 0, err)
    BY <1>0, <2>3, GoWithMoves
  <2> QED
    BY <2>1, <2>2, <2>3
<1> QED
  BY <1>1, <1>2, <1>3, <1>4, PlainMove

\* Steps that give the flag back.
LEMMA ReturnKeeps ==
  ASSUME Inv, NEW t \in Threads,
         PopNothing(t) \/ WriteFailed(t) \/ OnWrite(t) \/ (OnError(t) /\ job[t].op = "write")
  PROVE  Inv'
<1>0. ThreadInv
  BY DEF Inv
<1>1. UNCHANGED <<opened, handle, channel, posted, closes>> /\ writeInProgress' = FALSE
  BY DEF PopNothing, WriteFailed, OnWrite, OnError, WriteOver,
         linkVars, kernelVars, opVars, historyVars
<1>2. Writing(t)
  BY DEF PopNothing, WriteFailed, OnWrite, OnError, At, Writing
<1>3. \E to \in PlainLabels \union {home[t]} : MovesTo(t, to, home[t])
  <2>1. \/ Go(t, home[t])
        \/ \E to \in PlainLabels : \E op, err : GoWith(t, to, op, 0, err)
    BY DEF PopNothing, WriteFailed, OnWrite, OnError, Return, PlainLabels
  <2> QED
    BY <1>0, <2>1, GoMoves, GoWithMoves
<1> QED
  BY <1>1, <1>2, <1>3, ReturnMove

\* A failed read or connect.
LEMMA OtherErrorKeeps ==
  ASSUME Inv, NEW t \in Threads, OnError(t), job[t].op # "write"
  PROVE  Inv'
<1>0. ThreadInv
  BY DEF Inv
<1>1. UNCHANGED <<opened, handle, channel, posted, closes, writeInProgress>>
  BY DEF OnError, linkVars, kernelVars, opVars, historyVars
<1>2. ~Writing(t) /\ opened # 0
  BY Opened DEF OnError, At, Writing
<1>3. MovesTo(t, "errorTail", home[t])
  BY <1>0, GoWithMoves DEF OnError
<1> QED
  BY <1>1, <1>2, <1>3, PlainMove DEF PlainLabels

\* What moves its thread along the line of control, and nothing else.
LEMMA LineKeeps ==
  ASSUME Inv, NEW t \in Threads, OnLine(t),
         NEW to \in PlainLabels \union LineLabels \union {"message", "idle"},
         NEW back \in {"idle", "message"}, MovesTo(t, to, back),
         back = "message" <=> to = "message",
         UNCHANGED <<opened, handle, posted, writeInProgress, closes>>,
         closes # <<>> => channel' = channel,
         opened # 0, ~Writing(t)
  PROVE  Inv'
<1>0. ThreadInv /\ LineInv /\ WriteInv /\ EndInv
  BY DEF Inv
<1>1. /\ to \in Labels /\ to # "reset" /\ to # "onConnection"
      /\ to \notin {"pop", "wsaSend", "writeFailed", "onWrite", "onError", "decrIo"}
  BY DEF PlainLabels, Labels, LineLabels
<1>2. pc'[t] = to /\ home'[t] = back
  BY <1>0, OthersKeep
<1>3. ThreadInv'
  BY <1>0, <1>1, ThreadMove DEF ThreadInv, LineLabels
<1>4. LineInv'
  BY <1>0, LineMove
<1>5. ~Writing(t)'
  BY <1>1, <1>2 DEF Writing
<1>6. WriteInv'
  BY <1>0, <1>5, WriteMove
<1>7. EndInv'
  BY <1>0, <1>1, EndMove
<1> QED
  BY <1>3, <1>4, <1>6, <1>7 DEF Inv

LEMMA ReadingKeeps ==
  ASSUME Inv, NEW t \in Threads,
         \/ EndOnConnection(t) \/ Start(t) \/ GoReading(t) \/ OnRead(t) \/ EndMessage(t)
         \/ OnConnect(t)
  PROVE  Inv'
<1>0. ThreadInv /\ EndInv
  BY DEF Inv
<1>1. OnLine(t)
  BY <1>0 DEF EndOnConnection, Start, GoReading, OnRead, EndMessage, OnConnect, At, OnLine,
              LineLabels, ThreadInv
<1>2. UNCHANGED <<opened, handle, posted, writeInProgress, closes>>
  BY DEF EndOnConnection, Start, GoReading, OnRead, EndMessage, OnConnect,
         dataVars, linkVars, sendVars, kernelVars, opVars, historyVars
<1>3. closes # <<>> => channel' = channel
  BY <1>0 DEF EndOnConnection, Start, GoReading, OnRead, EndMessage, OnConnect, EndInv,
              dataVars, linkVars
<1>4. ~Writing(t) /\ opened # 0
  BY Opened DEF EndOnConnection, Start, GoReading, OnRead, EndMessage, OnConnect, At, Writing
<1>5. \E to \in PlainLabels \union LineLabels \union {"message", "idle"}, back \in {"idle", "message"} :
        MovesTo(t, to, back) /\ (back = "message" <=> to = "message")
  <2>1. CASE EndOnConnection(t) \/ EndMessage(t)
    <3>1. Resume(t, "start") \/ Resume(t, "cleanup") \/ Resume(t, "goReading")
      BY <2>1 DEF EndOnConnection, EndMessage
    <3> QED
      BY <1>0, <3>1, UserMoves DEF PlainLabels, LineLabels
  <2>2. CASE OnRead(t)
    <3>1. home[t] = "idle"
      BY <1>0, <2>2 DEF OnRead, At, ThreadInv, LineLabels
    <3>2. GoWith(t, "cleanup", "read", 0, "ok") \/ CallUser(t)
      BY <2>2 DEF OnRead
    <3> QED
      BY <1>0, <3>1, <3>2, UserMoves, GoWithMoves DEF PlainLabels
  <2>3. CASE Start(t) \/ GoReading(t)
    <3>1. home[t] = "idle"
      BY <1>0, <2>3 DEF Start, GoReading, At, ThreadInv, LineLabels
    <3>2. Go(t, "idle") \/ Go(t, "goReading") \/ Go(t, "recv")
      BY <2>3, <3>1 DEF Start, GoReading
    <3> QED
      BY <1>0, <3>1, <3>2, GoMoves DEF LineLabels
  <2>4. CASE OnConnect(t)
    <3>1. home[t] = "idle"
      BY <1>0, <2>4 DEF OnConnect, At, ThreadInv, LineLabels
    <3>2. Go(t, "start") \/ \E err : GoWith(t, "cleanup", "connect", 0, err)
      BY <2>4 DEF OnConnect
    <3> QED
      BY <1>0, <3>1, <3>2, GoMoves, GoWithMoves DEF LineLabels, PlainLabels
  <2> QED
    BY <2>1, <2>2, <2>3, <2>4
<1> QED
  BY <1>1, <1>2, <1>3, <1>4, <1>5, LineKeeps

-----------------------------------------------------------------------------
\* The socket is opened, once: nobody is at the line of control yet.
LEMMA ConnectKeeps ==
  ASSUME Inv, MaxConnects <= 1, NEW t \in Threads, Connect(t)
  PROVE  Inv'
<1>0. ThreadInv /\ LineInv /\ WriteInv /\ EndInv
  BY DEF Inv
<1>1. opened = 0 /\ opened' = 1
  BY <1>0, IOCPConnAssumption DEF Connect, EndInv
<1>2. /\ \A u \in Threads : pc[u] = "idle" /\ home[u] = "idle"
      /\ posted' = {} /\ closes' = <<>> /\ writeInProgress' = writeInProgress
  BY <1>0, <1>1 DEF Connect, EndInv, opVars, historyVars, sendVars
<1>3. MovesTo(t, "connectEx", "idle")
  BY <1>0, <1>2, GoMoves DEF Connect
<1>4. /\ pc'[t] = "connectEx"
      /\ \A u \in Threads : ~Writing(u)'
      /\ \A u \in Threads : u # t => ~OnLine(u)'
      /\ \A u \in Threads : pc'[u] # "reset"
  BY <1>0, <1>2, <1>3, OthersKeep DEF OnLine, Writing, LineLabels
<1>5. ThreadInv'
  BY <1>0, <1>2, <1>3, ThreadMove DEF Labels, LineLabels
<1>6. LineInv' /\ WriteInv'
  BY <1>0, <1>2, <1>4 DEF LineInv, WriteInv
<1>7. EndInv'
  BY <1>1, <1>2, <1>4 DEF EndInv
<1> QED
  BY <1>5, <1>6, <1>7 DEF Inv

\* The kernel takes over the place on the line of control.
LEMMA IssueKeeps ==
  ASSUME Inv, NEW t \in Threads, ConnectPending(t) \/ RecvAccepted(t)
  PROVE  Inv'
<1>0. ThreadInv /\ LineInv /\ WriteInv /\ EndInv
  BY DEF Inv
<1>1. OnLine(t) /\ home[t] = "idle" /\ ~Writing(t) /\ opened # 0
  BY <1>0, Opened DEF ConnectPending, RecvAccepted, At, OnLine, LineLabels, ThreadInv, Writing
<1>2. UNCHANGED <<opened, handle, channel, closes, writeInProgress>>
  BY DEF ConnectPending, RecvAccepted, linkVars, sendVars, historyVars
<1>3. PICK op \in {"connect", "read"} : Issue(op, 0)
  BY DEF ConnectPending, RecvAccepted
<1>4. MovesTo(t, "countIo", "idle")
  BY <1>0, <1>1, GoMoves DEF ConnectPending, RecvAccepted
<1>5. /\ pc'[t] = "countIo" /\ home'[t] = "idle"
      /\ \A u \in Threads : Writing(u)' => Writing(u)
      /\ \A u \in Threads : ~OnLine(u)'
  <2>1. ~OnLine(t)' /\ ~Writing(t)'
    BY <1>0, <1>4, OthersKeep DEF OnLine, LineLabels, Writing
  <2> QED
    BY <1>0, <1>1, <1>4, <2>1, OthersKeep DEF LineInv
<1>6. /\ posted' = posted \union {[op |-> op, msg |-> 0, sock |-> handle]}
      /\ \A o \in posted : o.op = "write"
      /\ \A o \in posted' : o.op # "write" => o = [op |-> op, msg |-> 0, sock |-> handle]
      /\ \A o \in posted' : o.op = "write" => o \in posted
  BY <1>0, <1>1, <1>3 DEF Issue, LineInv
<1>7. ThreadInv'
  <2>1. \A o \in posted' : o.op \in {"connect", "read", "write"}
    BY <1>6
  <2> QED
    BY <1>0, <1>4, <2>1, ThreadMove DEF Labels, LineLabels
<1>8. LineInv'
  BY <1>5, <1>6 DEF LineInv
<1>9. WriteInv'
  BY <1>0, <1>2, <1>5, <1>6 DEF WriteInv
<1>10. EndInv'
  BY <1>0, <1>1, <1>2, <1>4, EndMove
<1> QED
  BY <1>7, <1>8, <1>9, <1>10 DEF Inv

\* The flag is claimed when it was free, and then nobody else has it.
LEMMA GoWritingKeeps ==
  ASSUME Inv, NEW t \in Threads, GoWriting(t)
  PROVE  Inv'
<1>0. ThreadInv /\ LineInv /\ WriteInv /\ EndInv
  BY DEF Inv
<1>1. ~Writing(t) /\ opened # 0
  BY Opened DEF GoWriting, At, Writing
<1>2. UNCHANGED <<opened, handle, channel, posted, closes>> /\ writeInProgress' = TRUE
  BY DEF GoWriting, linkVars, kernelVars, opVars, historyVars
<1>3. CASE writeInProgress
  <2>1. MovesTo(t, home[t], home[t]) /\ writeInProgress' = writeInProgress
    BY <1>0, <1>2, <1>3, GoMoves DEF GoWriting, WriteInv
  <2> QED
    BY <1>1, <1>2, <2>1, PlainMove
<1>4. CASE ~writeInProgress
  <2>1. MovesTo(t, "pop", home[t])
    BY <1>0, <1>4, GoMoves DEF GoWriting
  <2>2. pc'[t] = "pop" /\ home'[t] = home[t]
    BY <1>0, <2>1, OthersKeep
  <2>3. /\ \A u \in Threads : ~Writing(u)
        /\ \A o \in posted : o.op # "write"
    BY <1>0, <1>4 DEF WriteInv
  <2>4. \A u \in Threads : Writing(u)' => u = t
    BY <1>0, <2>1, <2>3, OthersKeep
  <2>5. ThreadInv'
    BY <1>0, <1>2, <2>1, ThreadMove DEF ThreadInv, Labels, LineLabels
  <2>6. LineInv'
    BY <1>0, <1>2, <2>1, <2>2, LineMove DEF OnLine, LineLabels
  <2>7. WriteInv'
    BY <1>2, <2>3, <2>4 DEF WriteInv
  <2>8. EndInv'
    BY <1>0, <1>1, <1>2, <2>1, EndMove
  <2> QED
    BY <2>5, <2>6, <2>7, <2>8 DEF Inv
<1> QED
  BY <1>3, <1>4

\* The thread that holds the flag goes on with it.
LEMMA HolderKeeps ==
  ASSUME Inv, NEW t \in Threads, PopFront(t) \/ SendRejected(t)
  PROVE  Inv'
<1>0. ThreadInv /\ LineInv /\ WriteInv /\ EndInv
  BY DEF Inv
<1>1. Writing(t) /\ opened # 0
  BY Opened DEF PopFront, SendRejected, At, Writing
<1>2. UNCHANGED <<opened, handle, channel, posted, closes, writeInProgress>>
  BY DEF PopFront, SendRejected, dataVars, linkVars, sendVars, kernelVars, opVars, historyVars
<1>3. PICK to \in {"wsaSend", "writeFailed"} : MovesTo(t, to, home[t])
  BY <1>0, GoWithMoves DEF PopFront, SendRejected
<1>4. pc'[t] = to /\ home'[t] = home[t]
  BY <1>0, <1>3, OthersKeep
<1>5. ThreadInv'
  BY <1>0, <1>2, <1>3, ThreadMove DEF ThreadInv, Labels, LineLabels
<1>6. LineInv'
  BY <1>0, <1>2, <1>3, <1>4, LineMove DEF OnLine, LineLabels
<1>7. WriteInv'
  BY <1>0, <1>1, <1>2, <1>3, WriteMove
<1>8. EndInv'
  BY <1>0, <1>1, <1>2, <1>3, EndMove
<1> QED
  BY <1>5, <1>6, <1>7, <1>8 DEF Inv

\* The kernel takes over the flag.
LEMMA SendAcceptedKeeps ==
  ASSUME Inv, NEW t \in Threads, SendAccepted(t)
  PROVE  Inv'
<1>0. ThreadInv /\ LineInv /\ WriteInv /\ EndInv
  BY DEF Inv
<1>1. Writing(t) /\ opened # 0
  BY Opened DEF SendAccepted, At, Writing
<1>2. UNCHANGED <<opened, handle, channel, closes, writeInProgress>>
  BY DEF SendAccepted, linkVars, sendVars, historyVars
<1>3. MovesTo(t, "countIo", home[t])
  BY <1>0, GoWithMoves DEF SendAccepted
<1>4. /\ pc'[t] = "countIo" /\ home'[t] = home[t]
      /\ \A u \in Threads : ~Writing(u)'
      /\ \A u \in Threads : OnLine(u)' => OnLine(u)
  <2>1. /\ pc'[t] = "countIo" /\ home'[t] = home[t]
        /\ ~Writing(t)' /\ (OnLine(t)' => OnLine(t))
    BY <1>0, <1>3, OthersKeep DEF OnLine, LineLabels, Writing
  <2> QED
    BY <1>0, <1>1, <1>3, <2>1, OthersKeep DEF WriteInv
<1> DEFINE new == [op |-> "write", msg |-> writeContext, sock |-> handle]
<1>5. /\ posted' = posted \union {new} /\ new.op = "write"
      /\ \A o \in posted : o.op # "write"
      /\ writeInProgress
  BY <1>0, <1>1 DEF SendAccepted, Issue, WriteInv
<1>6. ThreadInv'
  <2>1. \A o \in posted' : o.op \in {"connect", "read", "write"}
    BY <1>0, <1>5 DEF ThreadInv
  <2>2. home[t] \in {"idle", "onConnection", "message"}
    BY <1>0 DEF ThreadInv
  <2> QED
    BY <1>0, <1>3, <2>1, <2>2, ThreadMove DEF Labels, LineLabels
<1> HIDE DEF new
<1>7. LineInv'
  BY <1>0, <1>4, <1>5 DEF LineInv
<1>8. WriteInv'
  BY <1>0, <1>2, <1>4, <1>5 DEF WriteInv
<1>9. EndInv'
  BY <1>0, <1>1, <1>2, <1>3, EndMove
<1> QED
  BY <1>6, <1>7, <1>8, <1>9 DEF Inv

\* The end: the socket is closed before the channel is destroyed.
LEMMA EndKeeps ==
  ASSUME Inv, NEW t \in Threads, DoCleanup(t) \/ Reset(t)
  PROVE  Inv'
<1>0. ThreadInv /\ LineInv /\ WriteInv /\ EndInv
  BY DEF Inv
<1>1. opened # 0 /\ ~Writing(t)
  BY Opened DEF DoCleanup, Reset, At, Writing
<1>2. UNCHANGED <<opened, posted, writeInProgress>>
  BY DEF DoCleanup, Reset, sendVars, kernelVars, opVars
<1>3. home[t] \in {"idle", "onConnection", "message"}
  BY <1>0 DEF ThreadInv
<1>4. PICK to \in {"reset", home[t]} : MovesTo(t, to, home[t])
  BY <1>0, GoMoves DEF DoCleanup, Reset, Return
<1>5. pc'[t] = to /\ home'[t] = home[t]
  BY <1>0, <1>4, OthersKeep
<1>6. ThreadInv'
  BY <1>0, <1>2, <1>3, <1>4, ThreadMove DEF ThreadInv, Labels, LineLabels
<1>7. LineInv'
  BY <1>0, <1>2, <1>3, <1>4, <1>5, LineMove DEF OnLine, LineLabels
<1>8. WriteInv'
  <2>1. ~Writing(t)'
    BY <1>3, <1>5 DEF Writing
  <2> QED
    BY <1>0, <1>2, <1>4, <2>1, WriteMove
<1>9. EndInv'
  <2>1. handle' = 0
    BY <1>0 DEF DoCleanup, Reset, EndInv, At
  <2>2. closes' # <<>> => channel' = 0
    BY <1>0 DEF DoCleanup, Reset, EndInv, historyVars
  <2> QED
    BY <1>0, <1>1, <1>2, <2>1, <2>2 DEF EndInv
<1> QED
  BY <1>6, <1>7, <1>8, <1>9 DEF Inv

\* A thread takes over from the kernel what the operation held.
LEMMA DispatchKeeps ==
  ASSUME Inv, NEW t \in Threads, Dispatch(t)
  PROVE  Inv'
<1>0. ThreadInv /\ LineInv /\ WriteInv /\ EndInv
  BY DEF Inv
<1>1. PICK o \in posted, outcome \in Errors \union {"eof"} :
        /\ posted' = posted \ {o}
        /\ GoWith(t, "decrIo", o.op, o.msg, outcome)
  BY DEF Dispatch, Outcomes, Errors
<1>2. pc[t] = "idle" /\ home[t] = "idle" /\ opened # 0
  BY <1>0, <1>1, Opened DEF Dispatch, At, ThreadInv
<1>3. UNCHANGED <<opened, handle, channel, closes, writeInProgress>>
  BY DEF Dispatch, linkVars, sendVars
<1>4. o.op \in {"connect", "read", "write"}
  BY <1>0 DEF ThreadInv
<1>6. MovesTo(t, "decrIo", "idle") /\ job'[t].op = o.op
  BY <1>0, <1>1, <1>2, GoWithMoves
<1>7. pc'[t] = "decrIo" /\ home'[t] = "idle"
  BY <1>0, <1>6, OthersKeep
<1>8. (OnLine(t)' => o.op # "write") /\ (Writing(t)' <=> o.op = "write")
  BY <1>4, <1>6, <1>7 DEF OnLine, Writing, LineLabels
<1>9. ThreadInv'
  BY <1>0, <1>1, <1>4, <1>6, ThreadMove DEF ThreadInv, Labels, LineLabels
<1>10. LineInv'
  <2>1. CASE o.op = "write"
    <3>1. \A u \in Threads : OnLine(u)' => OnLine(u)
      BY <1>0, <1>6, <1>8, <2>1, OthersKeep
    <3> QED
      BY <1>0, <1>1, <3>1 DEF LineInv
  <2>2. CASE o.op # "write"
    <3>1. \A u \in Threads : OnLine(u)' => u = t
      BY <1>0, <1>6, <2>2, OthersKeep DEF LineInv
    <3>2. \A p \in posted' : p.op = "write"
      BY <1>0, <1>1, <2>2 DEF LineInv
    <3> QED
      BY <3>1, <3>2 DEF LineInv
  <2> QED
    BY <2>1, <2>2
<1>11. WriteInv'
  <2>1. CASE o.op = "write"
    <3>1. \A u \in Threads : Writing(u)' => u = t
      BY <1>0, <1>6, <2>1, OthersKeep DEF WriteInv
    <3>2. \A p \in posted' : p.op # "write"
      BY <1>0, <1>1, <2>1 DEF WriteInv
    <3>3. writeInProgress
      BY <1>0, <2>1 DEF WriteInv
    <3> QED
      BY <1>3, <3>1, <3>2, <3>3 DEF WriteInv
  <2>2. CASE o.op # "write"
    BY <1>0, <1>1, <1>3, <1>6, <1>8, <2>2, WriteMove
  <2> QED
    BY <2>1, <2>2
<1>12. EndInv'
  BY <1>0, <1>2, <1>3, <1>6, EndMove
<1> QED
  BY <1>9, <1>10, <1>11, <1>12 DEF Inv

\* The handler is called: what it handles stays in its thread's hands.
LEMMA DecrIoKeeps ==
  ASSUME Inv, NEW t \in Threads, DecrIo(t)
  PROVE  Inv'
<1>0. ThreadInv /\ LineInv /\ WriteInv /\ EndInv
  BY DEF Inv
<1>1. UNCHANGED <<opened, handle, channel, posted, closes, writeInProgress>>
  BY DEF DecrIo, linkVars, sendVars, kernelVars, opVars
<1>2. /\ pc[t] = "decrIo" /\ home[t] = "idle" /\ opened # 0
      /\ job[t].op \in {"connect", "read", "write"}
  BY <1>0, Opened DEF DecrIo, At, ThreadInv
<1> DEFINE to == Handler(job[t].op, job[t].err)
<1>3. /\ to \in {"onConnect", "onRead", "onWrite", "onError"}
      /\ job[t].op = "write" => to \in {"onWrite", "onError"}
      /\ to = "onWrite" => job[t].op = "write"
  BY <1>2 DEF Handler
<1>4. Go(t, to)
  BY DEF DecrIo
<1> HIDE DEF to
<1>5. MovesTo(t, to, "idle") /\ job'[t] = job[t]
  BY <1>0, <1>2, <1>3, <1>4, GoMoves
<1>6. pc'[t] = to /\ home'[t] = "idle"
  BY <1>0, <1>5, OthersKeep
<1>7. (OnLine(t)' => OnLine(t)) /\ (Writing(t)' <=> Writing(t))
  BY <1>2, <1>3, <1>5, <1>6 DEF OnLine, Writing, LineLabels
<1>8. ThreadInv'
  BY <1>0, <1>1, <1>3, <1>5, ThreadMove DEF ThreadInv, Labels, LineLabels
<1>9. LineInv'
  BY <1>0, <1>1, <1>5, <1>7, LineMove
<1>10. WriteInv'
  BY <1>0, <1>1, <1>5, <1>7, WriteMove
<1>11. EndInv'
  BY <1>0, <1>1, <1>2, <1>3, <1>5, EndMove
<1> QED
  BY <1>8, <1>9, <1>10, <1>11 DEF Inv

LEMMA StutterKeeps ==
  ASSUME Inv, UNCHANGED <<linkVars, sendVars, timerVars, kernelVars, closes, threadVars>>
  PROVE  Inv'
BY DEF Inv, ThreadInv, LineInv, WriteInv, EndInv, OnLine, Writing, linkVars, sendVars, timerVars,
       kernelVars, opVars, threadVars

LEMMA InitInv == Init => Inv
<1> SUFFICES ASSUME Init PROVE Inv
  OBVIOUS
<1>1. PICK acceptor \in {{}} \union {{t} : t \in Pollers} :
        /\ opened = (IF acceptor # {} THEN 1 ELSE 0)
        /\ stateValue = (IF acceptor # {} THEN "Connecting" ELSE "Disconnected")
        /\ pc = [t \in Threads |-> IF t \in acceptor THEN "onConnection" ELSE "idle"]
        /\ home = pc
  BY DEF Init
<1>2. /\ DOMAIN job = Threads /\ posted = {} /\ writeInProgress = FALSE
      /\ closes = <<>> /\ timers = {}
  BY DEF Init
<1>3. \A t, u \in acceptor : t = u
  BY <1>1
<1>4. ThreadInv
  BY <1>1, <1>2 DEF ThreadInv, Labels, LineLabels
<1>5. LineInv
  BY <1>1, <1>2, <1>3 DEF LineInv, OnLine, LineLabels
<1>6. WriteInv
  BY <1>1, <1>2 DEF WriteInv, Writing
<1>7. EndInv
  BY <1>1, <1>2 DEF EndInv
<1> QED
  BY <1>4, <1>5, <1>6, <1>7 DEF Inv

LEMMA NextInv ==
  ASSUME MaxConnects <= 1, Inv, [Next]_vars
  PROVE  Inv'
<1>1. CASE UNCHANGED vars
  BY <1>1, StutterKeeps DEF vars, dataVars, closeVars, historyVars
<1>2. ASSUME NEW t \in Threads, UserCall(t)
      PROVE  Inv'
  BY <1>2, ConnectKeeps, PlainKeeps, ClosingKeeps DEF UserCall
<1>3. ASSUME NEW t \in Threads, Step(t)
      PROVE  Inv'
  BY <1>3, PlainKeeps, ClosingKeeps, ReturnKeeps, OtherErrorKeeps, ReadingKeeps, IssueKeeps,
     GoWritingKeeps, HolderKeeps, SendAcceptedKeeps, EndKeeps, DecrIoKeeps DEF Step
<1>4. ASSUME NEW t \in Threads, Undefined(t)
      PROVE  Inv'
  BY <1>4, StutterKeeps
  DEF Undefined, NullChannel, StaleChannel, NullContext, DoubleFree, Fails, closeVars
<1> QED
  BY <1>1, <1>2, <1>3, <1>4, DispatchKeeps, ClosingKeeps DEF Next

-----------------------------------------------------------------------------
\* With one socket for its life, whatever threads poll, call and time out, the
\* connection keeps to one line of control and one write.
THEOREM Invariance == MaxConnects <= 1 => (Spec => []Inv)
<1>1. MaxConnects <= 1 /\ Inv /\ [Next]_vars => Inv'
  BY NextInv
<1>2. (MaxConnects <= 1) => [](MaxConnects <= 1)
  OBVIOUS
<1> QED
  BY <1>1, <1>2, InitInv, PTL DEF Spec

\* Of a connection that opens one socket, one read and one write at a time are
\* outstanding in the kernel, in any number of threads: go_reading_() and go_writing_()
\* never issue a second one.
THEOREM OneOfEach == MaxConnects <= 1 => (Spec => []OneReadOneWrite)
<1>1. Inv => OneReadOneWrite
  BY DEF Inv, LineInv, WriteInv, OneReadOneWrite
<1> QED
  BY <1>1, Invariance, PTL

\* Who runs on_message_func_ changes only where it is called or returns.
LEMMA HomeSteps ==
  ASSUME Next
  PROVE  \/ UNCHANGED home
         \/ \E t \in Threads : home' = [home EXCEPT ![t] = "idle"]
         \/ \E t \in Threads : OnRead(t) /\ CallUser(t)
<1>1. ASSUME NEW t \in Threads, UserCall(t) \/ Dispatch(t) \/ TimerFires(t)
      PROVE  UNCHANGED home
  BY <1>1 DEF UserCall, Connect, Send, Close, Shutdown, Dispatch, TimerFires, Go, GoWith
<1>2. ASSUME NEW t \in Threads, Undefined(t)
      PROVE  UNCHANGED home
  BY <1>2 DEF Undefined, NullChannel, StaleChannel, NullContext, DoubleFree, Fails, threadVars
<1>3. ASSUME NEW t \in Threads, Step(t)
      PROVE  \/ UNCHANGED home
             \/ home' = [home EXCEPT ![t] = "idle"]
             \/ OnRead(t) /\ CallUser(t)
  <2>1. CASE \/ ConnectPending(t) \/ ConnectRefused(t) \/ CountIo(t) \/ Start(t) \/ StartFails(t)
             \/ GoReading(t) \/ RecvAccepted(t) \/ RecvRejected(t) \/ OnConnect(t)
             \/ OnError(t) \/ ErrorTail(t) \/ DecrIo(t)
    BY <2>1 DEF ConnectPending, ConnectRefused, CountIo, Start, StartFails, GoReading,
                RecvAccepted, RecvRejected, OnConnect, OnError, ErrorTail, DecrIo, Return, Go, GoWith
  <2>2. CASE \/ GoWriting(t) \/ PopNothing(t) \/ PopFront(t) \/ SendAccepted(t)
             \/ SendRejected(t) \/ WriteFailed(t) \/ FreeFailed(t) \/ OnWrite(t) \/ HasMore(t)
    BY <2>2 DEF GoWriting, PopNothing, PopFront, SendAccepted, SendRejected, WriteFailed,
                FreeFailed, OnWrite, HasMore, Return, Go, GoWith
  <2>3. CASE \/ ShutdownState(t) \/ AddTimer(t) \/ Cleanup(t) \/ CancelTimer(t) \/ CheckIo(t)
             \/ CancelIo(t) \/ StoreErr(t) \/ DoCleanup(t) \/ Reset(t)
    BY <2>3 DEF ShutdownState, AddTimer, Cleanup, CancelTimer, CheckIo, CancelIo, StoreErr,
                DoCleanup, Reset, Return, Go
  <2>4. CASE EndOnConnection(t) \/ EndMessage(t) \/ OnRead(t)
    BY <2>4 DEF EndOnConnection, EndMessage, OnRead, Resume, GoWith
  <2> QED
    BY <1>3, <2>1, <2>2, <2>3, <2>4 DEF Step
<1> QED
  BY <1>1, <1>2, <1>3 DEF Next

\* A message is delivered by the thread that is alone at the line of control.
LEMMA DeliveryStep ==
  ASSUME Inv, [Next]_vars, NEW t \in Threads, home[t] # "message", home'[t] = "message"
  PROVE  \A u \in Threads : home[u] # "message"
<1>0. ThreadInv /\ LineInv
  BY DEF Inv
<1>1. Next
  BY DEF vars, threadVars
<1>2. PICK r \in Threads : OnRead(r) /\ CallUser(r)
  BY <1>0, <1>1, HomeSteps DEF ThreadInv
<1>3. r = t
  BY <1>0, <1>2 DEF CallUser, ThreadInv
<1>4. OnLine(t)
  BY <1>2, <1>3 DEF OnRead, At, OnLine, LineLabels
<1>5. \A u \in Threads : home[u] = "message" => u = t
  BY <1>0, <1>4 DEF LineInv, OnLine
<1> QED
  BY <1>5

\* Of a connection that opens one socket, on_message_func_ is not called while it is
\* running in another thread, in any number of threads: the next read is issued by the
\* thread that ran it, when it has returned.
THEOREM SerialDelivery == MaxConnects <= 1 => (Spec => DeliversSerially)
<1>1. Inv /\ [Next]_vars =>
        [\A t \in Threads : home[t] # "message" /\ home'[t] = "message"
           => \A u \in Threads : home[u] # "message"]_vars
  BY DeliveryStep
<1> QED
  BY <1>1, Invariance, PTL DEF Spec, DeliversSerially

-----------------------------------------------------------------------------
\* The message a thread carries is the one it took off the queue or whose write it
\* handles, and user code carries nothing.
Carrying(t) ==
  \/ pc[t] \in {"wsaSend", "writeFailed", "onWrite"}
  \/ pc[t] \in {"decrIo", "onError"} /\ job[t].op = "write"

JobOf(t) ==
  /\ job[t].msg # 0 => Carrying(t)
  /\ pc[t] = home[t] => job[t] = NoJob
  /\ pc[t] = "wsaSend" => writeContext \in {job[t].msg, 0}

JobInv ==
  /\ \A t \in Threads : JobOf(t)
  /\ \A o \in posted : o.op # "write" => o.msg = 0
  /\ cleanupDone \in BOOLEAN

-----------------------------------------------------------------------------
\* A thread moves, and the context of a write is at most given up.
LEMMA JobMove ==
  ASSUME ThreadInv, JobInv, NEW t \in Threads, NEW to, NEW back, MovesTo(t, to, back),
         JobOf(t)', \A o \in posted' : o.op # "write" => o.msg = 0,
         cleanupDone' \in {cleanupDone, TRUE},
         \/ writeContext' \in {writeContext, 0}
         \/ \A u \in Threads \ {t} : pc[u] # "wsaSend"
  PROVE  JobInv'
<1>1. \A u \in Threads \ {t} : pc'[u] = pc[u] /\ home'[u] = home[u] /\ job'[u] = job[u]
  BY OthersKeep DEF MovesTo
<1>2. \A u \in Threads \ {t} : JobOf(u)'
  BY <1>1 DEF JobInv, JobOf, Carrying
<1> QED
  BY <1>2 DEF JobInv

\* A thread that carries nothing goes on.
LEMMA JobGo ==
  ASSUME ThreadInv, JobInv, NEW t \in Threads, NEW to, Go(t, to), ~Carrying(t), to # "wsaSend"
  PROVE  JobOf(t)' /\ job'[t].msg = 0 /\ job[t].msg = 0
<1>1. /\ job[t].msg = 0
      /\ pc'[t] = to /\ home'[t] = home[t]
      /\ job'[t] = IF to = home[t] THEN NoJob ELSE job[t]
  BY DEF ThreadInv, JobInv, JobOf, Go
<1> QED
  BY <1>1 DEF JobOf, NoJob

\* A thread goes on with a job that has no message.
LEMMA JobGoWith ==
  ASSUME ThreadInv, NEW t \in Threads, NEW to \in PlainLabels, NEW op, NEW err,
         GoWith(t, to, op, 0, err)
  PROVE  JobOf(t)' /\ job'[t].msg = 0
<1>1. home[t] \in {"idle", "onConnection", "message"}
  BY DEF ThreadInv
<1>2. /\ pc'[t] = to /\ home'[t] = home[t]
      /\ job'[t] = [op |-> op, msg |-> 0, err |-> err]
  BY DEF ThreadInv, GoWith
<1> QED
  BY <1>1, <1>2 DEF JobOf, PlainLabels

LEMMA JobUser ==
  ASSUME ThreadInv, JobInv, NEW t \in Threads
  PROVE  /\ CallUser(t) => JobOf(t)' /\ job'[t].msg = 0
         /\ \A to \in PlainLabels \union LineLabels :
              Resume(t, to) /\ ~Carrying(t) => JobOf(t)' /\ job'[t].msg = 0
<1>1. ASSUME CallUser(t) PROVE JobOf(t)' /\ job'[t].msg = 0
  <2>1. pc'[t] = "message" /\ job'[t] = NoJob
    BY <1>1 DEF ThreadInv, CallUser
  <2> QED
    BY <2>1 DEF JobOf, NoJob
<1>2. ASSUME NEW to \in PlainLabels \union LineLabels, Resume(t, to), ~Carrying(t)
      PROVE  JobOf(t)' /\ job'[t].msg = 0
  <2>1. pc'[t] = to /\ home'[t] = "idle" /\ job'[t] = job[t] /\ job[t].msg = 0
    BY <1>2 DEF ThreadInv, JobInv, JobOf, Resume
  <2> QED
    BY <2>1 DEF JobOf, PlainLabels, LineLabels
<1> QED
  BY <1>1, <1>2

-----------------------------------------------------------------------------
\* Labels where SendPath sees nothing.
QuietLabels ==
  Labels \ {"goWriting", "pop", "wsaSend", "writeFailed", "onWrite", "hasMore", "onError",
            "freeFailed", "errorTail", "cleanup", "decrIo"}

LEMMA Places ==
  ASSUME NEW t \in Threads
  PROVE  /\ pc[t] \in QuietLabels => SendPlace(t) = "idle"
         /\ pc[t] \in {"decrIo", "onError", "freeFailed", "errorTail", "cleanup"}
              /\ job[t].op # "write"
              => SendPlace(t) = "idle"
         /\ pc[t] \in {"freeFailed", "errorTail", "cleanup"} /\ job[t].op = "write"
              => SendPlace(t) = "error"
         /\ pc[t] = "onError" /\ job[t].op = "write" => SendPlace(t) = "on_write_error"
         /\ pc[t] = "goWriting" => SendPlace(t) = "go_writing"
         /\ pc[t] = "pop" => SendPlace(t) = "pop"
         /\ pc[t] = "wsaSend" => SendPlace(t) = "wsasend"
         /\ pc[t] = "writeFailed" => SendPlace(t) = "write_failed"
         /\ pc[t] = "onWrite" => SendPlace(t) = "on_write"
         /\ pc[t] = "hasMore" => SendPlace(t) = "has_more"
BY DEF SendPlace, QuietLabels

\* What SendPath sees of the threads when one of them moves.
LEMMA SendMove ==
  ASSUME ThreadInv, NEW t \in Threads, NEW to, NEW back, MovesTo(t, to, back)
  PROVE  /\ SendPc' = [SendPc EXCEPT ![t] = SendPlace(t)']
         /\ SendBuf' = [SendBuf EXCEPT ![t] = job'[t].msg]
         /\ SendPc[t] = SendPlace(t) /\ SendBuf[t] = job[t].msg
<1>1. \A u \in Threads \ {t} : pc'[u] = pc[u] /\ job'[u] = job[u]
  BY OthersKeep DEF MovesTo
<1>2. \A u \in Threads \ {t} : SendPlace(u)' = SendPlace(u)
  BY <1>1 DEF SendPlace
<1> QED
  BY <1>1, <1>2 DEF SendPc, SendBuf

\* A step SendPath has no part in.
LEMMA QuietStep ==
  ASSUME ThreadInv, NEW t \in Threads, NEW to, NEW back, MovesTo(t, to, back),
         SendPlace(t)' = SendPlace(t), job'[t].msg = job[t].msg,
         UNCHANGED <<pushed, sendQueue, writeInProgress>>, InFlight' = InFlight,
         cleanupDone' \in {cleanupDone, TRUE}
  PROVE  Sending!Elsewhere
<1>1. SendPc' = SendPc /\ SendBuf' = SendBuf
  BY SendMove DEF SendPc, SendBuf
<1> QED
  BY <1>1 DEF Sending!Elsewhere, SendPc, SendBuf, SendPlace, InFlight

-----------------------------------------------------------------------------
\* What is to be shown of every step.
Refines == JobInv' /\ [Sending!Next]_(Sending!vars)

\* A thread goes from one place SendPath does not see to another.
LEMMA QuietGo ==
  ASSUME Inv, JobInv, NEW t \in Threads, pc[t] \in QuietLabels, NEW to, Go(t, to),
         to \in QuietLabels \/ (to = "cleanup" /\ job[t].op # "write"),
         UNCHANGED <<pushed, sendQueue, writeInProgress, writeContext>>, posted' = posted,
         cleanupDone' \in {cleanupDone, TRUE}
  PROVE  Refines
<1>0. ThreadInv
  BY DEF Inv
<1>1. ~Carrying(t) /\ to # "wsaSend"
  BY DEF Carrying, QuietLabels
<1>2. JobOf(t)' /\ job'[t].msg = 0 /\ job[t].msg = 0
  BY <1>0, <1>1, JobGo
<1>3. MovesTo(t, to, home[t])
  BY <1>0, GoMoves
<1>4. JobInv'
  BY <1>0, <1>2, <1>3, JobMove DEF JobInv
<1>5. pc'[t] = to /\ job'[t].op \in {job[t].op, "none"}
  BY <1>0 DEF Go, ThreadInv, NoJob
<1>6. SendPlace(t) = "idle" /\ SendPlace(t)' = "idle"
  BY <1>5 DEF SendPlace, QuietLabels
<1>7. Sending!Elsewhere
  BY <1>0, <1>2, <1>3, <1>6, QuietStep DEF InFlight
<1> QED
  BY <1>4, <1>7 DEF Refines, Sending!Next

\* The same when it gets a job that is not a write.
LEMMA QuietGoWith ==
  ASSUME Inv, JobInv, NEW t \in Threads, SendPlace(t) = "idle", ~Carrying(t),
         NEW to \in PlainLabels \ {"goWriting", "hasMore"}, NEW op, NEW err,
         GoWith(t, to, op, 0, err), op # "write",
         UNCHANGED <<pushed, sendQueue, writeInProgress, writeContext>>, posted' = posted,
         cleanupDone' \in {cleanupDone, TRUE}
  PROVE  Refines
<1>0. ThreadInv
  BY DEF Inv
<1>1. JobOf(t)' /\ job'[t].msg = 0 /\ job[t].msg = 0
  BY <1>0, JobGoWith DEF JobInv, JobOf
<1>2. MovesTo(t, to, home[t]) /\ job'[t].op = op
  BY <1>0, GoWithMoves
<1>3. JobInv'
  BY <1>0, <1>1, <1>2, JobMove DEF JobInv
<1>4. pc'[t] = to
  BY <1>0, <1>2, OthersKeep
<1>5. SendPlace(t)' = "idle"
  BY <1>2, <1>4 DEF SendPlace, PlainLabels
<1>6. Sending!Elsewhere
  BY <1>0, <1>1, <1>2, <1>5, QuietStep DEF InFlight
<1> QED
  BY <1>3, <1>6 DEF Refines, Sending!Next

\* Threads in user code have no job.
LEMMA InUser ==
  ASSUME Inv, JobInv, NEW t \in Threads, pc[t] = home[t]
  PROVE  /\ pc[t] \in QuietLabels /\ SendPlace(t) = "idle" /\ job[t] = NoJob /\ ~Carrying(t)
         /\ home[t] \in QuietLabels
<1>1. home[t] \in {"idle", "onConnection", "message"} /\ job[t] = NoJob
  BY DEF Inv, ThreadInv, JobInv, JobOf
<1> QED
  BY <1>1, Places DEF QuietLabels, Labels, Carrying

LEMMA HomeQuiet ==
  ASSUME Inv, NEW t \in Threads
  PROVE  home[t] \in QuietLabels
BY DEF Inv, ThreadInv, QuietLabels, Labels

\* Steps of connecting, reading and closing.
LEMMA ClosingRefines ==
  ASSUME Inv, JobInv, NEW t \in Threads,
         \/ Close(t) \/ Shutdown(t) \/ ShutdownState(t) \/ AddTimer(t)
         \/ CancelTimer(t) \/ CheckIo(t) \/ CancelIo(t) \/ StoreErr(t)
         \/ DoCleanup(t) \/ Reset(t)
  PROVE  Refines
<1>1. /\ UNCHANGED <<pushed, sendQueue, writeInProgress, writeContext, posted, cleanupDone>>
  BY DEF Close, Shutdown, ShutdownState, AddTimer, CancelTimer, CheckIo,
         CancelIo, StoreErr, DoCleanup, Reset, dataVars, closeVars, sendVars, queueVars,
         kernelVars, opVars
<1>2. pc[t] \in QuietLabels
  BY InUser DEF Close, Shutdown, ShutdownState, AddTimer, CancelTimer, CheckIo,
         CancelIo, StoreErr, DoCleanup, Reset, InUserCode, At, QuietLabels, Labels
<1>3. \E to : Go(t, to) /\ (to \in QuietLabels \/ (to = "cleanup" /\ job[t].op # "write"))
  <2>1. Close(t) => job[t].op = "none"
    BY InUser DEF Close, InUserCode, At, NoJob
  <2> QED
    BY <2>1, HomeQuiet DEF Close, Shutdown, ShutdownState, AddTimer, CancelTimer, CheckIo,
         CancelIo, StoreErr, DoCleanup, Reset, Return, QuietLabels, Labels
<1>4. cleanupDone' \in {cleanupDone, TRUE}
  BY <1>1
<1> QED
  BY <1>1, <1>2, <1>3, <1>4, QuietGo

LEMMA LinkRefines ==
  ASSUME Inv, JobInv, NEW t \in Threads,
         \/ Connect(t) \/ ConnectRefused(t) \/ CountIo(t) \/ Start(t) \/ StartFails(t)
         \/ GoReading(t)
  PROVE  Refines
<1>1. UNCHANGED <<pushed, sendQueue, writeInProgress, writeContext, posted, cleanupDone>>
  BY DEF Connect, ConnectRefused, CountIo, Start, StartFails, GoReading, closeVars, sendVars,
         queueVars, kernelVars, opVars
<1>2. pc[t] \in QuietLabels
  BY InUser DEF Connect, ConnectRefused, CountIo, Start, StartFails, GoReading, InUserCode, At,
                QuietLabels, Labels
<1>3. \E to : Go(t, to) /\ (to \in QuietLabels \/ (to = "cleanup" /\ job[t].op # "write"))
  BY HomeQuiet DEF Connect, ConnectRefused, CountIo, Start, StartFails, GoReading, Return,
                   QuietLabels, Labels
<1>4. cleanupDone' \in {cleanupDone, TRUE}
  BY <1>1
<1> QED
  BY <1>1, <1>2, <1>3, <1>4, QuietGo

LEMMA FailureRefines ==
  ASSUME Inv, JobInv, NEW t \in Threads,
         TimerFires(t) \/ RecvRejected(t) \/ (OnError(t) /\ job[t].op # "write")
  PROVE  Refines
<1>1. UNCHANGED <<pushed, sendQueue, writeInProgress, writeContext, posted, cleanupDone>>
  BY DEF TimerFires, RecvRejected, OnError, closeVars, sendVars, queueVars, kernelVars, opVars
<1>2. SendPlace(t) = "idle" /\ ~Carrying(t)
  BY Places DEF TimerFires, RecvRejected, OnError, At, QuietLabels, Labels, Carrying
<1>3. \E to \in {"cleanup", "errorTail"} : \E op, err : GoWith(t, to, op, 0, err) /\ op # "write"
  <2>1. TimerFires(t) => GoWith(t, "cleanup", "none", 0, "timeout")
    BY DEF TimerFires
  <2>2. RecvRejected(t) => \E err : GoWith(t, "errorTail", "read", 0, err)
    BY DEF RecvRejected
  <2>3. OnError(t) => GoWith(t, "errorTail", job[t].op, 0, job[t].err)
    BY DEF OnError
  <2> QED
    BY <2>1, <2>2, <2>3
<1>4. cleanupDone' \in {cleanupDone, TRUE}
  BY <1>1
<1> QED
  BY <1>1, <1>2, <1>3, <1>4, QuietGoWith DEF PlainLabels

\* Steps that go to user code or come from it.
LEMMA UserRefines ==
  ASSUME Inv, JobInv, NEW t \in Threads,
         \/ EndOnConnection(t) \/ EndMessage(t) \/ (OnRead(t) /\ CallUser(t))
  PROVE  Refines
<1>0. ThreadInv
  BY DEF Inv
<1>1. UNCHANGED <<pushed, sendQueue, writeInProgress, writeContext, posted, cleanupDone>>
  BY DEF EndOnConnection, EndMessage, OnRead, dataVars, closeVars, sendVars, queueVars,
         kernelVars, opVars
<1>2. SendPlace(t) = "idle" /\ ~Carrying(t) /\ job[t].msg = 0
  <2>1. SendPlace(t) = "idle" /\ ~Carrying(t)
    BY Places DEF EndOnConnection, EndMessage, OnRead, At, QuietLabels, Labels, Carrying
  <2> QED
    BY <2>1 DEF JobInv, JobOf
<1>3. \/ CallUser(t)
      \/ \E to \in {"start", "cleanup", "goReading"} : Resume(t, to) /\ job[t] = NoJob
  BY InUser DEF EndOnConnection, EndMessage, At, Inv, ThreadInv
<1>4. PICK to \in {"message", "start", "cleanup", "goReading"}, back \in {"message", "idle"} :
        MovesTo(t, to, back) /\ JobOf(t)' /\ job'[t].msg = 0 /\ job'[t].op = "none"
  <2>1. CASE CallUser(t)
    BY <1>0, <2>1, JobUser, UserMoves DEF CallUser, ThreadInv, NoJob
  <2>2. CASE \E to \in {"start", "cleanup", "goReading"} : Resume(t, to) /\ job[t] = NoJob
    <3>1. PICK to \in {"start", "cleanup", "goReading"} : Resume(t, to) /\ job[t] = NoJob
      BY <2>2
    <3>2. to \in PlainLabels \union LineLabels
      BY DEF PlainLabels, LineLabels
    <3>3. JobOf(t)' /\ job'[t].msg = 0 /\ MovesTo(t, to, "idle")
      BY <1>0, <1>2, <3>1, <3>2, JobUser, UserMoves
    <3>4. job'[t].op = "none"
      BY <3>1 DEF Resume, NoJob
    <3> QED
      BY <3>3, <3>4
  <2> QED
    BY <1>3, <2>1, <2>2
<1>5. JobInv'
  BY <1>0, <1>1, <1>4, JobMove DEF JobInv
<1>6. pc'[t] = to
  BY <1>0, <1>4, OthersKeep
<1>7. SendPlace(t)' = "idle"
  BY <1>4, <1>6 DEF SendPlace
<1>8. Sending!Elsewhere
  BY <1>0, <1>1, <1>2, <1>4, <1>7, QuietStep DEF InFlight
<1> QED
  BY <1>5, <1>8 DEF Refines, Sending!Next

\* on_completion_read_() at the end of the stream, and on_completion_connect_().
LEMMA SuccessRefines ==
  ASSUME Inv, JobInv, NEW t \in Threads, OnRead(t) \/ OnConnect(t)
  PROVE  Refines
<1>1. UNCHANGED <<pushed, sendQueue, writeInProgress, writeContext, posted, cleanupDone>>
  BY DEF OnConnect, OnRead, closeVars, sendVars, queueVars, kernelVars, opVars
<1>2. pc[t] \in QuietLabels /\ SendPlace(t) = "idle" /\ ~Carrying(t)
  BY Places DEF OnConnect, OnRead, At, QuietLabels, Labels, Carrying
<1>3. \/ OnRead(t) /\ CallUser(t)
      \/ Go(t, "start")
      \/ \E op, err : GoWith(t, "cleanup", op, 0, err) /\ op # "write"
  BY DEF OnRead, OnConnect
<1>4. cleanupDone' \in {cleanupDone, TRUE}
  BY <1>1
<1>5. CASE Go(t, "start")
  BY <1>1, <1>2, <1>4, <1>5, QuietGo DEF QuietLabels, Labels
<1> QED
  BY <1>1, <1>2, <1>3, <1>4, <1>5, QuietGoWith, UserRefines DEF PlainLabels

\* ConnectEx and WSARecv.
LEMMA IssueRefines ==
  ASSUME Inv, JobInv, NEW t \in Threads, ConnectPending(t) \/ RecvAccepted(t)
  PROVE  Refines
<1>0. ThreadInv
  BY DEF Inv
<1>1. UNCHANGED <<pushed, sendQueue, writeInProgress, writeContext, cleanupDone>>
  BY DEF ConnectPending, RecvAccepted, closeVars, sendVars, queueVars
<1>2. SendPlace(t) = "idle" /\ ~Carrying(t) /\ Go(t, "countIo")
  BY Places DEF ConnectPending, RecvAccepted, At, QuietLabels, Labels, Carrying
<1>3. JobOf(t)' /\ job'[t].msg = 0 /\ job[t].msg = 0 /\ MovesTo(t, "countIo", home[t])
  BY <1>0, <1>2, JobGo, GoMoves
<1>4. PICK op \in {"connect", "read"} :
        posted' = posted \union {[op |-> op, msg |-> 0, sock |-> handle]}
  BY DEF ConnectPending, RecvAccepted, Issue
<1>5. /\ \A o \in posted' : o.op # "write" => o.msg = 0
      /\ InFlight' = InFlight
  BY <1>4 DEF JobInv, InFlight
<1>6. JobInv'
  BY <1>0, <1>1, <1>3, <1>5, JobMove DEF JobInv
<1>7. SendPlace(t)' = "idle"
  <2>1. pc'[t] = "countIo"
    BY <1>0, <1>3, OthersKeep
  <2> QED
    BY <2>1 DEF SendPlace
<1>8. Sending!Elsewhere
  BY <1>0, <1>1, <1>2, <1>3, <1>5, <1>7, QuietStep
<1> QED
  BY <1>6, <1>8 DEF Refines, Sending!Next

\* The context of a write that failed at once is discarded: SendPath does this in the
\* step before.
LEMMA FreeFailedRefines ==
  ASSUME Inv, JobInv, NEW t \in Threads, FreeFailed(t)
  PROVE  Refines
<1>0. ThreadInv
  BY DEF Inv
<1>1. /\ UNCHANGED <<pushed, sendQueue, writeInProgress, posted, cleanupDone>>
      /\ writeContext' = 0 /\ Go(t, "errorTail") /\ pc[t] = "freeFailed"
  BY DEF FreeFailed, closeVars, sendVars, queueVars, kernelVars, opVars, At
<1>2. JobOf(t)' /\ job'[t].msg = 0 /\ job[t].msg = 0 /\ MovesTo(t, "errorTail", home[t])
  BY <1>0, <1>1, JobGo, GoMoves DEF Carrying
<1>3. JobInv'
  BY <1>0, <1>1, <1>2, JobMove DEF JobInv
<1>4. pc'[t] = "errorTail" /\ job'[t] = job[t]
  BY <1>0, <1>1 DEF ThreadInv, Go
<1>5. SendPlace(t)' = SendPlace(t)
  BY <1>1, <1>4 DEF SendPlace
<1>6. Sending!Elsewhere
  BY <1>0, <1>1, <1>2, <1>5, QuietStep DEF InFlight
<1> QED
  BY <1>3, <1>6 DEF Refines, Sending!Next

-----------------------------------------------------------------------------
\* A step of SendPath's own.

\* send() queues a message: nobody knows of it yet.
LEMMA SendRefines ==
  ASSUME Inv, JobInv, NEW t \in Threads, Send(t)
  PROVE  Refines
<1>0. ThreadInv
  BY DEF Inv
<1>1. /\ stateValue = "Connected" /\ pushed < MaxSends /\ pushed' = pushed + 1
      /\ sendQueue' = Append(sendQueue, pushed + 1)
      /\ UNCHANGED <<stateValue, cleanupDone, writeInProgress, writeContext, posted>>
      /\ pc[t] = home[t]
  BY DEF Send, linkVars, closeVars, kernelVars, opVars, InUserCode, At
<1>2. PICK to \in {"goWriting", home[t]} :
        Go(t, to) /\ to = IF Len(sendQueue') = 1 THEN "goWriting" ELSE home[t]
  BY DEF Send
<1>3. SendPlace(t) = "idle" /\ ~Carrying(t) /\ home[t] # "goWriting" /\ to # "wsaSend"
  BY <1>1, <1>2, InUser DEF QuietLabels
<1>4. JobOf(t)' /\ job'[t].msg = 0 /\ job[t].msg = 0 /\ MovesTo(t, to, home[t]) /\ pc'[t] = to
  BY <1>0, <1>2, <1>3, JobGo, GoMoves, OthersKeep
<1>5. JobInv'
  BY <1>0, <1>1, <1>4, JobMove DEF JobInv
<1>6. SendPlace(t)' = IF Len(sendQueue') = 1 THEN "go_writing" ELSE "idle"
  BY <1>2, <1>4, HomeQuiet DEF SendPlace, QuietLabels
<1>7. /\ SendPc' = [SendPc EXCEPT ![t] = SendPlace(t)'] /\ SendPc[t] = "idle"
      /\ SendBuf' = SendBuf
  <2>1. /\ SendPc' = [SendPc EXCEPT ![t] = SendPlace(t)'] /\ SendPc[t] = SendPlace(t)
        /\ SendBuf' = [SendBuf EXCEPT ![t] = job'[t].msg] /\ SendBuf[t] = job[t].msg
    BY <1>0, <1>4, SendMove
  <2> QED
    BY <1>3, <1>4, <2>1 DEF SendBuf
<1>8. Sending!Send(t)
  BY <1>1, <1>6, <1>7 DEF Sending!Send, Sending!Goto, SendPc, SendPlace, SendBuf, InFlight
<1> QED
  BY <1>5, <1>8 DEF Refines, Sending!Next

\* go_writing_() before there is a message, and the second look at the queue.
LEMMA ClaimRefines ==
  ASSUME Inv, JobInv, NEW t \in Threads, GoWriting(t) \/ PopNothing(t) \/ HasMore(t)
  PROVE  Refines
<1>0. ThreadInv
  BY DEF Inv
<1>1. UNCHANGED <<pushed, sendQueue, stateValue, cleanupDone, writeContext, posted>>
  BY DEF GoWriting, PopNothing, HasMore, dataVars, linkVars, closeVars, sendVars, queueVars,
         kernelVars, opVars
<1>2. ~Carrying(t)
  BY DEF GoWriting, PopNothing, HasMore, At, Carrying
<1>3. PICK to \in {"goWriting", "pop", home[t]} : Go(t, to)
  BY DEF GoWriting, PopNothing, HasMore, Return
<1>4. to # "wsaSend" /\ home[t] \notin {"goWriting", "pop"}
  BY HomeQuiet DEF QuietLabels
<1>5. JobOf(t)' /\ job'[t].msg = 0 /\ job[t].msg = 0 /\ MovesTo(t, to, home[t]) /\ pc'[t] = to
  BY <1>0, <1>2, <1>3, <1>4, JobGo, GoMoves, OthersKeep
<1>6. JobInv'
  BY <1>0, <1>1, <1>5, JobMove DEF JobInv
<1>7. SendPlace(t)' = IF to = home[t] THEN "idle" ELSE IF to = "pop" THEN "pop" ELSE "go_writing"
  BY <1>3, <1>5, HomeQuiet DEF SendPlace, QuietLabels
<1>8. /\ SendPc' = [SendPc EXCEPT ![t] = SendPlace(t)'] /\ SendPc[t] = SendPlace(t)
      /\ SendBuf' = SendBuf
  BY <1>0, <1>5, SendMove DEF SendBuf
<1>9. CASE GoWriting(t)
  <2>1. /\ pc[t] = "goWriting" /\ writeInProgress' = TRUE
        /\ to = IF writeInProgress THEN home[t] ELSE "pop"
    BY <1>0, <1>3, <1>9 DEF GoWriting, At, Go, ThreadInv
  <2>2. Sending!Claim(t)
    BY <1>1, <1>4, <1>7, <1>8, <2>1, Places DEF Sending!Claim, Sending!Goto, SendPc, SendPlace, SendBuf, InFlight
  <2> QED
    BY <1>6, <2>2 DEF Refines, Sending!Next, Sending!Step
<1>10. CASE PopNothing(t)
  <2>1. pc[t] = "pop" /\ writeInProgress' = FALSE /\ to = home[t] /\ sendQueue = <<>>
    BY <1>0, <1>3, <1>10 DEF PopNothing, At, Go, ThreadInv, Return
  <2>2. Sending!PopNothing(t)
    BY <1>1, <1>4, <1>7, <1>8, <2>1, Places DEF Sending!PopNothing, Sending!Goto, SendPc, SendPlace, SendBuf, InFlight
  <2> QED
    BY <1>6, <2>2 DEF Refines, Sending!Next, Sending!Step
<1>11. CASE HasMore(t)
  <2>1. /\ pc[t] = "hasMore" /\ writeInProgress' = writeInProgress
        /\ to = IF sendQueue # <<>> THEN "goWriting" ELSE home[t]
    BY <1>0, <1>3, <1>11 DEF HasMore, At, Go, ThreadInv, dataVars, sendVars
  <2>2. Sending!HasMore(t)
    BY <1>1, <1>4, <1>7, <1>8, <2>1, Places DEF Sending!HasMore, Sending!Goto, SendPc, SendPlace, SendBuf, InFlight
  <2> QED
    BY <1>6, <2>2 DEF Refines, Sending!Next, Sending!Step
<1> QED
  BY <1>9, <1>10, <1>11

\* The holder of the flag takes a message, gives it to WSASend or fails to.
LEMMA HolderRefines ==
  ASSUME Inv, JobInv, NEW t \in Threads,
         PopFront(t) \/ SendAccepted(t) \/ SendRejected(t) \/ WriteFailed(t)
  PROVE  Refines
<1>0. ThreadInv /\ WriteInv /\ home[t] \in QuietLabels /\ home[t] \in {"idle", "onConnection", "message"}
  BY HomeQuiet DEF Inv, ThreadInv
<1>1. CASE PopFront(t)
  <2>1. /\ pc[t] = "pop" /\ sendQueue # <<>> /\ sendQueue' = Tail(sendQueue)
        /\ writeContext' = Head(sendQueue)
        /\ GoWith(t, "wsaSend", "write", Head(sendQueue), "ok")
        /\ UNCHANGED <<stateValue, pushed, writeInProgress, cleanupDone, posted>>
    BY <1>1 DEF PopFront, At, linkVars, closeVars, kernelVars, opVars
  <2>2. /\ pc'[t] = "wsaSend" /\ home'[t] = home[t] /\ job'[t].msg = Head(sendQueue)
        /\ MovesTo(t, "wsaSend", home[t])
    BY <1>0, <2>1, GoWithMoves DEF ThreadInv, GoWith
  <2>3. JobOf(t)'
    BY <1>0, <2>1, <2>2 DEF JobOf, Carrying
  <2>4. \A u \in Threads \ {t} : pc[u] # "wsaSend"
    BY <1>0, <2>1 DEF WriteInv, Writing
  <2>5. JobInv'
    BY <1>0, <2>1, <2>2, <2>3, <2>4, JobMove DEF JobInv
  <2>6. /\ SendPc' = [SendPc EXCEPT ![t] = SendPlace(t)'] /\ SendPc[t] = SendPlace(t)
        /\ SendBuf' = [SendBuf EXCEPT ![t] = Head(sendQueue)]
    BY <1>0, <2>2, SendMove
  <2>7. SendPlace(t) = "pop" /\ SendPlace(t)' = "wsasend"
    BY <2>1, <2>2 DEF SendPlace
  <2>8. Sending!PopFront(t)
    BY <2>1, <2>6, <2>7 DEF Sending!PopFront, Sending!Goto, SendPc, SendPlace, SendBuf, InFlight
  <2> QED
    BY <2>5, <2>8 DEF Refines, Sending!Next, Sending!Step
<1>2. CASE SendAccepted(t)
  <2>1. /\ pc[t] = "wsaSend" /\ writeContext # 0 /\ Issue("write", writeContext)
        /\ GoWith(t, "countIo", "write", 0, "ok")
        /\ UNCHANGED <<stateValue, pushed, sendQueue, writeContext, writeInProgress, cleanupDone>>
    BY <1>2 DEF SendAccepted, At, linkVars, closeVars, sendVars, queueVars
  <2>2. MovesTo(t, "countIo", home[t]) /\ JobOf(t)' /\ job'[t].msg = 0 /\ pc'[t] = "countIo"
    BY <1>0, <2>1, GoWithMoves, JobGoWith, OthersKeep DEF PlainLabels
  <2>3. /\ posted' = posted \union {[op |-> "write", msg |-> writeContext, sock |-> handle]}
        /\ job[t].msg = writeContext
    BY <2>1 DEF Issue, JobInv, JobOf
  <2> DEFINE new == [op |-> "write", msg |-> writeContext, sock |-> handle]
  <2>31. new.op = "write" /\ new.msg = job[t].msg /\ posted' = posted \union {new}
    BY <2>3
  <2> HIDE DEF new
  <2>32. \A o \in posted' : o.op # "write" => o.msg = 0
    BY <2>31 DEF JobInv
  <2>33. InFlight' = InFlight \union {job[t].msg}
    <3>1. {x \in posted' : x.op = "write"} = {x \in posted : x.op = "write"} \union {new}
      BY <2>31
    <3> QED
      BY <2>31, <3>1 DEF InFlight
  <2>4. /\ \A o \in posted' : o.op # "write" => o.msg = 0
        /\ InFlight' = InFlight \union {job[t].msg}
    BY <2>32, <2>33
  <2>5. JobInv'
    BY <1>0, <2>1, <2>2, <2>4, JobMove DEF JobInv
  <2>6. /\ SendPc' = [SendPc EXCEPT ![t] = SendPlace(t)'] /\ SendPc[t] = SendPlace(t)
        /\ SendBuf' = [SendBuf EXCEPT ![t] = 0] /\ SendBuf[t] = job[t].msg
    BY <1>0, <2>2, SendMove
  <2>7. SendPlace(t) = "wsasend" /\ SendPlace(t)' = "idle"
    BY <2>1, <2>2 DEF SendPlace
  <2>8. Sending!SendAccepted(t)
    BY <2>1, <2>4, <2>6, <2>7
    DEF Sending!SendAccepted, Sending!Goto, SendPc, SendPlace, SendBuf, InFlight
  <2> QED
    BY <2>5, <2>8 DEF Refines, Sending!Next, Sending!Step
<1>3. CASE SendRejected(t)
  <2>1. PICK err : GoWith(t, "writeFailed", "write", job[t].msg, err)
    BY <1>3 DEF SendRejected
  <2>2. /\ pc[t] = "wsaSend"
        /\ UNCHANGED <<stateValue, pushed, sendQueue, writeContext, writeInProgress, cleanupDone,
                       posted>>
    BY <1>3 DEF SendRejected, At, dataVars, linkVars, closeVars, sendVars, queueVars, kernelVars,
                opVars
  <2>3. /\ pc'[t] = "writeFailed" /\ home'[t] = home[t] /\ job'[t].msg = job[t].msg
        /\ MovesTo(t, "writeFailed", home[t])
    BY <1>0, <2>1, GoWithMoves DEF ThreadInv, GoWith
  <2>4. JobOf(t)'
    BY <1>0, <2>3 DEF JobOf, Carrying
  <2>5. JobInv'
    BY <1>0, <2>2, <2>3, <2>4, JobMove DEF JobInv
  <2>6. /\ SendPc' = [SendPc EXCEPT ![t] = SendPlace(t)'] /\ SendPc[t] = SendPlace(t)
        /\ SendBuf' = SendBuf
    BY <1>0, <2>3, SendMove DEF SendBuf
  <2>7. SendPlace(t) = "wsasend" /\ SendPlace(t)' = "write_failed"
    BY <2>2, <2>3 DEF SendPlace
  <2>8. Sending!SendRejected(t)
    BY <2>2, <2>6, <2>7
    DEF Sending!SendRejected, Sending!Goto, SendPc, SendPlace, SendBuf, InFlight
  <2> QED
    BY <2>5, <2>8 DEF Refines, Sending!Next, Sending!Step
<1>4. CASE WriteFailed(t)
  <2>1. /\ pc[t] = "writeFailed" /\ writeInProgress' = FALSE
        /\ GoWith(t, "freeFailed", "write", 0, job[t].err)
        /\ UNCHANGED <<stateValue, pushed, sendQueue, writeContext, cleanupDone, posted>>
    BY <1>4 DEF WriteFailed, At, linkVars, closeVars, queueVars, kernelVars, opVars
  <2>2. /\ MovesTo(t, "freeFailed", home[t]) /\ JobOf(t)' /\ job'[t].msg = 0
        /\ pc'[t] = "freeFailed" /\ job'[t].op = "write"
    BY <1>0, <2>1, GoWithMoves, JobGoWith, OthersKeep DEF PlainLabels
  <2>3. JobInv'
    BY <1>0, <2>1, <2>2, JobMove DEF JobInv
  <2>4. /\ SendPc' = [SendPc EXCEPT ![t] = SendPlace(t)'] /\ SendPc[t] = SendPlace(t)
        /\ SendBuf' = [SendBuf EXCEPT ![t] = 0]
    BY <1>0, <2>2, SendMove
  <2>5. SendPlace(t) = "write_failed" /\ SendPlace(t)' = "error"
    BY <2>1, <2>2 DEF SendPlace
  <2>6. Sending!WriteFailed(t)
    BY <2>1, <2>4, <2>5
    DEF Sending!WriteFailed, Sending!Goto, SendPc, SendPlace, SendBuf, InFlight
  <2> QED
    BY <2>3, <2>6 DEF Refines, Sending!Next, Sending!Step
<1> QED
  BY <1>1, <1>2, <1>3, <1>4

\* A write is over.
LEMMA WriteOverRefines ==
  ASSUME Inv, JobInv, NEW t \in Threads, OnWrite(t) \/ (OnError(t) /\ job[t].op = "write")
  PROVE  Refines
<1>0. ThreadInv
  BY DEF Inv
<1>1. /\ UNCHANGED <<stateValue, pushed, sendQueue, cleanupDone, posted>>
      /\ writeInProgress' = FALSE /\ writeContext' \in {writeContext, 0}
  BY DEF OnWrite, OnError, WriteOver, linkVars, closeVars, queueVars, kernelVars, opVars
<1>2. CASE OnWrite(t)
  <2>1. pc[t] = "onWrite" /\ GoWith(t, "hasMore", "write", 0, "ok")
    BY <1>2 DEF OnWrite, At
  <2>2. /\ MovesTo(t, "hasMore", home[t]) /\ JobOf(t)' /\ job'[t].msg = 0 /\ pc'[t] = "hasMore"
    BY <1>0, <2>1, GoWithMoves, JobGoWith, OthersKeep DEF PlainLabels
  <2>3. JobInv'
    BY <1>0, <1>1, <2>2, JobMove DEF JobInv
  <2>4. /\ SendPc' = [SendPc EXCEPT ![t] = SendPlace(t)'] /\ SendPc[t] = SendPlace(t)
        /\ SendBuf' = [SendBuf EXCEPT ![t] = 0]
    BY <1>0, <2>2, SendMove
  <2>5. SendPlace(t) = "on_write" /\ SendPlace(t)' = "has_more"
    BY <2>1, <2>2 DEF SendPlace
  <2>6. Sending!OnWrite(t)
    BY <1>1, <2>4, <2>5 DEF Sending!OnWrite, Sending!Goto, SendPc, SendPlace, SendBuf, InFlight
  <2> QED
    BY <2>3, <2>6 DEF Refines, Sending!Next, Sending!Step
<1>3. CASE OnError(t) /\ job[t].op = "write"
  <2>1. pc[t] = "onError" /\ GoWith(t, "errorTail", "write", 0, job[t].err)
    BY <1>3 DEF OnError, At
  <2>2. /\ MovesTo(t, "errorTail", home[t]) /\ JobOf(t)' /\ job'[t].msg = 0
        /\ pc'[t] = "errorTail" /\ job'[t].op = "write"
    BY <1>0, <2>1, GoWithMoves, JobGoWith, OthersKeep DEF PlainLabels
  <2>3. JobInv'
    BY <1>0, <1>1, <2>2, JobMove DEF JobInv
  <2>4. /\ SendPc' = [SendPc EXCEPT ![t] = SendPlace(t)'] /\ SendPc[t] = SendPlace(t)
        /\ SendBuf' = [SendBuf EXCEPT ![t] = 0]
    BY <1>0, <2>2, SendMove
  <2>5. SendPlace(t) = "on_write_error" /\ SendPlace(t)' = "error"
    BY <1>3, <2>1, <2>2, Places DEF SendPlace
  <2>6. Sending!OnWriteError(t)
    BY <1>1, <2>4, <2>5
    DEF Sending!OnWriteError, Sending!Goto, SendPc, SendPlace, SendBuf, InFlight
  <2> QED
    BY <2>3, <2>6 DEF Refines, Sending!Next, Sending!Step
<1> QED
  BY <1>2, <1>3
\* The failure is reported to cleanup_().
LEMMA ReportRefines ==
  ASSUME Inv, JobInv, NEW t \in Threads, ErrorTail(t) \/ Cleanup(t)
  PROVE  Refines
<1>0. ThreadInv
  BY DEF Inv
<1>1. /\ UNCHANGED <<stateValue, pushed, sendQueue, writeInProgress, writeContext, posted>>
      /\ cleanupDone' \in {cleanupDone, TRUE}
      /\ pc[t] \in {"errorTail", "cleanup"} /\ ~Carrying(t) /\ home[t] \in QuietLabels
  BY HomeQuiet DEF ErrorTail, Cleanup, dataVars, linkVars, closeVars, sendVars, queueVars, kernelVars,
         opVars, At, Carrying
<1>2. \/ ErrorTail(t) /\ Go(t, "cleanup") /\ cleanupDone' = cleanupDone
      \/ Go(t, home[t]) /\ cleanupDone' = TRUE
      \/ Go(t, "cancelTimer") /\ cleanupDone' = TRUE
      \/ GoWith(t, "doCleanup", job[t].op, 0, cleanupErr) /\ cleanupDone' = TRUE
  BY DEF ErrorTail, Cleanup, Return, JobInv, dataVars, closeVars
<1>3. PICK to \in {"cleanup", "cancelTimer", "doCleanup"} \union {home[t]} :
        /\ MovesTo(t, to, home[t]) /\ JobOf(t)' /\ job'[t].msg = 0 /\ job[t].msg = 0
        /\ pc'[t] = to
        /\ \/ to = "cleanup" /\ pc[t] = "errorTail" /\ job'[t].op = job[t].op
              /\ cleanupDone' = cleanupDone
           \/ to \in QuietLabels /\ cleanupDone' = TRUE
  <2>1. \A to \in {"cleanup", "cancelTimer"} \union {home[t]} : Go(t, to) =>
          /\ MovesTo(t, to, home[t]) /\ JobOf(t)' /\ job'[t].msg = 0 /\ job[t].msg = 0
          /\ pc'[t] = to /\ (to # home[t] => job'[t] = job[t])
    <3> SUFFICES ASSUME NEW to \in {"cleanup", "cancelTimer"} \union {home[t]}, Go(t, to)
                 PROVE  /\ MovesTo(t, to, home[t]) /\ JobOf(t)' /\ job'[t].msg = 0
                        /\ job[t].msg = 0 /\ pc'[t] = to /\ (to # home[t] => job'[t] = job[t])
      OBVIOUS
    <3>1. to # "wsaSend"
      BY <1>1 DEF QuietLabels
    <3> QED
      BY <1>0, <1>1, <3>1, JobGo, GoMoves, OthersKeep
  <2>2. CASE ErrorTail(t) /\ Go(t, "cleanup") /\ cleanupDone' = cleanupDone
    <3>1. home[t] # "cleanup" /\ pc[t] = "errorTail"
      BY <1>1, <2>2 DEF QuietLabels, ErrorTail, At
    <3> QED
      BY <2>1, <2>2, <3>1
  <2>3. CASE Go(t, home[t]) /\ cleanupDone' = TRUE
    BY <1>1, <2>1, <2>3
  <2>4. CASE Go(t, "cancelTimer") /\ cleanupDone' = TRUE
    <3>1. "cancelTimer" \in QuietLabels
      BY DEF QuietLabels, Labels
    <3> QED
      BY <2>1, <2>4, <3>1
  <2>5. CASE GoWith(t, "doCleanup", job[t].op, 0, cleanupErr) /\ cleanupDone' = TRUE
    <3>1. MovesTo(t, "doCleanup", home[t]) /\ JobOf(t)' /\ job'[t].msg = 0 /\ pc'[t] = "doCleanup"
      BY <1>0, <2>5, GoWithMoves, JobGoWith, OthersKeep DEF PlainLabels
    <3>2. job[t].msg = 0
      BY <1>1 DEF JobInv, JobOf
    <3> QED
      BY <2>5, <3>1, <3>2 DEF QuietLabels, Labels
  <2> QED
    BY <1>2, <2>2, <2>3, <2>4, <2>5
<1>4. JobInv'
  BY <1>0, <1>1, <1>3, JobMove DEF JobInv
<1>5. CASE job[t].op # "write" \/ to = "cleanup"
  <2>1. SendPlace(t)' = SendPlace(t)
    BY <1>1, <1>3, <1>5 DEF SendPlace, QuietLabels
  <2>2. Sending!Elsewhere
    BY <1>0, <1>1, <1>3, <2>1, QuietStep DEF InFlight
  <2> QED
    BY <1>4, <2>2 DEF Refines, Sending!Next
<1>6. CASE job[t].op = "write" /\ to # "cleanup"
  <2>1. SendPlace(t) = "error" /\ SendPlace(t)' = "idle" /\ cleanupDone' = TRUE
    BY <1>1, <1>3, <1>6, Places DEF SendPlace, QuietLabels
  <2>2. /\ SendPc' = [SendPc EXCEPT ![t] = SendPlace(t)'] /\ SendPc[t] = SendPlace(t)
        /\ SendBuf' = [SendBuf EXCEPT ![t] = job'[t].msg] /\ SendBuf[t] = job[t].msg
    BY <1>0, <1>3, SendMove
  <2>3. SendBuf' = SendBuf
    BY <1>3, <2>2 DEF SendBuf
  <2>4. Sending!Error(t)
    BY <1>1, <2>1, <2>2, <2>3
    DEF Sending!Error, Sending!Goto, SendPc, SendPlace, SendBuf, InFlight
  <2> QED
    BY <1>4, <2>4 DEF Refines, Sending!Next, Sending!Step
<1> QED
  BY <1>5, <1>6

\* A packet is dequeued: that of the write SendPath knows of, or one it does not see.
LEMMA DispatchRefines ==
  ASSUME Inv, JobInv, NEW t \in Threads, Dispatch(t)
  PROVE  Refines
<1>0. ThreadInv /\ WriteInv
  BY DEF Inv
<1>1. PICK o \in posted, outcome \in Errors \union {"eof"} :
        /\ posted' = posted \ {o}
        /\ GoWith(t, "decrIo", o.op, o.msg, outcome)
  BY DEF Dispatch, Outcomes, Errors
<1>2. /\ pc[t] = "idle" /\ home[t] = "idle" /\ t \in Pollers
      /\ UNCHANGED <<stateValue, pushed, sendQueue, writeInProgress, writeContext, cleanupDone>>
  BY <1>0 DEF Dispatch, At, ThreadInv, LineLabels, linkVars, sendVars, queueVars, closeVars
<1>3. o.op \in {"connect", "read", "write"}
  BY <1>0 DEF ThreadInv
<1>5. /\ MovesTo(t, "decrIo", "idle") /\ pc'[t] = "decrIo"
      /\ job'[t].op = o.op /\ job'[t].msg = o.msg
  BY <1>0, <1>1, <1>2, GoWithMoves DEF GoWith, ThreadInv
<1>6. o.op # "write" => o.msg = 0
  BY DEF JobInv
<1>7. JobOf(t)'
  <2>1. home'[t] = "idle"
    BY <1>0, <1>5, OthersKeep
  <2> QED
    BY <1>5, <1>6, <2>1 DEF JobOf, Carrying
<1>8. JobInv'
  <2>1. \A p \in posted' : p.op # "write" => p.msg = 0
    BY <1>1 DEF JobInv
  <2> QED
    BY <1>0, <1>2, <1>5, <1>7, <2>1, JobMove DEF JobInv
<1>9. SendPlace(t) = "idle" /\ job[t].msg = 0
  BY <1>2, InUser DEF NoJob
<1>10. CASE o.op # "write"
  <2>1. SendPlace(t)' = "idle"
    BY <1>5, <1>10 DEF SendPlace
  <2>2. InFlight' = InFlight
    <3>1. {x \in posted' : x.op = "write"} = {x \in posted : x.op = "write"}
      BY <1>1, <1>10
    <3> QED
      BY <3>1 DEF InFlight
  <2>3. Sending!Elsewhere
    BY <1>0, <1>2, <1>5, <1>6, <1>9, <1>10, <2>1, <2>2, QuietStep
  <2> QED
    BY <1>8, <2>3 DEF Refines, Sending!Next
<1>11. CASE o.op = "write"
  <2>1. PICK handler \in {"on_write", "on_write_error"} : SendPlace(t)' = handler
    BY <1>5, <1>11 DEF SendPlace
  <2>2. o.msg \in InFlight /\ InFlight' = InFlight \ {o.msg}
    <3>1. {x \in posted : x.op = "write"} = {o} /\ {x \in posted' : x.op = "write"} = {}
      BY <1>0, <1>1, <1>11 DEF WriteInv
    <3> QED
      BY <3>1 DEF InFlight
  <2>3. /\ SendPc' = [SendPc EXCEPT ![t] = handler] /\ SendPc[t] = "idle"
        /\ SendBuf' = [SendBuf EXCEPT ![t] = o.msg]
    BY <1>0, <1>5, <1>9, <2>1, SendMove
  <2>4. Sending!Dispatch(t)
    <3>1. /\ InFlight' = InFlight \ {o.msg}
          /\ SendBuf' = [SendBuf EXCEPT ![t] = o.msg]
          /\ SendPc[t] = "idle" /\ SendPc' = [SendPc EXCEPT ![t] = handler]
          /\ o.msg \in InFlight
      BY <2>2, <2>3
    <3> QED
      BY <1>2, <3>1 DEF Sending!Dispatch, Sending!Goto, SendPc, SendPlace, SendBuf, InFlight
  <2> QED
    BY <1>8, <2>4 DEF Refines, Sending!Next
<1> QED
  BY <1>10, <1>11

\* The handler is called: SendPath has it called with the packet.
LEMMA DecrIoRefines ==
  ASSUME Inv, JobInv, NEW t \in Threads, DecrIo(t)
  PROVE  Refines
<1>0. ThreadInv
  BY DEF Inv
<1>1. UNCHANGED <<pushed, sendQueue, writeInProgress, writeContext, posted, cleanupDone>>
  BY DEF DecrIo, closeVars, sendVars, queueVars, kernelVars, opVars
<1>2. /\ pc[t] = "decrIo" /\ home[t] = "idle"
      /\ job[t].op \in {"connect", "read", "write"}
  BY <1>0 DEF DecrIo, At, ThreadInv
<1> DEFINE to == Handler(job[t].op, job[t].err)
<1>3. /\ to \in {"onConnect", "onRead", "onWrite", "onError"}
      /\ job[t].op = "write" => to \in {"onWrite", "onError"}
      /\ to = "onWrite" => job[t].op = "write"
  BY <1>2 DEF Handler
<1>4. Go(t, to)
  BY DEF DecrIo
<1>41. job[t].op = "write" => to = Handler("write", job[t].err)
  OBVIOUS
<1> HIDE DEF to
<1>5. MovesTo(t, to, "idle") /\ job'[t] = job[t] /\ pc'[t] = to /\ home'[t] = "idle"
  BY <1>0, <1>2, <1>3, <1>4, GoMoves, OthersKeep
<1>6. JobOf(t)'
  BY <1>2, <1>3, <1>5 DEF JobInv, JobOf, Carrying
<1>7. JobInv'
  BY <1>0, <1>1, <1>5, <1>6, JobMove DEF JobInv
<1>8. SendPlace(t)' = SendPlace(t)
  <2>1. CASE job[t].op # "write"
    BY <1>2, <1>3, <1>5, <2>1 DEF SendPlace
  <2>2. CASE job[t].op = "write"
    BY <1>2, <1>3, <1>41, <1>5, <2>2 DEF SendPlace
  <2> QED
    BY <2>1, <2>2
<1>9. Sending!Elsewhere
  BY <1>0, <1>1, <1>5, <1>8, QuietStep DEF InFlight
<1> QED
  BY <1>7, <1>9 DEF Refines, Sending!Next

LEMMA StutterRefines ==
  ASSUME JobInv, UNCHANGED <<linkVars, sendVars, cleanupDone, kernelVars, threadVars>>
  PROVE  Refines
<1>1. JobInv'
  BY DEF JobInv, JobOf, Carrying, linkVars, sendVars, kernelVars, opVars, threadVars
<1>2. UNCHANGED <<stateValue, cleanupDone, pushed, sendQueue, writeInProgress, posted, pc, job>>
  BY DEF linkVars, sendVars, queueVars, kernelVars, opVars, threadVars
<1>3. UNCHANGED Sending!vars
  BY <1>2 DEF Sending!vars, SendPc, SendBuf, SendPlace, InFlight
<1> QED
  BY <1>1, <1>3 DEF Refines

LEMMA InitRefines == Init => JobInv /\ Sending!Init
<1> SUFFICES ASSUME Init PROVE JobInv /\ Sending!Init
  OBVIOUS
<1>1. /\ pc \in [Threads -> {"onConnection", "idle"}] /\ home = pc
      /\ job = [t \in Threads |-> NoJob]
      /\ pushed = 0 /\ sendQueue = <<>> /\ writeInProgress = FALSE /\ posted = {}
      /\ cleanupDone = FALSE
  BY DEF Init
<1>2. JobInv
  BY <1>1 DEF JobInv, JobOf, NoJob
<1>3. Sending!Init
  BY <1>1 DEF Sending!Init, NoJob, SendPc, SendBuf, SendPlace, InFlight
<1> QED
  BY <1>2, <1>3

LEMMA NextRefines ==
  ASSUME Inv, JobInv, [Next]_vars
  PROVE  JobInv' /\ [Sending!Next]_(Sending!vars)
<1>1. CASE UNCHANGED vars
  BY <1>1, StutterRefines DEF vars, dataVars, closeVars, Refines
<1>2. ASSUME NEW t \in Threads, UserCall(t)
      PROVE  Refines
  BY <1>2, LinkRefines, SendRefines, ClosingRefines DEF UserCall
<1>3. ASSUME NEW t \in Threads, Step(t)
      PROVE  Refines
  BY <1>3, ClosingRefines, LinkRefines, FailureRefines, UserRefines, SuccessRefines, IssueRefines,
     FreeFailedRefines, ClaimRefines, HolderRefines, WriteOverRefines, ReportRefines,
     DecrIoRefines DEF Step
<1>4. ASSUME NEW t \in Threads, Undefined(t)
      PROVE  Refines
  BY <1>4, StutterRefines
  DEF Undefined, NullChannel, StaleChannel, NullContext, DoubleFree, Fails, closeVars
<1> QED
  BY <1>1, <1>2, <1>3, <1>4, DispatchRefines, FailureRefines DEF Next, Refines

\* The sending half of a connection that opens one socket, with everything else the
\* connection does around it and in any number of threads, is what SendPath describes:
\* each step is one of send(), of go_writing_() or of the completion of a write, or
\* leaves the queue, the flag, the messages in flight and those in hand alone.
THEOREM SendsAsSpecified == MaxConnects <= 1 => (Spec => ImplementsSendPath)
<1>1. Inv /\ JobInv /\ [Next]_vars => JobInv' /\ [Sending!Next]_(Sending!vars)
  BY NextRefines
<1> QED
  BY <1>1, InitRefines, Invariance, PTL DEF Spec, ImplementsSendPath, Sending!Spec

-----------------------------------------------------------------------------
\* SendPathProofs is about SendPath for any values of its parameters, and so about the
\* send path of a connection.
Sent == INSTANCE SendPathProofs WITH
  connected <- stateValue = "Connected", closing <- cleanupDone,
  inflight <- InFlight, pc <- SendPc, sendBuf <- SendBuf

\* What SendPath assumes of its parameters holds here.
LEMMA SentAssumption == Sent!SendPathAssumption
  BY IOCPConnAssumption DEF Threads, Sent!SendPathAssumption

\* Sending and Sent are the same module with the same parameters.
LEMMA SameInit == Sending!Init => Sent!Init
  BY DEF Sending!Init, Sent!Init

LEMMA SameNext == [Sending!Next]_(Sending!vars) => [Sent!Next]_(Sent!vars)
<1>1. ASSUME NEW t \in Threads
      PROVE  Sending!Send(t) => Sent!Send(t)
  BY DEF Sending!Send, Sent!Send, Sending!Goto, Sent!Goto
<1>2. ASSUME NEW t \in Threads
      PROVE  Sending!Dispatch(t) => Sent!Dispatch(t)
  BY DEF Sending!Dispatch, Sent!Dispatch, Sending!Goto, Sent!Goto
<1>3. ASSUME NEW t \in Threads
      PROVE  Sending!Step(t) => Sent!Step(t)
  <2>1. Sending!Claim(t) => Sent!Claim(t)
    BY DEF Sending!Claim, Sent!Claim, Sending!Goto, Sent!Goto
  <2>2. Sending!PopNothing(t) => Sent!PopNothing(t)
    BY DEF Sending!PopNothing, Sent!PopNothing, Sending!Goto, Sent!Goto
  <2>3. Sending!PopFront(t) => Sent!PopFront(t)
    BY DEF Sending!PopFront, Sent!PopFront, Sending!Goto, Sent!Goto
  <2>4. Sending!SendAccepted(t) => Sent!SendAccepted(t)
    BY DEF Sending!SendAccepted, Sent!SendAccepted, Sending!Goto, Sent!Goto
  <2>5. Sending!SendRejected(t) => Sent!SendRejected(t)
    BY DEF Sending!SendRejected, Sent!SendRejected, Sending!Goto, Sent!Goto
  <2>6. Sending!WriteFailed(t) => Sent!WriteFailed(t)
    BY DEF Sending!WriteFailed, Sent!WriteFailed, Sending!Goto, Sent!Goto
  <2>7. Sending!OnWrite(t) => Sent!OnWrite(t)
    BY DEF Sending!OnWrite, Sent!OnWrite, Sending!Goto, Sent!Goto
  <2>8. Sending!HasMore(t) => Sent!HasMore(t)
    BY DEF Sending!HasMore, Sent!HasMore, Sending!Goto, Sent!Goto
  <2>9. Sending!OnWriteError(t) => Sent!OnWriteError(t)
    BY DEF Sending!OnWriteError, Sent!OnWriteError, Sending!Goto, Sent!Goto
  <2>10. Sending!Error(t) => Sent!Error(t)
    BY DEF Sending!Error, Sent!Error, Sending!Goto, Sent!Goto
  <2> QED
    BY <2>1, <2>2, <2>3, <2>4, <2>5, <2>6, <2>7, <2>8, <2>9, <2>10 DEF Sending!Step, Sent!Step
<1>4. Sending!Elsewhere => Sent!Elsewhere
  BY DEF Sending!Elsewhere, Sent!Elsewhere
<1>5. Sending!Next => Sent!Next
  BY <1>1, <1>2, <1>3, <1>4 DEF Sending!Next, Sent!Next
<1>6. UNCHANGED Sending!vars => UNCHANGED Sent!vars
  BY DEF Sending!vars, Sent!vars
<1> QED
  BY <1>5, <1>6

LEMMA SameSender ==
  /\ Sent!Abstract!Init => Sending!Abstract!Init
  /\ [Sent!Abstract!Next]_(Sent!Abstract!vars) => [Sending!Abstract!Next]_(Sending!Abstract!vars)
<1>1. Sent!taken = Sending!taken /\ Sent!current = Sending!current
  BY DEF Sent!taken, Sending!taken, Sent!current, Sending!current,
     Sent!Carriers, Sending!Carriers, Sent!Holders, Sending!Holders
<1>2. (Sent!taken)' = (Sending!taken)' /\ (Sent!current)' = (Sending!current)'
  BY DEF Sent!taken, Sending!taken, Sent!current, Sending!current,
     Sent!Carriers, Sending!Carriers, Sent!Holders, Sending!Holders
<1>3. Sent!Abstract!Init => Sending!Abstract!Init
  BY <1>1 DEF Sent!Abstract!Init, Sending!Abstract!Init
<1>4. ASSUME [Sent!Abstract!Next]_(Sent!Abstract!vars)
      PROVE  [Sending!Abstract!Next]_(Sending!Abstract!vars)
  BY <1>1, <1>2, <1>4
  DEF Sent!Abstract!Next, Sent!Abstract!Accept, Sent!Abstract!Take, Sent!Abstract!Finish,
      Sent!Abstract!vars, Sending!Abstract!Next, Sending!Abstract!Accept,
      Sending!Abstract!Take, Sending!Abstract!Finish, Sending!Abstract!vars
<1> QED
  BY <1>3, <1>4

\* A connection that opens one socket hands the messages of the callers of send() to
\* the socket one at a time, in the order of the calls, none twice and none skipped,
\* whatever else the connection does and however many threads poll and call: it
\* implements SendPath, and SendPath implements OrderedSender.
THEOREM SendsInOrder == MaxConnects <= 1 => (Spec => Sending!ImplementsOrderedSender)
<1>1. Sent!Spec => Sent!ImplementsOrderedSender
  BY SentAssumption, Sent!OrderKept
<1>2. ImplementsSendPath => Sending!ImplementsOrderedSender
  BY <1>1, SameInit, SameNext, SameSender, PTL
  DEF ImplementsSendPath, Sending!Spec, Sent!Spec, Sent!ImplementsOrderedSender,
      Sent!Abstract!Spec, Sending!ImplementsOrderedSender, Sending!Abstract!Spec
<1> QED
  BY <1>2, SendsAsSpecified

\* A message queued in a connection that opens one socket is never forgotten while the
\* connection lives: a write is in flight, or a thread is inside the send path and will
\* look at the queue again.
THEOREM NoneForgotten == MaxConnects <= 1 => (Spec => []Sending!NoStrandedMessage)
<1>1. Sent!Spec => []Sent!NoStrandedMessage
  BY SentAssumption, Sent!NothingStranded
<1>2. Sent!NoStrandedMessage => Sending!NoStrandedMessage
  BY DEF Sent!NoStrandedMessage, Sending!NoStrandedMessage
<1>3. ImplementsSendPath => []Sending!NoStrandedMessage
  BY <1>1, <1>2, SameInit, SameNext, PTL DEF ImplementsSendPath, Sending!Spec, Sent!Spec
<1> QED
  BY <1>3, SendsAsSpecified

-----------------------------------------------------------------------------
\* A thread does something of its own accord or goes on.
Acts(t) == UserCall(t) \/ Dispatch(t) \/ TimerFires(t) \/ Step(t)

\* One thread acts and the others stay where they are.
LEMMA ActsMoves ==
  ASSUME ThreadInv, NEW t \in Threads, Acts(t)
  PROVE  \E to, back : MovesTo(t, to, back)
<1>1. CASE UserCall(t)
  BY <1>1, GoMoves DEF UserCall, Connect, Send, Close, Shutdown
<1>2. CASE Dispatch(t) \/ TimerFires(t)
  BY <1>2, GoWithMoves DEF Dispatch, TimerFires
<1>3. CASE Step(t)
  <2>1. CASE \/ ConnectPending(t) \/ ConnectRefused(t) \/ CountIo(t) \/ Start(t) \/ StartFails(t)
             \/ GoReading(t) \/ RecvAccepted(t) \/ GoWriting(t) \/ PopNothing(t) \/ FreeFailed(t)
             \/ HasMore(t) \/ DecrIo(t)
    BY <2>1, GoMoves DEF DecrIo, ConnectPending, ConnectRefused, CountIo, Start, StartFails, GoReading,
       RecvAccepted, GoWriting, PopNothing, FreeFailed, HasMore, Return
  <2>2. CASE \/ RecvRejected(t) \/ PopFront(t) \/ SendAccepted(t) \/ SendRejected(t)
             \/ WriteFailed(t) \/ OnWrite(t) \/ OnError(t)
    BY <2>2, GoWithMoves DEF RecvRejected, PopFront, SendAccepted, SendRejected, WriteFailed,
       OnWrite, OnError
  <2>3. CASE EndOnConnection(t) \/ EndMessage(t)
    BY <2>3, UserMoves DEF EndOnConnection, EndMessage
  <2>4. CASE OnRead(t) \/ OnConnect(t) \/ ErrorTail(t)
    BY <2>4, GoMoves, GoWithMoves, UserMoves DEF OnRead, OnConnect, ErrorTail, Return
  <2>5. CASE \/ ShutdownState(t) \/ AddTimer(t) \/ Cleanup(t) \/ CancelTimer(t) \/ CheckIo(t)
             \/ CancelIo(t) \/ StoreErr(t) \/ DoCleanup(t) \/ Reset(t)
    BY <2>5, GoMoves DEF ShutdownState, AddTimer, Cleanup, CancelTimer, CheckIo, CancelIo,
       StoreErr, DoCleanup, Reset, Return
  <2> QED
    BY <1>3, <2>1, <2>2, <2>3, <2>4, <2>5 DEF Step
<1> QED
  BY <1>1, <1>2, <1>3 DEF Acts

LEMMA OthersStay ==
  ASSUME ThreadInv, NEW t \in Threads, Acts(t)
  PROVE  \A u \in Threads \ {t} : pc'[u] = pc[u] /\ home'[u] = home[u] /\ job'[u] = job[u]
BY ActsMoves, OthersKeep DEF MovesTo

taken == pushed - Len(sendQueue)

\* The queue holds the messages from the first one not taken to the last one queued.
QueueInv ==
  /\ pushed \in Nat
  /\ sendQueue \in Seq(Nat)
  /\ Len(sendQueue) <= pushed
  /\ \A i \in 1..Len(sendQueue) : sendQueue[i] = taken + i

\* Only send() and go_writing_() touch the queue.
LEMMA QueueFrame ==
  ASSUME NEW t \in Threads, Acts(t)
  PROVE  \/ UNCHANGED <<pushed, sendQueue>>
         \/ pushed' = pushed + 1 /\ sendQueue' = Append(sendQueue, pushed + 1) /\ Send(t)
         \/ pushed' = pushed /\ sendQueue # <<>> /\ sendQueue' = Tail(sendQueue) /\ PopFront(t)
<1>1. CASE UserCall(t)
  BY <1>1 DEF UserCall, Connect, Send, Close, Shutdown, sendVars, queueVars, dataVars
<1>2. CASE Dispatch(t) \/ TimerFires(t)
  BY <1>2 DEF Dispatch, TimerFires, sendVars, queueVars
<1>3. CASE Step(t)
  BY <1>3 DEF Step, ConnectPending, ConnectRefused, CountIo, EndOnConnection, Start,
     StartFails, GoReading, RecvAccepted, RecvRejected, DecrIo, OnRead, EndMessage, GoWriting,
     PopNothing, PopFront, SendAccepted, SendRejected, WriteFailed, FreeFailed, OnWrite,
     HasMore, OnConnect, OnError, ErrorTail, ShutdownState, AddTimer, Cleanup, CancelTimer, CheckIo,
     CancelIo, StoreErr, DoCleanup, Reset, sendVars, queueVars, dataVars
<1> QED
  BY <1>1, <1>2, <1>3 DEF Acts

\* The queue is what it was, or one message longer at its end, or shorter at its front.
LEMMA QueueKeeps ==
  ASSUME QueueInv, NEW t \in Threads, Acts(t)
  PROVE  QueueInv' /\ (taken' = taken \/ (PopFront(t) /\ taken' = taken + 1))
<1>1. CASE UNCHANGED <<pushed, sendQueue>>
  BY <1>1 DEF QueueInv, taken
<1>2. CASE pushed' = pushed + 1 /\ sendQueue' = Append(sendQueue, pushed + 1) /\ Send(t)
  <2>1. /\ Len(sendQueue) \in Nat /\ Len(sendQueue') = Len(sendQueue) + 1 /\ sendQueue' \in Seq(Nat)
        /\ \A i \in 1..Len(sendQueue) : sendQueue'[i] = sendQueue[i]
        /\ sendQueue'[Len(sendQueue) + 1] = pushed + 1
    BY <1>2 DEF QueueInv
  <2>2. taken' = taken
    BY <1>2, <2>1 DEF QueueInv, taken
  <2>3. \A i \in 1..Len(sendQueue') : sendQueue'[i] = taken' + i
    BY <1>2, <2>1, <2>2 DEF QueueInv, taken
  <2> QED
    BY <1>2, <2>1, <2>2, <2>3 DEF QueueInv
<1>3. CASE pushed' = pushed /\ sendQueue # <<>> /\ sendQueue' = Tail(sendQueue) /\ PopFront(t)
  <2>1. /\ Len(sendQueue) \in Nat \ {0} /\ Len(sendQueue') = Len(sendQueue) - 1
        /\ sendQueue' \in Seq(Nat)
        /\ \A i \in 1..Len(sendQueue') : sendQueue'[i] = sendQueue[i + 1]
    BY <1>3 DEF QueueInv
  <2>2. taken' = taken + 1 /\ taken \in Nat
    <3>1. Len(sendQueue') = Len(sendQueue) - 1 /\ Len(sendQueue) \in Nat /\ pushed' = pushed
      BY <1>3, <2>1
    <3> QED
      BY <3>1 DEF QueueInv, taken
  <2>3. \A i \in 1..Len(sendQueue') : sendQueue'[i] = taken' + i
    <3> SUFFICES ASSUME NEW i \in 1..Len(sendQueue') PROVE sendQueue'[i] = taken' + i
      OBVIOUS
    <3> DEFINE n == Len(sendQueue)
               m == Len(sendQueue')
    <3>0. n \in Nat /\ m = n - 1 /\ i \in 1..m
      BY <2>1
    <3> HIDE DEF n, m
    <3>1. i + 1 \in 1..n /\ i \in Nat
      BY <3>0
    <3>2. sendQueue'[i] = sendQueue[i + 1] /\ i + 1 \in 1..Len(sendQueue)
      BY <2>1, <3>1 DEF n
    <3>3. sendQueue[i + 1] = taken + (i + 1)
      BY <3>2 DEF QueueInv
    <3> QED
      BY <2>2, <3>1, <3>2, <3>3
  <2>4. Len(sendQueue') <= pushed'
    BY <1>3, <2>1 DEF QueueInv
  <2> QED
    BY <1>3, <2>1, <2>2, <2>3, <2>4 DEF QueueInv
<1> QED
  BY <1>1, <1>2, <1>3, QueueFrame

-----------------------------------------------------------------------------
\* Types.  Only the counter's is more than its assignments: it is bounded because each
\* operation has been asked for by one connect, one message or one read that came in.

LinkTyped ==
  /\ opened \in 0..MaxConnects
  /\ stateValue \in {"Disconnected", "Connecting", "Connected", "Disconnecting"}
  /\ handle \in 0..opened /\ channel \in 0..opened
  /\ sock \in [Sockets -> {"new", "unconnected", "connected", "half", "closed"}]

TimerTyped ==
  /\ nextTimerId \in Nat \ {0}
  /\ closeTimerId \in 0..nextTimerId - 1 /\ timers \subseteq 1..nextTimerId - 1

FlagsTyped ==
  /\ readPending \in BOOLEAN /\ writeInProgress \in BOOLEAN
  /\ cleanupDone \in BOOLEAN /\ lateSuccess \in BOOLEAN
  /\ fault \in {"none", "nullChannel", "staleChannel", "nullContext", "doubleFree"}

\* Only a read that has just been dequeued is at the end of the stream.
JobTyped ==
  /\ job \in [Threads -> Job]
  /\ \A t \in Threads :
       /\ job[t].err = "eof" => pc[t] \in {"decrIo", "onRead"} /\ job[t].op = "read"
       /\ Carrying(t) => job[t].msg # 0
       /\ job[t].msg <= pushed

MessagesTyped ==
  /\ pushed \in 0..MaxSends
  /\ sendQueue \in Seq(1..pushed)
  /\ writeContext \in 0..pushed
  /\ freed \subseteq 1..pushed

KernelTyped ==
  /\ posted \subseteq Operation /\ cancelled \subseteq posted
  /\ \A o \in posted : o.msg <= pushed /\ (o.op = "write" => o.msg # 0)
  /\ received \in 0..MaxReceives

ReportTyped == cleanupErr \in Errors /\ cause \in Errors /\ closes \in Seq(Errors)

Typed ==
  /\ LinkTyped /\ TimerTyped /\ FlagsTyped /\ JobTyped /\ MessagesTyped /\ KernelTyped
  /\ ReportTyped

\* An operation was handed over and is about to be counted.
Counters == {t \in Threads : pc[t] = "countIo"}

\* The thread will issue the next operation at the line of control, as far as it knows.
Asking(t) ==
  /\ OnLine(t) /\ job[t].err # "eof"
  /\ pc[t] = "decrIo" => job[t].err = "ok"

\* Operations that will be handed over without another message or another read.
LineAsks ==
  IF \E t \in Threads : pc[t] = "connectEx" THEN 2
  ELSE IF \/ \E o \in posted : o.op = "connect"
          \/ \E t \in Threads : Asking(t) THEN 1
  ELSE 0

WriteAsks == IF \E t \in Threads : pc[t] = "wsaSend" THEN 1 ELSE 0

BudgetInv ==
  /\ IsFiniteSet(Counters) /\ ioCount \in Nat
  /\ ioCount + Cardinality(Counters) + LineAsks + WriteAsks <= opened + 1 + received + taken

LEMMA InitTyped == Init => Typed /\ QueueInv /\ BudgetInv
<1> SUFFICES ASSUME Init PROVE Typed /\ QueueInv /\ BudgetInv
  OBVIOUS
<1>1. PICK acceptor \in IF Accepted THEN {{}} \union {{t} : t \in Pollers} ELSE {{}} :
        /\ opened = (IF acceptor # {} THEN 1 ELSE 0)
        /\ handle = opened
        /\ stateValue = (IF acceptor # {} THEN "Connecting" ELSE "Disconnected")
        /\ sock = [s \in Sockets |-> IF s <= opened THEN "connected" ELSE "new"]
        /\ pc = [t \in Threads |-> IF t \in acceptor THEN "onConnection" ELSE "idle"]
        /\ home = pc
        /\ job = [t \in Threads |-> NoJob]
        /\ channel = 0 /\ ioCount = 0 /\ readPending = FALSE
        /\ pushed = 0 /\ sendQueue = <<>> /\ writeInProgress = FALSE
        /\ writeContext = 0 /\ freed = {}
        /\ cleanupDone = FALSE /\ cleanupErr = "ok"
        /\ closeTimerId = 0 /\ nextTimerId = 1 /\ timers = {}
        /\ posted = {} /\ cancelled = {}
        /\ received = 0 /\ closes = <<>> /\ cause = "ok"
        /\ lateSuccess = FALSE /\ fault = "none"
  BY DEF Init
<1>2. MaxConnects \in Nat /\ MaxSends \in Nat /\ MaxReceives \in Nat
  BY IOCPConnAssumption
<1>3. LinkTyped
  <2>1. opened \in 0..MaxConnects
    BY <1>1, <1>2, IOCPConnAssumption
  <2> QED
    BY <1>1, <1>2, <2>1 DEF LinkTyped
<1>4. TimerTyped /\ FlagsTyped /\ KernelTyped
  <2>1. closeTimerId = 0 /\ nextTimerId = 1 /\ timers = {}
    BY <1>1
  <2>2. 0 \in 0..1 - 1
    OBVIOUS
  <2>3. TimerTyped
    BY <2>1, <2>2 DEF TimerTyped
  <2>4. FlagsTyped
    BY <1>1 DEF FlagsTyped
  <2>5. KernelTyped
    BY <1>1, <1>2 DEF KernelTyped
  <2> QED
    BY <2>3, <2>4, <2>5
<1>5. JobTyped /\ ReportTyped
  BY <1>1, <1>2 DEF JobTyped, Job, NoJob, Ops, Errors, Carrying, ReportTyped
<1>6. MessagesTyped /\ QueueInv
  BY <1>1, <1>2 DEF MessagesTyped, QueueInv
<1>7. BudgetInv
  <2>1. Counters = {}
    BY <1>1 DEF Counters
  <2>2. \A t \in Threads : pc[t] \in {"onConnection", "idle"} /\ home[t] = pc[t]
    BY <1>1
  <2>3. WriteAsks = 0
    BY <2>2 DEF WriteAsks
  <2>4. LineAsks = IF acceptor = {} THEN 0 ELSE LineAsks
    BY <1>1, <2>2 DEF LineAsks, Asking, OnLine, LineLabels
  <2>5. LineAsks \in {0, 1}
    BY <2>2 DEF LineAsks
  <2>6. LineAsks <= opened
    BY <1>1, <2>4, <2>5
  <2>7. taken = 0
    <3>1. pushed = 0 /\ Len(sendQueue) = 0
      BY <1>1
    <3> QED
      BY <3>1 DEF taken
  <2> QED
    BY <1>1, <2>1, <2>3, <2>5, <2>6, <2>7, FS_EmptySet DEF BudgetInv
<1> QED
  BY <1>3, <1>4, <1>5, <1>6, <1>7 DEF Typed

\* What concerns the socket and the channel.
LEMMA LinkTypedKeeps ==
  ASSUME LinkTyped, NEW t \in Threads, Acts(t)
  PROVE  LinkTyped'
<1>0. MaxConnects \in Nat
  BY IOCPConnAssumption
<1>1. CASE UNCHANGED <<linkVars, sock>>
  BY <1>1 DEF LinkTyped, linkVars
<1>2. CASE Connect(t)
  BY <1>0, <1>2 DEF LinkTyped, Connect, SocketBecomes, Sockets
<1>3. CASE /\ opened' = opened
           /\ handle' \in {handle, 0} /\ channel' \in {channel, handle, 0}
           /\ stateValue' \in {stateValue, "Disconnected", "Connected", "Disconnecting"}
           /\ sock' = sock \/ \E how \in {"connected", "half", "closed"} :
                                handle # 0 /\ SocketBecomes(handle, how)
  BY <1>0, <1>3 DEF LinkTyped, SocketBecomes, Sockets
<1>4. \/ UNCHANGED <<linkVars, sock>> \/ Connect(t)
      \/ ConnectRefused(t) \/ Start(t) \/ StartFails(t) \/ OnConnect(t)
      \/ Shutdown(t) \/ ShutdownState(t) \/ CancelTimer(t) \/ CheckIo(t) \/ DoCleanup(t) \/ Reset(t)
  BY DEF Acts, UserCall, Send, Close, Dispatch, TimerFires, Step, ConnectPending, CountIo,
     EndOnConnection, GoReading, RecvAccepted, RecvRejected, DecrIo, OnRead, EndMessage, GoWriting,
     PopNothing, PopFront, SendAccepted, SendRejected, WriteFailed, FreeFailed, OnWrite, HasMore,
     OnError, ErrorTail, AddTimer, Cleanup, CancelIo, StoreErr, dataVars, kernelVars
<1>5. CASE \/ ConnectRefused(t) \/ StartFails(t) \/ OnConnect(t)
           \/ CancelTimer(t) \/ DoCleanup(t) \/ Shutdown(t)
  BY <1>3, <1>5 DEF ConnectRefused, StartFails, OnConnect, CancelTimer, DoCleanup, Shutdown,
     ShutdownSend, linkVars
<1>6. CASE Start(t) \/ ShutdownState(t) \/ CheckIo(t) \/ Reset(t)
  BY <1>3, <1>6 DEF Start, ShutdownState, CheckIo, Reset, kernelVars
<1> QED
  BY <1>1, <1>2, <1>4, <1>5, <1>6

LEMMA TimerTypedKeeps ==
  ASSUME TimerTyped, NEW t \in Threads, Acts(t)
  PROVE  TimerTyped'
<1>1. CASE UNCHANGED timerVars
  BY <1>1 DEF TimerTyped, timerVars
<1>2. CASE AddTimer(t)
  <2>1. \/ UNCHANGED timerVars
        \/ /\ closeTimerId' = nextTimerId /\ nextTimerId' = nextTimerId + 1
           /\ timers' = timers \union {nextTimerId}
    BY <1>2 DEF AddTimer
  <2>2. /\ nextTimerId + 1 \in Nat \ {0} /\ nextTimerId \in 0..(nextTimerId + 1) - 1
        /\ timers \union {nextTimerId} \subseteq 1..(nextTimerId + 1) - 1
    BY DEF TimerTyped
  <2> QED
    BY <1>1, <2>1, <2>2 DEF TimerTyped
<1>3. CASE TimerFires(t) \/ CancelTimer(t)
  <2>1. timers' \subseteq timers /\ closeTimerId' \in {closeTimerId, 0} /\ nextTimerId' = nextTimerId
    BY <1>3 DEF TimerFires, CancelTimer
  <2>2. nextTimerId \in Nat \ {0} /\ 0 \in 0..nextTimerId - 1
    BY DEF TimerTyped
  <2> QED
    BY <2>1, <2>2 DEF TimerTyped
<1>4. UNCHANGED timerVars \/ AddTimer(t) \/ TimerFires(t) \/ CancelTimer(t)
  BY DEF Acts, UserCall, Connect, Send, Close, Shutdown, Dispatch, Step, ConnectPending,
     ConnectRefused, CountIo, EndOnConnection, Start, StartFails, GoReading, RecvAccepted,
     RecvRejected, DecrIo, OnRead, EndMessage, GoWriting, PopNothing, PopFront, SendAccepted, SendRejected,
     WriteFailed, FreeFailed, OnWrite, HasMore, OnConnect, OnError, ErrorTail, ShutdownState,
     Cleanup, CheckIo, CancelIo, StoreErr, DoCleanup, Reset, closeVars, dataVars
<1> QED
  BY <1>1, <1>2, <1>3, <1>4

LEMMA FlagsTypedKeeps ==
  ASSUME FlagsTyped, NEW t \in Threads, Acts(t)
  PROVE  FlagsTyped'
<1>1. fault' = fault
  BY DEF Acts, UserCall, Connect, Send, Close, Shutdown, Dispatch, TimerFires, Step,
     ConnectPending, ConnectRefused, CountIo, EndOnConnection, Start, StartFails, GoReading,
     RecvAccepted, RecvRejected, DecrIo, OnRead, EndMessage, GoWriting, PopNothing, PopFront, SendAccepted,
     SendRejected, WriteFailed, FreeFailed, OnWrite, HasMore, OnConnect, OnError, ErrorTail,
     ShutdownState, AddTimer, Cleanup, CancelTimer, CheckIo, CancelIo, StoreErr, DoCleanup, Reset,
     historyVars, dataVars
<1>2. readPending' \in {readPending, TRUE, FALSE} /\ writeInProgress' \in {writeInProgress, TRUE, FALSE}
  BY DEF Acts, UserCall, Connect, Send, Close, Shutdown, Dispatch, TimerFires, Step,
     ConnectPending, ConnectRefused, CountIo, EndOnConnection, Start, StartFails, GoReading,
     RecvAccepted, RecvRejected, DecrIo, OnRead, EndMessage, GoWriting, PopNothing, PopFront, SendAccepted,
     SendRejected, WriteFailed, FreeFailed, OnWrite, HasMore, OnConnect, OnError, ErrorTail,
     ShutdownState, AddTimer, Cleanup, CancelTimer, CheckIo, CancelIo, StoreErr, DoCleanup, Reset,
     WriteOver, ioVars, sendVars, dataVars
<1>3. cleanupDone' \in {cleanupDone, TRUE}
  BY DEF Acts, UserCall, Connect, Send, Close, Shutdown, Dispatch, TimerFires, Step,
     ConnectPending, ConnectRefused, CountIo, EndOnConnection, Start, StartFails, GoReading,
     RecvAccepted, RecvRejected, DecrIo, OnRead, EndMessage, GoWriting, PopNothing, PopFront, SendAccepted,
     SendRejected, WriteFailed, FreeFailed, OnWrite, HasMore, OnConnect, OnError, ErrorTail,
     ShutdownState, AddTimer, Cleanup, CancelTimer, CheckIo, CancelIo, StoreErr, DoCleanup, Reset,
     closeVars, dataVars
<1>4. \/ lateSuccess' = lateSuccess
      \/ lateSuccess' = (lateSuccess \/ (cleanupDone /\ job[t].err \in {"ok", "eof"}))
  BY DEF Acts, UserCall, Connect, Send, Close, Shutdown, Dispatch, TimerFires, Step,
     ConnectPending, ConnectRefused, CountIo, EndOnConnection, Start, StartFails, GoReading,
     RecvAccepted, RecvRejected, DecrIo, OnRead, EndMessage, GoWriting, PopNothing, PopFront, SendAccepted,
     SendRejected, WriteFailed, FreeFailed, OnWrite, HasMore, OnConnect, OnError, ErrorTail,
     ShutdownState, AddTimer, Cleanup, CancelTimer, CheckIo, CancelIo, StoreErr, DoCleanup, Reset,
     historyVars, dataVars
<1>5. readPending' \in BOOLEAN /\ writeInProgress' \in BOOLEAN /\ cleanupDone' \in BOOLEAN
  BY <1>2, <1>3 DEF FlagsTyped
<1>6. lateSuccess' \in BOOLEAN
  BY <1>4, Zenon DEF FlagsTyped
<1> QED
  BY <1>1, <1>5, <1>6 DEF FlagsTyped

\* What a thread is given to work on.
LEMMA JobTypedMove ==
  ASSUME ThreadInv, JobTyped, MessagesTyped, MessagesTyped', NEW t \in Threads,
         job' = [job EXCEPT ![t] = job'[t]], job'[t] \in Job,
         \A u \in Threads \ {t} : pc'[u] = pc[u],
         pushed <= pushed',
         job'[t].err = "eof" => pc'[t] \in {"decrIo", "onRead"} /\ job'[t].op = "read",
         Carrying(t)' => job'[t].msg # 0, job'[t].msg <= pushed'
  PROVE  JobTyped'
<1>0. pushed \in Nat /\ pushed' \in Nat /\ \A u \in Threads : job[u].msg \in Nat
  BY IOCPConnAssumption DEF MessagesTyped, JobTyped, Job
<1>1. job' \in [Threads -> Job]
  BY DEF JobTyped
<1>2. \A u \in Threads \ {t} : job'[u] = job[u]
  BY DEF JobTyped
<1>3. \A u \in Threads \ {t} :
        /\ job'[u].err = "eof" => pc'[u] \in {"decrIo", "onRead"} /\ job'[u].op = "read"
        /\ Carrying(u)' => job'[u].msg # 0
        /\ job'[u].msg <= pushed'
  BY <1>0, <1>2 DEF JobTyped, Carrying
<1> QED
  BY <1>1, <1>3 DEF JobTyped

LEMMA JobTypedGo ==
  ASSUME ThreadInv, JobTyped, MessagesTyped, MessagesTyped', NEW t \in Threads,
         NEW to \in PlainLabels \union LineLabels \union QuietLabels \union {"pop"}, to # "onRead",
         Go(t, to), pc[t] \notin {"onRead", "decrIo"}, pushed <= pushed'
  PROVE  JobTyped'
<1>0. pushed \in Nat /\ pushed' \in Nat
  BY IOCPConnAssumption DEF MessagesTyped
<1>1. /\ pc' = [pc EXCEPT ![t] = to] /\ job'[t] \in {job[t], NoJob}
      /\ job' = [job EXCEPT ![t] = job'[t]]
  BY DEF Go, JobTyped
<1>2. NoJob \in Job /\ NoJob.err # "eof" /\ NoJob.msg = 0
  BY IOCPConnAssumption DEF NoJob, Job, Ops, Errors
<1>3. pc'[t] = to /\ \A u \in Threads \ {t} : pc'[u] = pc[u]
  BY <1>1 DEF ThreadInv
<1>4. ~Carrying(t)'
  BY <1>3 DEF Carrying, PlainLabels, LineLabels, QuietLabels
<1>5. job[t] \in Job /\ job[t].err # "eof" /\ job[t].msg \in Nat /\ job[t].msg <= pushed
  BY IOCPConnAssumption DEF JobTyped, Job
<1>6. job'[t] \in Job /\ job'[t].err # "eof" /\ job'[t].msg <= pushed'
  BY <1>0, <1>1, <1>2, <1>5
<1> QED
  BY <1>1, <1>3, <1>4, <1>6, JobTypedMove

LEMMA JobTypedGoWith ==
  ASSUME ThreadInv, JobTyped, MessagesTyped, MessagesTyped', NEW t \in Threads, NEW to,
         NEW op \in Ops, NEW msg \in 0..MaxSends, NEW err \in Errors \union {"eof"},
         GoWith(t, to, op, msg, err), pushed <= pushed', msg <= pushed',
         err = "eof" => to = "decrIo" /\ op = "read",
         to \in {"wsaSend", "writeFailed", "onWrite"} => msg # 0,
         to \in {"decrIo", "onError"} /\ op = "write" => msg # 0
  PROVE  JobTyped'
<1>1. /\ pc' = [pc EXCEPT ![t] = to]
      /\ job' = [job EXCEPT ![t] = [op |-> op, msg |-> msg, err |-> err]]
  BY DEF GoWith
<1>2. job'[t] = [op |-> op, msg |-> msg, err |-> err]
  BY <1>1 DEF JobTyped
<1>3. pc'[t] = to /\ \A u \in Threads \ {t} : pc'[u] = pc[u]
  BY <1>1 DEF ThreadInv
<1>4. job'[t] \in Job /\ job'[t].op = op /\ job'[t].err = err /\ job'[t].msg = msg
  BY <1>2 DEF Job
<1>5. job' = [job EXCEPT ![t] = job'[t]]
  BY <1>1, <1>2
<1>6. Carrying(t)' => msg # 0
  BY <1>3, <1>4 DEF Carrying
<1> QED
  BY <1>3, <1>4, <1>5, <1>6, JobTypedMove

LEMMA JobTypedUser ==
  ASSUME ThreadInv, JobTyped, MessagesTyped, MessagesTyped', NEW t \in Threads,
         \/ CallUser(t)
         \/ \E to \in PlainLabels \union LineLabels : to # "onRead" /\ Resume(t, to) /\ pc[t] \notin {"onRead", "decrIo"},
         pushed <= pushed'
  PROVE  JobTyped'
<1>0. pushed \in Nat /\ pushed' \in Nat
  BY IOCPConnAssumption DEF MessagesTyped
<1>2. NoJob \in Job /\ NoJob.err # "eof" /\ NoJob.msg = 0
  BY IOCPConnAssumption DEF NoJob, Job, Ops, Errors
<1>1. CASE CallUser(t)
  <2>1. /\ pc'[t] = "message" /\ \A u \in Threads \ {t} : pc'[u] = pc[u]
        /\ job'[t] = NoJob /\ job' = [job EXCEPT ![t] = job'[t]]
    BY <1>1 DEF CallUser, ThreadInv, JobTyped
  <2>2. ~Carrying(t)'
    BY <2>1 DEF Carrying
  <2> QED
    BY <1>0, <1>2, <2>1, <2>2, JobTypedMove
<1>3. CASE \E to \in PlainLabels \union LineLabels : to # "onRead" /\ Resume(t, to) /\ pc[t] \notin {"onRead", "decrIo"}
  <2>1. PICK to \in PlainLabels \union LineLabels : to # "onRead" /\ Resume(t, to) /\ pc[t] \notin {"onRead", "decrIo"}
    BY <1>3
  <2>2. /\ pc'[t] = to /\ \A u \in Threads \ {t} : pc'[u] = pc[u]
        /\ job'[t] = job[t] /\ job' = [job EXCEPT ![t] = job'[t]]
    BY <2>1 DEF Resume, ThreadInv, JobTyped
  <2>3. ~Carrying(t)'
    BY <2>1, <2>2 DEF Carrying, PlainLabels, LineLabels
  <2>4. job[t] \in Job /\ job[t].err # "eof" /\ job[t].msg \in Nat /\ job[t].msg <= pushed
    BY <2>1, IOCPConnAssumption DEF JobTyped, Job
  <2>5. job'[t] \in Job /\ job'[t].err # "eof" /\ job'[t].msg <= pushed'
    BY <1>0, <2>2, <2>4
  <2> QED
    BY <2>2, <2>3, <2>5, JobTypedMove
<1> QED
  BY <1>1, <1>3

\* The queue, the contexts and the buffers bear numbers of messages that were queued.
LEMMA MessagesTypedKeeps ==
  ASSUME JobTyped, MessagesTyped, NEW t \in Threads, Acts(t)
  PROVE  MessagesTyped' /\ pushed \in Nat /\ pushed' \in Nat /\ pushed <= pushed'
<1>0. MaxSends \in Nat /\ pushed \in Nat /\ pushed <= MaxSends
  BY IOCPConnAssumption DEF MessagesTyped
<1>1. CASE UNCHANGED <<queueVars, writeContext, freed>>
  BY <1>0, <1>1 DEF MessagesTyped, queueVars
<1>2. CASE Send(t)
  <2>1. /\ pushed < MaxSends /\ pushed' = pushed + 1
        /\ sendQueue' = Append(sendQueue, pushed') /\ UNCHANGED <<writeContext, freed>>
    BY <1>2 DEF Send
  <2>2. sendQueue \in Seq(1..pushed') /\ pushed' \in 1..pushed'
    <3>1. 1..pushed \subseteq 1..pushed' /\ pushed' \in 1..pushed'
      BY <1>0, <2>1
    <3> QED
      BY <3>1, SeqMonotonic DEF MessagesTyped
  <2>3. sendQueue' \in Seq(1..pushed')
    BY <2>1, <2>2
  <2> QED
    BY <1>0, <2>1, <2>3 DEF MessagesTyped
<1>3. CASE PopFront(t)
  <2>1. /\ sendQueue # <<>> /\ sendQueue' = Tail(sendQueue) /\ writeContext' = Head(sendQueue)
        /\ UNCHANGED <<pushed, freed>>
    BY <1>3 DEF PopFront
  <2>2. Tail(sendQueue) \in Seq(1..pushed) /\ Head(sendQueue) \in 1..pushed
    BY <2>1 DEF MessagesTyped
  <2> QED
    BY <1>0, <2>1, <2>2 DEF MessagesTyped
<1>4. CASE FreeFailed(t) \/ OnWrite(t) \/ (OnError(t) /\ job[t].op = "write")
  <2>1. /\ UNCHANGED queueVars /\ writeContext' \in {writeContext, 0}
        /\ \E m \in {writeContext, job[t].msg} :
             /\ m # 0 /\ freed' = freed \union {m}
    <3>1. CASE FreeFailed(t)
      BY <3>1 DEF FreeFailed
    <3>2. CASE OnWrite(t) \/ (OnError(t) /\ job[t].op = "write")
      BY <3>2 DEF OnWrite, OnError, WriteOver, At, JobTyped, Carrying
    <3> QED
      BY <1>4, <3>1, <3>2
  <2>2. job[t].msg \in 0..pushed /\ writeContext \in 0..pushed
    BY <1>0 DEF JobTyped, Job, MessagesTyped
  <2>3. freed' \subseteq 1..pushed
    <3>1. PICK m \in {writeContext, job[t].msg} : m # 0 /\ freed' = freed \union {m}
      BY <2>1
    <3>2. m \in 1..pushed
      BY <1>0, <2>2, <3>1
    <3> QED
      BY <3>1, <3>2 DEF MessagesTyped
  <2> QED
    BY <1>0, <2>1, <2>3 DEF MessagesTyped, queueVars
<1>5. CASE OnError(t) /\ job[t].op # "write"
  BY <1>1, <1>5 DEF OnError
<1>6. \/ UNCHANGED <<queueVars, writeContext, freed>> \/ Send(t) \/ PopFront(t) \/ FreeFailed(t)
      \/ OnWrite(t) \/ OnError(t)
  BY DEF Acts, UserCall, Connect, Close, Shutdown, Dispatch, TimerFires, Step, ConnectPending,
     ConnectRefused, CountIo, EndOnConnection, Start, StartFails, GoReading, RecvAccepted,
     RecvRejected, DecrIo, OnRead, EndMessage, GoWriting, PopNothing, SendAccepted, SendRejected,
     WriteFailed, HasMore, OnConnect, ErrorTail, ShutdownState, AddTimer, Cleanup, CancelTimer,
     CheckIo, CancelIo, StoreErr, DoCleanup, Reset, sendVars, dataVars
<1> QED
  BY <1>1, <1>2, <1>3, <1>4, <1>5, <1>6

LEMMA JobTypedKeeps ==
  ASSUME Inv, JobTyped, MessagesTyped, MessagesTyped', KernelTyped, ReportTyped,
         NEW t \in Threads, Acts(t), pushed \in Nat, pushed' \in Nat, pushed <= pushed'
  PROVE  JobTyped'
<1>0. ThreadInv /\ home[t] \in QuietLabels
  BY HomeQuiet DEF Inv
<1>1. /\ job[t] \in Job /\ job[t].op \in Ops /\ job[t].err \in Errors \union {"eof"}
      /\ job[t].msg \in 0..MaxSends /\ job[t].msg <= pushed
      /\ (pc[t] \notin {"onRead", "decrIo"} => job[t].err # "eof")
      /\ MaxSends \in Nat
  BY IOCPConnAssumption DEF JobTyped, Job
<1>2. /\ {"ok", "timeout", "net", "notsock", "shutdown", "aborted"} \subseteq Errors
      /\ {"none", "connect", "read", "write"} \subseteq Ops
      /\ "eof" \notin Errors /\ 0 \in 0..MaxSends
  BY <1>1 DEF Errors, Ops
<1>3. CASE \/ Connect(t) \/ Send(t) \/ Close(t) \/ Shutdown(t) \/ ConnectPending(t)
           \/ ConnectRefused(t) \/ CountIo(t) \/ Start(t) \/ StartFails(t)
           \/ GoReading(t) \/ RecvAccepted(t) \/ GoWriting(t) \/ PopNothing(t) \/ FreeFailed(t)
           \/ HasMore(t) \/ ShutdownState(t) \/ AddTimer(t) \/ Cleanup(t) \/ CancelTimer(t)
           \/ CheckIo(t) \/ CancelIo(t) \/ StoreErr(t) \/ DoCleanup(t) \/ Reset(t)
  <2>1. pc[t] \notin {"onRead", "decrIo"}
    BY <1>0, <1>3 DEF Connect, Send, Close, Shutdown, ConnectPending,
       ConnectRefused, CountIo, Start, StartFails, GoReading, RecvAccepted, GoWriting, PopNothing,
       FreeFailed, HasMore, ShutdownState, AddTimer, Cleanup, CancelTimer, CheckIo, CancelIo,
       StoreErr, DoCleanup, Reset, InUserCode, At, ThreadInv
  <2>2. \E to \in PlainLabels \union LineLabels \union QuietLabels \union {"pop"} :
          to # "onRead" /\ Go(t, to)
    <3>1. home[t] # "onRead"
      BY <1>0 DEF ThreadInv
    <3>2. CASE \/ Connect(t) \/ Send(t) \/ Close(t) \/ Shutdown(t) \/ ConnectPending(t)
               \/ ConnectRefused(t) \/ CountIo(t) \/ Start(t) \/ StartFails(t)
               \/ GoReading(t) \/ RecvAccepted(t)
      BY <1>0, <3>1, <3>2 DEF Connect, Send, Close, Shutdown, ConnectPending,
       ConnectRefused, CountIo, Start, StartFails, GoReading, RecvAccepted, Return,
       PlainLabels, LineLabels, QuietLabels, Labels
    <3>3. CASE \/ GoWriting(t) \/ PopNothing(t) \/ FreeFailed(t)
           \/ HasMore(t) \/ ShutdownState(t) \/ AddTimer(t) \/ Cleanup(t) \/ CancelTimer(t)
           \/ CheckIo(t) \/ CancelIo(t) \/ StoreErr(t) \/ DoCleanup(t) \/ Reset(t)
      BY <1>0, <3>1, <3>3 DEF GoWriting, PopNothing,
       FreeFailed, HasMore, ShutdownState, AddTimer, Cleanup, CancelTimer, CheckIo, CancelIo,
       StoreErr, DoCleanup, Reset, Return, PlainLabels, LineLabels, QuietLabels, Labels
    <3> QED
      BY <1>3, <3>2, <3>3
  <2> QED
    BY <1>0, <2>1, <2>2, JobTypedGo
<1>4. CASE \/ RecvRejected(t) \/ SendAccepted(t) \/ OnWrite(t) \/ TimerFires(t)
           \/ WriteFailed(t) \/ OnError(t)
  <2>1. \E to \in PlainLabels, op \in Ops, err \in Errors : GoWith(t, to, op, 0, err)
    BY <1>1, <1>2, <1>4 DEF RecvRejected, SendAccepted, OnWrite, TimerFires, WriteFailed, OnError,
       At, PlainLabels
  <2> QED
    BY <1>0, <1>1, <1>2, <2>1, JobTypedGoWith DEF PlainLabels
<1>5. CASE PopFront(t)
  <2>1. writeContext' = Head(sendQueue) /\ sendQueue # <<>> /\ pushed' = pushed
        /\ GoWith(t, "wsaSend", "write", writeContext', "ok")
    BY <1>5 DEF PopFront
  <2>2. Head(sendQueue) \in 1..pushed /\ pushed <= MaxSends
    BY <2>1 DEF MessagesTyped
  <2> DEFINE m == Head(sendQueue)
  <2>3. m \in 0..MaxSends /\ m # 0 /\ m <= pushed' /\ GoWith(t, "wsaSend", "write", m, "ok")
    BY <1>1, <2>1, <2>2
  <2> HIDE DEF m
  <2> QED
    BY <1>0, <1>2, <2>3, JobTypedGoWith
<1>6. CASE SendRejected(t)
  <2>1. \E err \in Errors : GoWith(t, "writeFailed", "write", job[t].msg, err)
    BY <1>2, <1>6 DEF SendRejected
  <2>2. job[t].msg # 0 /\ job[t].msg <= pushed'
    BY <1>1, <1>6 DEF SendRejected, At, JobTyped, Carrying
  <2> QED
    BY <1>0, <1>1, <1>2, <2>1, <2>2, JobTypedGoWith
<1>7. CASE OnRead(t)
  <2>1. GoWith(t, "cleanup", "read", 0, "ok") \/ CallUser(t)
    BY <1>7 DEF OnRead
  <2> QED
    BY <1>0, <1>1, <1>2, <2>1, JobTypedGoWith, JobTypedUser
<1>8. CASE OnConnect(t)
  <2>1. \/ Go(t, "start")
        \/ \E err \in Errors : GoWith(t, "cleanup", "connect", 0, err)
    BY <1>2, <1>8 DEF OnConnect
  <2>2. pc[t] \notin {"onRead", "decrIo"}
    BY <1>8 DEF OnConnect, At
  <2> QED
    BY <1>0, <1>1, <1>2, <2>1, <2>2, JobTypedGoWith, JobTypedGo DEF LineLabels
<1>9. CASE ErrorTail(t)
  <2>1. \/ \E to \in {"cleanup", home[t]} : Go(t, to)
        \/ GoWith(t, "doCleanup", job[t].op, 0, cleanupErr)
    BY <1>9 DEF ErrorTail, Return
  <2>2. pc[t] \notin {"onRead", "decrIo"} /\ cleanupErr \in Errors
    BY <1>9 DEF ErrorTail, At, ReportTyped
  <2>3. home[t] # "onRead"
    BY <1>0 DEF ThreadInv
  <2>4. CASE \E to \in {"cleanup", home[t]} : Go(t, to)
    BY <1>0, <1>1, <2>2, <2>3, <2>4, JobTypedGo DEF PlainLabels
  <2>5. CASE GoWith(t, "doCleanup", job[t].op, 0, cleanupErr)
    BY <1>0, <1>1, <1>2, <2>2, <2>5, JobTypedGoWith
  <2> QED
    BY <2>1, <2>4, <2>5
<1>10. CASE EndOnConnection(t) \/ EndMessage(t)
  <2>1. \E to \in PlainLabels \union LineLabels : to # "onRead" /\ Resume(t, to) /\ pc[t] \notin {"onRead", "decrIo"}
    BY <1>10 DEF EndOnConnection, EndMessage, At, PlainLabels, LineLabels
  <2> QED
    BY <1>0, <1>1, <2>1, JobTypedUser
<1>11. CASE Dispatch(t)
  <2>1. PICK o \in posted, outcome \in Errors \union {"eof"} :
          /\ outcome \in Outcomes(o)
          /\ GoWith(t, "decrIo", o.op, o.msg, outcome)
    BY <1>11 DEF Dispatch, Outcomes, Errors
  <2>2. /\ o.op \in {"connect", "read", "write"} /\ o.msg \in 0..MaxSends /\ o.msg <= pushed'
        /\ o.op = "write" => o.msg # 0
    <3>1. o.op \in {"connect", "read", "write"} /\ o.msg \in 0..MaxSends
      BY DEF KernelTyped, Operation, Ops
    <3>2. o.msg <= pushed /\ (o.op = "write" => o.msg # 0)
      BY DEF KernelTyped
    <3> QED
      BY <1>1, <3>1, <3>2
  <2>3. outcome = "eof" => o.op = "read"
    BY <2>1 DEF Outcomes
  <2> QED
    BY <1>0, <1>2, <2>1, <2>2, <2>3, JobTypedGoWith
<1>12. CASE DecrIo(t)
  <2>1. pc[t] = "decrIo" /\ home[t] = "idle" /\ job[t].op \in {"connect", "read", "write"}
    BY <1>0, <1>12 DEF DecrIo, At, ThreadInv
  <2> DEFINE to == Handler(job[t].op, job[t].err)
  <2>2. /\ to \in {"onConnect", "onRead", "onWrite", "onError"}
        /\ to = "onWrite" => job[t].op = "write"
        /\ job[t].err = "eof" /\ job[t].op = "read" => to = "onRead"
    BY <2>1 DEF Handler
  <2>3. Go(t, to)
    BY <1>12 DEF DecrIo
  <2> HIDE DEF to
  <2>4. /\ pc'[t] = to /\ \A u \in Threads \ {t} : pc'[u] = pc[u]
        /\ job'[t] = job[t] /\ job' = [job EXCEPT ![t] = job'[t]]
    BY <1>0, <2>1, <2>2, <2>3 DEF Go, ThreadInv, JobTyped
  <2>5. Carrying(t)' => Carrying(t)
    BY <2>1, <2>2, <2>4 DEF Carrying
  <2>6. /\ job'[t].err = "eof" => pc'[t] = "onRead" /\ job'[t].op = "read"
        /\ Carrying(t)' => job'[t].msg # 0
        /\ job'[t].msg <= pushed'
    BY <1>1, <2>2, <2>4, <2>5 DEF JobTyped
  <2> QED
    BY <1>0, <1>1, <2>4, <2>6, JobTypedMove
<1> QED
  BY <1>3, <1>4, <1>5, <1>6, <1>7, <1>8, <1>9, <1>10, <1>11, <1>12 DEF Acts, UserCall, Step

\* What is outstanding, and what of it was told to finish.
LEMMA KernelTypedKeeps ==
  ASSUME LinkTyped, JobTyped, MessagesTyped, KernelTyped, NEW t \in Threads, Acts(t),
         pushed \in Nat, pushed' \in Nat, pushed <= pushed'
  PROVE  KernelTyped'
<1>0. MaxConnects \in Nat /\ MaxSends \in Nat /\ MaxReceives \in Nat
  BY IOCPConnAssumption
<1>1. \A o \in posted : o.msg \in Nat /\ o.msg <= pushed'
  BY <1>0 DEF KernelTyped, Operation
<1>2. CASE UNCHANGED opVars /\ received' = received
  BY <1>1, <1>2 DEF KernelTyped, opVars
<1>3. CASE CancelIo(t) \/ DoCleanup(t)
  <2>1. posted' = posted /\ received' = received /\ cancelled' \subseteq posted
    BY <1>3 DEF CancelIo, DoCleanup, OnSocket, historyVars, KernelTyped
  <2> QED
    BY <1>1, <2>1 DEF KernelTyped
<1>4. CASE ConnectPending(t) \/ RecvAccepted(t) \/ SendAccepted(t)
  <2>1. /\ cancelled' = cancelled /\ received' = received /\ handle # 0
        /\ \E op \in {"connect", "read"}, msg \in {0} : Issue(op, msg)
             \/ (Issue("write", writeContext) /\ writeContext # 0)
    BY <1>4 DEF ConnectPending, RecvAccepted, SendAccepted, historyVars
  <2>2. handle \in Sockets
    BY <1>0, <2>1 DEF LinkTyped, Sockets
  <2>3. PICK o \in Operation : posted' = posted \union {o} /\ o.msg <= pushed' /\ (o.op = "write" => o.msg # 0)
    <3>1. CASE \E op \in {"connect", "read"} : Issue(op, 0)
      <4>1. PICK op \in {"connect", "read"} : Issue(op, 0)
        BY <3>1
      <4>2. [op |-> op, msg |-> 0, sock |-> handle] \in Operation
        BY <1>0, <2>2 DEF Operation, Ops
      <4> QED
        BY <1>0, <4>1, <4>2 DEF Issue
    <3>2. CASE Issue("write", writeContext) /\ writeContext # 0
      <4>1. writeContext \in 0..MaxSends /\ writeContext <= pushed'
        BY <1>0 DEF MessagesTyped
      <4>2. [op |-> "write", msg |-> writeContext, sock |-> handle] \in Operation
        BY <2>2, <4>1 DEF Operation, Ops
      <4> QED
        BY <3>2, <4>1, <4>2 DEF Issue
    <3> QED
      BY <2>1, <3>1, <3>2
  <2> QED
    BY <1>1, <2>1, <2>3 DEF KernelTyped
<1>5. CASE Dispatch(t)
  <2>1. PICK o \in posted, outcome \in Errors \union {"eof"} :
          /\ o.op = "read" /\ outcome = "ok" => received < MaxReceives
          /\ posted' = posted \ {o}
          /\ cancelled' = cancelled \ {o}
          /\ received' = received + (IF o.op = "read" /\ outcome = "ok" THEN 1 ELSE 0)
    BY <1>5 DEF Dispatch, Outcomes, Errors
  <2>2. received' \in 0..MaxReceives
    BY <1>0, <2>1 DEF KernelTyped
  <2> QED
    BY <1>1, <2>1, <2>2 DEF KernelTyped
<1>6. \/ (UNCHANGED opVars /\ received' = received)
      \/ CancelIo(t) \/ DoCleanup(t) \/ ConnectPending(t) \/ RecvAccepted(t) \/ SendAccepted(t)
      \/ Dispatch(t)
  BY DEF Acts, UserCall, Connect, Send, Close, Shutdown, TimerFires, Step, ConnectRefused, CountIo,
     EndOnConnection, Start, StartFails, GoReading, RecvRejected, DecrIo, OnRead, EndMessage, GoWriting,
     PopNothing, PopFront, SendRejected, WriteFailed, FreeFailed, OnWrite, HasMore, OnConnect,
     OnError, ErrorTail, ShutdownState, AddTimer, Cleanup, CancelTimer, CheckIo, StoreErr, Reset,
     historyVars, kernelVars, dataVars
<1> QED
  BY <1>2, <1>3, <1>4, <1>5, <1>6

\* What is reported of the end.
LEMMA ReportTypedKeeps ==
  ASSUME JobTyped, ReportTyped, NEW t \in Threads, Acts(t)
  PROVE  ReportTyped'
<1>1. pc[t] \notin {"onRead", "decrIo"} => job[t].err \in Errors
  BY DEF JobTyped, Job
<1>2. CASE UNCHANGED <<cleanupErr, cause, closes>>
  BY <1>2 DEF ReportTyped
<1>3. CASE Cleanup(t) \/ StoreErr(t) \/ Reset(t)
  <2>1. job[t].err \in Errors
    BY <1>1, <1>3 DEF Cleanup, StoreErr, Reset, At
  <2>2. /\ cleanupErr' \in {cleanupErr, job[t].err} /\ cause' \in {cause, job[t].err}
        /\ closes' \in {closes, Append(closes, job[t].err)}
    BY <1>3 DEF Cleanup, StoreErr, Reset, closeVars, historyVars
  <2> QED
    BY <2>1, <2>2 DEF ReportTyped
<1>4. UNCHANGED <<cleanupErr, cause, closes>> \/ Cleanup(t) \/ StoreErr(t) \/ Reset(t)
  BY DEF Acts, UserCall, Connect, Send, Close, Shutdown, Dispatch, TimerFires, Step,
     ConnectPending, ConnectRefused, CountIo, EndOnConnection, Start, StartFails, GoReading,
     RecvAccepted, RecvRejected, DecrIo, OnRead, EndMessage, GoWriting, PopNothing, PopFront, SendAccepted,
     SendRejected, WriteFailed, FreeFailed, OnWrite, HasMore, OnConnect, OnError, ErrorTail,
     ShutdownState, AddTimer, CancelTimer, CheckIo, CancelIo, DoCleanup,
     closeVars, historyVars, dataVars
<1> QED
  BY <1>2, <1>3, <1>4

LEMMA TypedKeeps ==
  ASSUME Inv, Typed, NEW t \in Threads, Acts(t)
  PROVE  Typed'
<1>1. MessagesTyped' /\ pushed \in Nat /\ pushed' \in Nat /\ pushed <= pushed'
  BY MessagesTypedKeeps DEF Typed
<1> QED
  BY <1>1, LinkTypedKeeps, TimerTypedKeeps, FlagsTypedKeeps, JobTypedKeeps, KernelTypedKeeps,
     ReportTypedKeeps DEF Typed

-----------------------------------------------------------------------------
\* Nobody but t asks for anything else than before.
LEMMA AsksMove ==
  ASSUME ThreadInv, NEW t \in Threads, Acts(t)
  PROVE  /\ LineAsks \in {0, 1, 2} /\ LineAsks' \in {0, 1, 2}
         /\ WriteAsks \in {0, 1} /\ WriteAsks' \in {0, 1}
         /\ pc'[t] # "wsaSend" => WriteAsks' <= WriteAsks
         /\ /\ pc'[t] # "connectEx"
            /\ \A o \in posted' : o.op = "connect" => o \in posted
            /\ Asking(t)' => Asking(t)
            => LineAsks' <= LineAsks
<1>1. \A u \in Threads \ {t} : pc'[u] = pc[u] /\ home'[u] = home[u] /\ job'[u] = job[u]
  BY OthersStay
<1>2. \A u \in Threads \ {t} : OnLine(u)' <=> OnLine(u)
  BY <1>1 DEF OnLine
<1>3. /\ LineAsks \in {0, 1, 2} /\ LineAsks' \in {0, 1, 2}
      /\ WriteAsks \in {0, 1} /\ WriteAsks' \in {0, 1}
  BY DEF LineAsks, WriteAsks
<1>4. pc'[t] # "wsaSend" => WriteAsks' <= WriteAsks
  BY <1>1 DEF WriteAsks
<1>5. ASSUME pc'[t] # "connectEx", \A o \in posted' : o.op = "connect" => o \in posted,
             Asking(t)' => Asking(t)
      PROVE  LineAsks' <= LineAsks
  <2>1. (\E u \in Threads : pc'[u] = "connectEx") => \E u \in Threads : pc[u] = "connectEx"
    BY <1>1, <1>5
  <2>2. (\E o \in posted' : o.op = "connect") => \E o \in posted : o.op = "connect"
    BY <1>5
  <2>3. (\E u \in Threads : Asking(u)') => \E u \in Threads : Asking(u)
    BY <1>1, <1>2, <1>5 DEF Asking
  <2> QED
    BY <2>1, <2>2, <2>3 DEF LineAsks
<1> QED
  BY <1>3, <1>4, <1>5

\* No operation is handed over, and none is asked for.
LEMMA BudgetStays ==
  ASSUME ThreadInv, KernelTyped, LinkTyped, QueueInv, BudgetInv, NEW t \in Threads, Acts(t),
         pc[t] # "countIo", pc'[t] \notin {"countIo", "wsaSend", "connectEx"},
         ioCount' \in {ioCount, 0, ioCount - 1}, ioCount' \in Nat,
         UNCHANGED <<opened, received>>, posted' \subseteq posted,
         Asking(t)' => Asking(t)
  PROVE  BudgetInv'
<1>1. Counters' = Counters
  BY OthersStay DEF Counters
<1>2. LineAsks' <= LineAsks /\ WriteAsks' <= WriteAsks
  BY AsksMove
<1>3. taken \in Int /\ taken' \in Int /\ taken <= taken'
  <2>1. taken \in Int
    BY DEF QueueInv, taken
  <2>2. taken' = taken \/ taken' = taken + 1
    BY QueueKeeps
  <2> QED
    BY <2>1, <2>2
<1>4. opened \in Nat /\ received \in Nat /\ LineAsks \in Nat /\ WriteAsks \in Nat
      /\ LineAsks' \in Nat /\ WriteAsks' \in Nat
  BY AsksMove, IOCPConnAssumption DEF LinkTyped, KernelTyped
<1>5. Cardinality(Counters) \in Nat /\ ioCount \in Nat
      /\ ioCount + Cardinality(Counters) + LineAsks + WriteAsks <= opened + 1 + received + taken
  BY FS_CardinalityType DEF BudgetInv
<1>6. ioCount' <= ioCount
  BY <1>5
<1>7. ioCount' + Cardinality(Counters)' + LineAsks' + WriteAsks' <= opened' + 1 + received' + taken'
  BY <1>1, <1>2, <1>3, <1>4, <1>5, <1>6
<1> QED
  BY <1>1, <1>5, <1>7 DEF BudgetInv

\* Most steps.
LEMMA BudgetKeepsPlain ==
  ASSUME Inv, JobTyped, KernelTyped, LinkTyped, QueueInv, BudgetInv, NEW t \in Threads, Acts(t),
         \/ Send(t) \/ Close(t) \/ Shutdown(t)
         \/ ConnectRefused(t) \/ EndOnConnection(t) \/ Start(t) \/ StartFails(t)
         \/ GoReading(t) \/ RecvRejected(t) \/ DecrIo(t) \/ OnRead(t) \/ EndMessage(t)
         \/ GoWriting(t) \/ PopNothing(t) \/ SendRejected(t) \/ WriteFailed(t) \/ FreeFailed(t)
         \/ OnWrite(t) \/ HasMore(t) \/ OnConnect(t) \/ OnError(t) \/ ErrorTail(t)
         \/ ShutdownState(t) \/ AddTimer(t) \/ TimerFires(t)
         \/ Cleanup(t) \/ CancelTimer(t) \/ CheckIo(t) \/ CancelIo(t) \/ StoreErr(t)
         \/ DoCleanup(t) \/ Reset(t)
  PROVE  BudgetInv'
<1>0. /\ ThreadInv /\ home[t] \in {"idle", "onConnection", "message"}
      /\ job[t].err = "eof" => pc[t] \in {"decrIo", "onRead"}
      /\ ioCount \in Nat
  BY DEF Inv, ThreadInv, JobTyped, BudgetInv
<1>1. UNCHANGED <<opened, received, posted>>
  BY DEF Send, Close, Shutdown, ConnectRefused, EndOnConnection, Start, StartFails, GoReading,
     RecvRejected, DecrIo, OnRead, EndMessage, GoWriting, PopNothing, SendRejected, WriteFailed, FreeFailed,
     OnWrite, HasMore, OnConnect, OnError, ErrorTail, ShutdownState, AddTimer, TimerFires, Cleanup,
     CancelTimer, CheckIo, CancelIo, StoreErr, DoCleanup, Reset, dataVars, linkVars,
     kernelVars, opVars, historyVars
<1>2. ioCount' \in {ioCount, 0, IF ioCount > 0 THEN ioCount - 1 ELSE 0}
  BY DEF Send, Close, Shutdown, ConnectRefused, EndOnConnection, Start, StartFails, GoReading,
     RecvRejected, DecrIo, OnRead, EndMessage, GoWriting, PopNothing, SendRejected, WriteFailed, FreeFailed,
     OnWrite, HasMore, OnConnect, OnError, ErrorTail, ShutdownState, AddTimer, TimerFires, Cleanup,
     CancelTimer, CheckIo, CancelIo, StoreErr, DoCleanup, Reset, Decrement, dataVars,
     ioVars
<1>3. ioCount' \in {ioCount, 0, ioCount - 1} /\ ioCount' \in Nat
  BY <1>0, <1>2
<1>4. CASE OnRead(t)
  <2>1. pc[t] = "onRead" /\ home[t] = "idle" /\ OnLine(t)
    BY <1>0, <1>4 DEF OnRead, At, OnLine, LineLabels, ThreadInv
  <2>2. IF job[t].err = "eof"
          THEN pc'[t] = "cleanup" /\ home'[t] = "idle"
          ELSE pc'[t] = "message"
    BY <1>0, <1>4, <2>1 DEF OnRead, GoWith, CallUser, ThreadInv
  <2>3. Asking(t)' => Asking(t)
    BY <2>1, <2>2 DEF Asking, OnLine, LineLabels
  <2> QED
    BY <1>0, <1>1, <1>3, <2>1, <2>2, <2>3, BudgetStays
<1>5. CASE EndOnConnection(t) \/ EndMessage(t)
  <2>1. OnLine(t) /\ pc[t] \in {"onConnection", "message"}
    BY <1>0, <1>5 DEF EndOnConnection, EndMessage, At, OnLine, ThreadInv
  <2>2. pc'[t] \in {"start", "cleanup", "goReading"}
    BY <1>0, <1>5 DEF EndOnConnection, EndMessage, Resume, ThreadInv
  <2>3. Asking(t)
    BY <1>0, <2>1 DEF Asking
  <2> QED
    BY <1>0, <1>1, <1>3, <2>1, <2>2, <2>3, BudgetStays
<1>6. CASE Start(t) \/ GoReading(t) \/ OnConnect(t)
  <2>1. OnLine(t) /\ pc[t] \in {"start", "goReading", "onConnect"}
    BY <1>6 DEF Start, GoReading, OnConnect, At, OnLine, LineLabels
  <2>2. \E to \in {home[t], "goReading", "recv", "start"} :
          Go(t, to) \/ \E err : GoWith(t, "cleanup", "connect", 0, err)
    BY <1>6 DEF Start, GoReading, OnConnect
  <2>3. pc'[t] \in {home[t], "goReading", "recv", "start", "cleanup"}
    BY <1>0, <2>2 DEF Go, GoWith, ThreadInv
  <2>4. Asking(t)
    BY <1>0, <2>1 DEF Asking
  <2> QED
    BY <1>0, <1>1, <1>3, <2>1, <2>3, <2>4, BudgetStays
<1>7. CASE \/ Send(t) \/ Close(t) \/ Shutdown(t)
         \/ ConnectRefused(t) \/ StartFails(t) \/ RecvRejected(t)
         \/ GoWriting(t) \/ PopNothing(t) \/ SendRejected(t) \/ WriteFailed(t) \/ FreeFailed(t)
         \/ OnWrite(t) \/ HasMore(t) \/ OnError(t) \/ ErrorTail(t)
         \/ ShutdownState(t) \/ AddTimer(t) \/ TimerFires(t)
         \/ Cleanup(t) \/ CancelTimer(t) \/ CheckIo(t) \/ CancelIo(t) \/ StoreErr(t)
         \/ DoCleanup(t) \/ Reset(t)
  <2> DEFINE Far == (PlainLabels \ {"countIo"}) \union {"pop", "writeFailed", "reset", home[t]}
  <2>1. pc[t] \notin {"onRead", "countIo", "decrIo"}
    BY <1>0, <1>7 DEF Send, Close, Shutdown, ConnectRefused, StartFails, RecvRejected, GoWriting,
       PopNothing, SendRejected, WriteFailed, FreeFailed, OnWrite, HasMore, OnError, ErrorTail,
       ShutdownState, AddTimer, TimerFires, Cleanup, CancelTimer, CheckIo, CancelIo, StoreErr,
       DoCleanup, Reset, InUserCode, At
  <2>2. \E to \in Far : Go(t, to) \/ \E op, msg, err : GoWith(t, to, op, msg, err)
    BY <1>7 DEF Send, Close, Shutdown, ConnectRefused, StartFails, RecvRejected, GoWriting,
       PopNothing, SendRejected, WriteFailed, FreeFailed, OnWrite, HasMore, OnError, ErrorTail,
       ShutdownState, AddTimer, TimerFires, Cleanup, CancelTimer, CheckIo, CancelIo, StoreErr,
       DoCleanup, Reset, Return, PlainLabels
  <2>3. pc'[t] \in Far /\ home'[t] = home[t]
    BY <1>0, <2>2 DEF Go, GoWith, ThreadInv
  <2>4. pc'[t] \notin LineLabels \union {"countIo", "wsaSend", "connectEx", "decrIo"}
    BY <1>0, <2>3 DEF PlainLabels, LineLabels
  <2>5. OnLine(t)' => OnLine(t)
    BY <2>3, <2>4 DEF OnLine
  <2>6. Asking(t)' => Asking(t)
    BY <1>0, <2>1, <2>5 DEF Asking
  <2> QED
    BY <1>0, <1>1, <1>3, <2>1, <2>4, <2>6, BudgetStays
<1>8. CASE DecrIo(t)
  <2>1. pc[t] = "decrIo" /\ home[t] = "idle" /\ job[t].op \in {"connect", "read", "write"}
    BY <1>0, <1>8 DEF DecrIo, At, ThreadInv
  <2> DEFINE to == Handler(job[t].op, job[t].err)
  <2>2. /\ to \in {"onConnect", "onRead", "onWrite", "onError"}
        /\ to # "onError" => job[t].err \in {"ok", "eof"}
        /\ job[t].op = "write" => to \in {"onWrite", "onError"}
    BY <2>1 DEF Handler
  <2>3. Go(t, to)
    BY <1>8 DEF DecrIo
  <2> HIDE DEF to
  <2>4. pc'[t] = to /\ home'[t] = "idle" /\ job'[t] = job[t]
    BY <1>0, <2>1, <2>2, <2>3 DEF Go, ThreadInv
  <2>5. Asking(t)' => Asking(t)
    BY <2>1, <2>2, <2>4 DEF Asking, OnLine, LineLabels
  <2> QED
    BY <1>0, <1>1, <1>3, <2>1, <2>2, <2>4, <2>5, BudgetStays
<1> QED
  BY <1>4, <1>5, <1>6, <1>7, <1>8

\* The sum is over numbers.
LEMMA BudgetNumbers ==
  ASSUME ThreadInv, KernelTyped, LinkTyped, QueueInv, BudgetInv, NEW t \in Threads, Acts(t)
  PROVE  /\ taken \in Nat /\ opened \in Nat /\ received \in Nat
         /\ LineAsks \in Nat /\ WriteAsks \in Nat /\ LineAsks' \in Nat /\ WriteAsks' \in Nat
         /\ ioCount \in Nat /\ Cardinality(Counters) \in Nat
         /\ ioCount + Cardinality(Counters) + LineAsks + WriteAsks <= opened + 1 + received + taken
         /\ QueueInv' /\ taken' \in Nat
<1>1. \A n, m \in Nat : m <= n => n - m \in Nat
  OBVIOUS
<1>2. QueueInv'
  BY QueueKeeps
<1>3. taken \in Nat /\ taken' \in Nat
  BY <1>1, <1>2 DEF QueueInv, taken
<1>4. opened \in Nat /\ received \in Nat
  BY IOCPConnAssumption DEF LinkTyped, KernelTyped
<1>5. LineAsks \in Nat /\ WriteAsks \in Nat /\ LineAsks' \in Nat /\ WriteAsks' \in Nat
  BY AsksMove
<1> QED
  BY <1>2, <1>3, <1>4, <1>5, FS_CardinalityType DEF BudgetInv

\* The one socket is opened: a connect and a first read may follow.
LEMMA BudgetKeepsConnect ==
  ASSUME MaxConnects <= 1, Inv, KernelTyped, LinkTyped, QueueInv, BudgetInv,
         NEW t \in Threads, Acts(t), Connect(t)
  PROVE  BudgetInv'
<1>0. ThreadInv /\ opened = 0 /\ \A u \in Threads : pc[u] = "idle"
  BY IOCPConnAssumption DEF Inv, EndInv, Connect, LinkTyped
<1>1. /\ opened' = 1 /\ ioCount' = 0 /\ received' = received
      /\ pc'[t] = "connectEx" /\ \A u \in Threads \ {t} : pc'[u] = "idle"
  BY <1>0, OthersStay DEF Connect, Go, ThreadInv, historyVars
<1>2. Counters' = {} /\ WriteAsks' = 0 /\ LineAsks' = 2
  BY <1>1 DEF Counters, WriteAsks, LineAsks
<1>3. received \in Nat /\ taken' \in Nat
  BY <1>0, BudgetNumbers
<1> QED
  BY <1>1, <1>2, <1>3, FS_EmptySet DEF BudgetInv

\* An operation is counted.
LEMMA BudgetKeepsCountIo ==
  ASSUME Inv, JobTyped, KernelTyped, LinkTyped, QueueInv, BudgetInv,
         NEW t \in Threads, Acts(t), CountIo(t)
  PROVE  BudgetInv'
<1>0. /\ ThreadInv /\ home[t] \in {"idle", "onConnection", "message"}
      /\ job[t].err = "eof" => pc[t] \in {"decrIo", "onRead"}
  BY DEF Inv, ThreadInv, JobTyped
<1>1. /\ ioCount' = ioCount + 1 /\ pc[t] = "countIo" /\ pc'[t] = home[t] /\ home'[t] = home[t]
      /\ UNCHANGED <<opened, received, posted, pushed, sendQueue>>
  BY <1>0 DEF CountIo, At, Return, Go, ThreadInv, linkVars, historyVars, kernelVars, opVars,
     sendVars, queueVars
<1>2. Counters' = Counters \ {t} /\ t \in Counters
  BY <1>0, <1>1, OthersStay DEF Counters
<1>3. OnLine(t)' => OnLine(t)
  BY <1>0, <1>1 DEF OnLine, LineLabels
<1>31. Asking(t)' => Asking(t)
  BY <1>0, <1>1, <1>3 DEF Asking
<1>4. LineAsks' <= LineAsks /\ WriteAsks' <= WriteAsks
  BY <1>0, <1>1, <1>31, AsksMove
<1>5. IsFiniteSet(Counters') /\ Cardinality(Counters') = Cardinality(Counters) - 1
  BY <1>2, FS_RemoveElement DEF BudgetInv
<1>6. taken' = taken
  BY <1>1 DEF taken
<1>7. ioCount' \in Nat
      /\ ioCount' + Cardinality(Counters)' + LineAsks' + WriteAsks' <= opened' + 1 + received' + taken'
  BY <1>0, <1>1, <1>4, <1>5, <1>6, BudgetNumbers
<1> QED
  BY <1>5, <1>7 DEF BudgetInv

\* An operation that was asked for is handed over.
LEMMA BudgetKeepsIssue ==
  ASSUME Inv, JobTyped, KernelTyped, LinkTyped, QueueInv, BudgetInv,
         NEW t \in Threads, Acts(t),
         ConnectPending(t) \/ RecvAccepted(t) \/ SendAccepted(t)
  PROVE  BudgetInv'
<1>0. /\ ThreadInv /\ LineInv /\ WriteInv
      /\ home[t] \in {"idle", "onConnection", "message"}
      /\ job[t].err = "eof" => pc[t] \in {"decrIo", "onRead"}
  BY DEF Inv, ThreadInv, JobTyped
<1>1. /\ pc[t] # "countIo" /\ pc'[t] = "countIo" /\ home'[t] = home[t]
      /\ UNCHANGED <<opened, received, pushed, sendQueue, ioCount>>
  BY <1>0 DEF ConnectPending, RecvAccepted, SendAccepted, At, Go, GoWith, ThreadInv,
     linkVars, ioVars, historyVars, sendVars, queueVars
<1>2. Counters' = Counters \union {t} /\ t \notin Counters
  BY <1>0, <1>1, OthersStay DEF Counters
<1>3. IsFiniteSet(Counters') /\ Cardinality(Counters') = Cardinality(Counters) + 1
  BY <1>2, FS_AddElement DEF BudgetInv
<1>4. taken' = taken
  BY <1>1 DEF taken
<1>5. \A u \in Threads \ {t} : pc'[u] = pc[u] /\ home'[u] = home[u] /\ job'[u] = job[u]
  BY <1>0, OthersStay
<1>6. LineAsks' + WriteAsks' <= LineAsks + WriteAsks - 1
  <2>1. CASE ConnectPending(t) \/ RecvAccepted(t)
    <3>1. OnLine(t) /\ pc[t] \in {"connectEx", "recv"} /\ ~OnLine(t)' /\ job[t].err # "eof"
      BY <1>0, <1>1, <2>1 DEF ConnectPending, RecvAccepted, At, OnLine, LineLabels, ThreadInv
    <3>2. \A u \in Threads \ {t} : ~OnLine(u) /\ ~OnLine(u)'
      BY <1>0, <1>5, <3>1 DEF LineInv, OnLine
    <3>3. \A u \in Threads : ~OnLine(u)' /\ pc'[u] # "connectEx"
      BY <3>1, <3>2 DEF OnLine, LineLabels
    <3>4. \A o \in posted : o.op # "connect"
      BY <1>0, <3>1 DEF LineInv
    <3>5. CASE ConnectPending(t)
      <4>1. LineAsks = 2
        BY <3>5 DEF LineAsks, ConnectPending, At
      <4>2. LineAsks' <= 1
        BY <3>3 DEF LineAsks
      <4> QED
        BY <1>0, <1>1, <4>1, <4>2, AsksMove
    <3>6. CASE RecvAccepted(t)
      <4>1. \A u \in Threads : pc[u] # "connectEx"
        BY <3>2, <3>6 DEF RecvAccepted, At, OnLine, LineLabels
      <4>2. LineAsks = 1
        BY <3>1, <4>1 DEF LineAsks, Asking
      <4>3. \A o \in posted' : o.op # "connect"
        BY <3>4, <3>6 DEF RecvAccepted, Issue
      <4>4. LineAsks' = 0
        BY <3>3, <4>3 DEF LineAsks, Asking
      <4> QED
        BY <1>0, <1>1, <4>2, <4>4, AsksMove
    <3> QED
      BY <2>1, <3>5, <3>6
  <2>2. CASE SendAccepted(t)
    <3>1. Writing(t) /\ pc[t] = "wsaSend"
      BY <2>2 DEF SendAccepted, At, Writing
    <3>2. \A u \in Threads : pc'[u] # "wsaSend"
      BY <1>0, <1>1, <1>5, <3>1 DEF WriteInv, Writing
    <3>3. WriteAsks = 1 /\ WriteAsks' = 0
      BY <3>1, <3>2 DEF WriteAsks
    <3>4. OnLine(t)' => OnLine(t)
      BY <1>1 DEF OnLine, LineLabels
    <3>5. \A o \in posted' : o.op = "connect" => o \in posted
      BY <2>2 DEF SendAccepted, Issue
    <3>51. Asking(t)' => Asking(t)
      BY <1>0, <3>1, <3>4 DEF Asking
    <3>6. LineAsks' <= LineAsks
      BY <1>0, <1>1, <3>1, <3>51, <3>5, AsksMove
    <3> QED
      BY <1>0, <3>3, <3>6, AsksMove
  <2> QED
    BY <2>1, <2>2
<1>7. ioCount' \in Nat
      /\ ioCount' + Cardinality(Counters)' + LineAsks' + WriteAsks' <= opened' + 1 + received' + taken'
  BY <1>0, <1>1, <1>3, <1>4, <1>6, BudgetNumbers
<1> QED
  BY <1>3, <1>7 DEF BudgetInv

\* A message taken off the queue will be written.
LEMMA BudgetKeepsPopFront ==
  ASSUME Inv, JobTyped, KernelTyped, LinkTyped, QueueInv, BudgetInv,
         NEW t \in Threads, Acts(t), PopFront(t)
  PROVE  BudgetInv'
<1>0. /\ ThreadInv /\ WriteInv /\ home[t] \in {"idle", "onConnection", "message"}
      /\ job[t].err = "eof" => pc[t] \in {"decrIo", "onRead"}
  BY DEF Inv, ThreadInv, JobTyped
<1>1. /\ pc[t] = "pop" /\ pc'[t] = "wsaSend" /\ home'[t] = home[t]
      /\ UNCHANGED <<opened, received, posted, ioCount, pushed>>
      /\ sendQueue # <<>> /\ sendQueue' = Tail(sendQueue)
  BY <1>0 DEF PopFront, At, GoWith, ThreadInv, linkVars, ioVars, historyVars, kernelVars, opVars
<1>2. Counters' = Counters
  BY <1>0, <1>1, OthersStay DEF Counters
<1>3. WriteAsks = 0 /\ WriteAsks' <= 1
  BY <1>0, <1>1 DEF WriteInv, Writing, WriteAsks
<1>4. OnLine(t)' => OnLine(t)
  BY <1>1 DEF OnLine, LineLabels
<1>41. Asking(t)' => Asking(t)
  BY <1>0, <1>1, <1>4 DEF Asking
<1>5. LineAsks' <= LineAsks
  BY <1>0, <1>1, <1>41, AsksMove
<1>6. taken' = taken + 1
  <2>1. Len(sendQueue') = Len(sendQueue) - 1 /\ Len(sendQueue) \in Nat
    BY <1>1 DEF QueueInv
  <2> QED
    BY <1>1, <2>1 DEF taken, QueueInv
<1>7. ioCount' \in Nat
      /\ ioCount' + Cardinality(Counters)' + LineAsks' + WriteAsks' <= opened' + 1 + received' + taken'
  <2>1. /\ ioCount' = ioCount /\ opened' = opened /\ received' = received
        /\ Cardinality(Counters)' = Cardinality(Counters)
    BY <1>1, <1>2
  <2> QED
    BY <1>0, <1>3, <1>5, <1>6, <2>1, BudgetNumbers
<1> QED
  BY <1>2, <1>7 DEF BudgetInv

\* A read that brought data asks for the next one, and a connect for the first.
LEMMA BudgetKeepsDispatch ==
  ASSUME Inv, JobTyped, KernelTyped, LinkTyped, QueueInv, BudgetInv,
         NEW t \in Threads, Acts(t), Dispatch(t)
  PROVE  BudgetInv'
<1>0. ThreadInv /\ LineInv
  BY DEF Inv
<1>1. PICK o \in posted, outcome \in Errors \union {"eof"} :
        /\ outcome \in Outcomes(o)
        /\ posted' = posted \ {o}
        /\ GoWith(t, "decrIo", o.op, o.msg, outcome)
        /\ received' = received + (IF o.op = "read" /\ outcome = "ok" THEN 1 ELSE 0)
  BY DEF Dispatch, Outcomes, Errors
<1>2. o.op \in {"connect", "read", "write"}
  BY <1>0 DEF ThreadInv
<1>4. /\ pc[t] = "idle" /\ home[t] = "idle" /\ home'[t] = "idle" /\ pc'[t] = "decrIo"
      /\ job'[t].op = o.op /\ job'[t].err = outcome
      /\ UNCHANGED <<opened, ioCount, pushed, sendQueue>>
  BY <1>0, <1>1 DEF Dispatch, At, GoWith, ThreadInv, LineLabels, linkVars, ioVars, sendVars,
     queueVars
<1>5. Counters' = Counters
  BY <1>0, <1>4, OthersStay DEF Counters
<1>6. WriteAsks' <= WriteAsks
  BY <1>0, <1>4, AsksMove
<1>7. taken' = taken
  BY <1>4 DEF taken
<1>8. LineAsks' + received <= LineAsks + received'
  <2>1. CASE o.op = "write"
    <3>1. ~OnLine(t)' /\ pc'[t] # "connectEx"
      BY <1>4, <2>1 DEF OnLine, LineLabels
    <3>2. LineAsks' <= LineAsks
      BY <1>0, <1>1, <3>1, AsksMove DEF Asking
    <3>3. received' = received /\ received \in Nat
      BY <1>0, <1>1, <2>1, BudgetNumbers
    <3> QED
      BY <1>0, <3>2, <3>3, BudgetNumbers
  <2>2. CASE o.op # "write"
    <3>1. \A u \in Threads : ~OnLine(u)
      BY <1>0, <2>2 DEF LineInv
    <3>2. \A u \in Threads \ {t} : ~OnLine(u)' /\ pc'[u] # "connectEx"
      BY <1>0, <3>1, OthersStay DEF OnLine, LineLabels
    <3>3. LineAsks' \in Nat /\ LineAsks' <= 1
      BY <1>4, <3>2 DEF LineAsks
    <3>4. CASE o.op = "connect"
      <4>1. LineAsks \in Nat /\ 1 <= LineAsks
        BY <3>4 DEF LineAsks
      <4>2. received' = received /\ received \in Nat
        BY <1>0, <1>1, <3>4, BudgetNumbers
      <4>3. LineAsks' <= LineAsks
        BY <3>3, <4>1
      <4> QED
        BY <1>0, <4>2, <4>3, BudgetNumbers
    <3>5. CASE o.op = "read" /\ outcome = "ok"
      <4>1. received' = received + 1 /\ received \in Nat /\ LineAsks \in Nat
        BY <1>0, <1>1, <3>5, BudgetNumbers
      <4>2. LineAsks' <= LineAsks + 1
        BY <3>3, <4>1
      <4> QED
        BY <1>0, <4>1, <4>2, BudgetNumbers
    <3>6. CASE o.op = "read" /\ outcome # "ok"
      <4>1. \A p \in posted' : p.op # "connect"
        BY <1>0, <1>1, <3>6 DEF LineInv
      <4>2. ~Asking(t)'
        BY <1>4, <3>6 DEF Asking
      <4>3. LineAsks' = 0
        BY <1>4, <3>2, <4>1, <4>2 DEF LineAsks, Asking
      <4>4. received' = received /\ received \in Nat /\ LineAsks \in Nat
        BY <1>0, <1>1, <3>6, BudgetNumbers
      <4> QED
        BY <4>3, <4>4
    <3> QED
      BY <1>2, <2>2, <3>4, <3>5, <3>6
  <2> QED
    BY <2>1, <2>2
<1>9. received' \in Nat
  BY <1>0, <1>1, BudgetNumbers
<1>10. ioCount' \in Nat
      /\ ioCount' + Cardinality(Counters)' + LineAsks' + WriteAsks' <= opened' + 1 + received' + taken'
  BY <1>0, <1>4, <1>5, <1>6, <1>7, <1>8, <1>9, BudgetNumbers
<1> QED
  BY <1>5, <1>10 DEF BudgetInv

LEMMA BudgetKeeps ==
  ASSUME MaxConnects <= 1, Inv, Typed, QueueInv, BudgetInv, NEW t \in Threads, Acts(t)
  PROVE  BudgetInv'
<1>1. JobTyped /\ KernelTyped /\ LinkTyped
  BY DEF Typed
<1>2. CASE \/ Connect(t) \/ CountIo(t) \/ ConnectPending(t) \/ RecvAccepted(t) \/ SendAccepted(t)
           \/ PopFront(t) \/ Dispatch(t)
  BY <1>1, <1>2, BudgetKeepsConnect, BudgetKeepsCountIo, BudgetKeepsIssue, BudgetKeepsPopFront,
     BudgetKeepsDispatch
<1>3. CASE \/ Send(t) \/ Close(t) \/ Shutdown(t)
         \/ ConnectRefused(t) \/ EndOnConnection(t) \/ Start(t) \/ StartFails(t)
         \/ GoReading(t) \/ RecvRejected(t) \/ DecrIo(t) \/ OnRead(t) \/ EndMessage(t)
         \/ GoWriting(t) \/ PopNothing(t) \/ SendRejected(t) \/ WriteFailed(t) \/ FreeFailed(t)
         \/ OnWrite(t) \/ HasMore(t) \/ OnConnect(t) \/ OnError(t) \/ ErrorTail(t)
         \/ ShutdownState(t) \/ AddTimer(t) \/ TimerFires(t)
         \/ Cleanup(t) \/ CancelTimer(t) \/ CheckIo(t) \/ CancelIo(t) \/ StoreErr(t)
         \/ DoCleanup(t) \/ Reset(t)
  BY <1>1, <1>3, BudgetKeepsPlain
<1> QED
  BY <1>2, <1>3 DEF Acts, UserCall, Step

-----------------------------------------------------------------------------
LEMMA TypesNext ==
  ASSUME MaxConnects <= 1, Inv, Typed, QueueInv, BudgetInv, [Next]_vars
  PROVE  Typed' /\ QueueInv' /\ BudgetInv'
<1>1. ASSUME NEW t \in Threads, Acts(t)
      PROVE  Typed' /\ QueueInv' /\ BudgetInv'
  BY <1>1, TypedKeeps, QueueKeeps, BudgetKeeps
<1>2. ASSUME UNCHANGED <<linkVars, ioVars, sendVars, closeVars, kernelVars, threadVars,
                         received, closes, cause, lateSuccess>>,
             fault' \in {fault, "nullChannel", "staleChannel", "nullContext", "doubleFree"}
      PROVE  Typed' /\ QueueInv' /\ BudgetInv'
  <2>1. LinkTyped' /\ TimerTyped' /\ MessagesTyped' /\ KernelTyped' /\ ReportTyped'
    BY <1>2 DEF Typed, LinkTyped, TimerTyped, MessagesTyped, KernelTyped, ReportTyped,
       linkVars, sendVars, queueVars, closeVars, timerVars, kernelVars, opVars
  <2>2. FlagsTyped'
    BY <1>2 DEF Typed, FlagsTyped, ioVars, sendVars, closeVars
  <2>3. JobTyped'
    BY <1>2 DEF Typed, JobTyped, Carrying, threadVars, sendVars, queueVars
  <2>4. QueueInv' /\ taken' = taken
    BY <1>2 DEF QueueInv, taken, sendVars, queueVars
  <2>5. BudgetInv'
    BY <1>2, <2>4 DEF BudgetInv, Counters, LineAsks, WriteAsks, Asking, OnLine, linkVars, ioVars,
       kernelVars, opVars, threadVars
  <2> QED
    BY <2>1, <2>2, <2>3, <2>4, <2>5 DEF Typed
<1>3. CASE UNCHANGED vars
  BY <1>2, <1>3 DEF vars, dataVars, historyVars
<1>4. ASSUME NEW t \in Threads, Undefined(t)
      PROVE  Typed' /\ QueueInv' /\ BudgetInv'
  BY <1>2, <1>4 DEF Undefined, NullChannel, StaleChannel, NullContext, DoubleFree, Fails
<1> QED
  BY <1>1, <1>3, <1>4 DEF Next, Acts

\* Every variable keeps its type, for any threads and any traffic; in particular
\* io_pending_count_ never exceeds the operations that one connect, the messages queued
\* and the reads that came in can have led to, however the handlers interleave.
THEOREM TypeCorrect == MaxConnects <= 1 => (Spec => []TypeOK)
<1>1. MaxConnects <= 1 /\ Inv /\ Typed /\ QueueInv /\ BudgetInv /\ [Next]_vars
        => Typed' /\ QueueInv' /\ BudgetInv'
  BY TypesNext
<1>2. Inv /\ Typed /\ QueueInv /\ BudgetInv => TypeOK
  <2> SUFFICES ASSUME Inv, Typed, QueueInv, BudgetInv PROVE TypeOK
    OBVIOUS
  <2>1. ioCount \in 0..MaxConnects + MaxReceives + MaxSends + 1
    <3>1. /\ ioCount \in Nat /\ Cardinality(Counters) \in Nat
          /\ ioCount + Cardinality(Counters) + LineAsks + WriteAsks <= opened + 1 + received + taken
      BY FS_CardinalityType DEF BudgetInv
    <3>2. LineAsks \in Nat /\ WriteAsks \in Nat
      BY DEF LineAsks, WriteAsks
    <3>3. MaxConnects \in Nat /\ MaxReceives \in Nat /\ MaxSends \in Nat
      BY IOCPConnAssumption
    <3>4. opened \in 0..MaxConnects /\ received \in 0..MaxReceives /\ pushed \in 0..MaxSends
      BY DEF Typed, LinkTyped, KernelTyped, MessagesTyped
    <3>5. taken \in Int /\ taken <= MaxSends
      BY <3>3, <3>4 DEF QueueInv, taken
    <3> QED
      BY <3>1, <3>2, <3>3, <3>4, <3>5
  <2> QED
    BY <2>1 DEF Inv, ThreadInv, Typed, LinkTyped, TimerTyped, FlagsTyped, JobTyped, MessagesTyped,
       KernelTyped, ReportTyped, TypeOK
<1>3. (MaxConnects <= 1) => [](MaxConnects <= 1)
  OBVIOUS
<1> QED
  BY <1>1, <1>2, <1>3, InitTyped, Invariance, PTL DEF Spec
=============================================================================
