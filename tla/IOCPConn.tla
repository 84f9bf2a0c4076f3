------------------------------ MODULE IOCPConn ------------------------------
(***************************************************************************)
(* One IOCPConn object with its IOCPChannel, from connect() or from the    *)
(* acceptor's socket to the last completion packet, run by any threads.    *)
(*                                                                         *)
(* Every action is the code between two accesses to state that another     *)
(* thread may change: the atomics, the data under mutex_, the plain        *)
(* members that are shared without a lock, and the calls into the kernel.  *)
(* What a handler does to the flag and the context of its own operation is *)
(* one action: they are the handler's until the flag is given back.        *)
(* A function that ends by calling another one hands the thread over to    *)
(* it, so a thread needs one label; only user code run by on_message_func_ *)
(* and by the server's connection callback has something to return to.     *)
(*                                                                         *)
(* The kernel is external.  It finishes outstanding operations in any      *)
(* order; CancelIoEx and closesocket make it finish them, but an operation *)
(* that had already succeeded still reports success.                       *)
(***************************************************************************)
EXTENDS Naturals, Sequences, FiniteSets

CONSTANTS
  Pollers,       \* threads that dequeue completion packets
  AppThreads,    \* threads that call the public functions by themselves
  TimerThreads,  \* the thread of TimerManager, or none
  MaxConnects,   \* bound on the sockets the object opens
  MaxSends,      \* bound on the messages queued
  MaxReceives,   \* bound on the reads that return data
  CloseTimeout,  \* close_timeout_ms_ > 0
  NetFails,      \* whether the peer or the network may break the connection
  Accepted       \* the object may start on a socket from the acceptor

ASSUME IOCPConnAssumption ==
  /\ {MaxConnects, MaxSends, MaxReceives} \subseteq Nat
  /\ {CloseTimeout, NetFails, Accepted} \subseteq BOOLEAN
  /\ Accepted => Pollers # {} /\ MaxConnects > 0

Threads == Pollers \union AppThreads \union TimerThreads

\* Sockets are numbered as they are opened, and a channel bears the number of the
\* socket it was made for; 0 is invalid_socket and the null pointer.
Sockets == 1..MaxConnects

Errors == {"ok", "timeout", "net", "notsock", "shutdown", "aborted"}
Ops == {"none", "connect", "read", "write"}

VARIABLES
  opened,           \* number of sockets opened so far
  stateValue,       \* state_value_
  handle,           \* handle_
  channel,          \* channel_
  ioCount,          \* channel_->io_pending_count_
  readPending,      \* read_pending_
  pushed,           \* number of messages queued so far
  sendQueue,        \* send_queue_
  writeInProgress,  \* write_in_progress_
  writeContext,     \* the message of write_ol_context_, 0 for nullptr
  cleanupDone,      \* cleanup_done_
  cleanupErr,       \* cleanup_err_
  closeTimerId,     \* close_timer_id_
  nextTimerId,      \* TimerManager: next_id_
  timers,           \* TimerManager: timers armed
  pc,               \* where each thread is
  home,             \* where its user code goes on: outside, or in a callback
  job,              \* the context and error its current function works on
  sock,             \* kernel: the state of each socket
  posted,           \* kernel: operations whose packet has not been dequeued
  cancelled,        \* kernel: those of them told to finish
  received,         \* number of reads that returned data
  freed,            \* messages whose Buffer was deleted
  closes,           \* the errors on_close_func_ was called with, in order
  cause,            \* the error cleanup_ began with
  lateSuccess,      \* a success was handled after cleanup_() had begun
  fault             \* the kind of undefined behaviour reached, if any

linkVars == <<opened, stateValue, handle, channel>>
ioVars == <<ioCount, readPending>>
queueVars == <<pushed, sendQueue>>
sendVars == <<queueVars, writeInProgress, writeContext, freed>>
timerVars == <<closeTimerId, nextTimerId, timers>>
closeVars == <<cleanupDone, cleanupErr, timerVars>>
opVars == <<posted, cancelled>>
kernelVars == <<sock, opVars>>
threadVars == <<pc, home, job>>
historyVars == <<received, closes, cause, lateSuccess, fault>>
dataVars == <<linkVars, ioVars, sendVars, closeVars, kernelVars, historyVars>>
vars == <<dataVars, threadVars>>

Labels ==
  {"idle", "onConnection", "message", "connectEx", "countIo",
   "shutdownState", "addTimer", "start", "goReading", "recv",
   "goWriting", "pop", "wsaSend", "writeFailed", "freeFailed",
   "decrIo", "onConnect", "onRead", "onWrite", "hasMore", "onError", "errorTail",
   "cleanup", "cancelTimer", "checkIo", "cancelIo", "storeErr",
   "doCleanup", "reset"}

Operation == [op : Ops \ {"none"}, msg : 0..MaxSends, sock : Sockets]
Job == [op : Ops, msg : 0..MaxSends, err : Errors \union {"eof"}]
NoJob == [op |-> "none", msg |-> 0, err |-> "ok"]

TypeOK ==
  /\ opened \in 0..MaxConnects
  /\ stateValue \in {"Disconnected", "Connecting", "Connected", "Disconnecting"}
  /\ handle \in 0..opened /\ channel \in 0..opened
  /\ ioCount \in 0..MaxConnects + MaxReceives + MaxSends + 1
  /\ {readPending, writeInProgress, cleanupDone, lateSuccess} \subseteq BOOLEAN
  /\ pushed \in 0..MaxSends
  /\ sendQueue \in Seq(1..pushed)
  /\ writeContext \in 0..pushed
  /\ cleanupErr \in Errors
  /\ nextTimerId \in Nat \ {0}
  /\ closeTimerId \in 0..nextTimerId - 1 /\ timers \subseteq 1..nextTimerId - 1
  /\ pc \in [Threads -> Labels]
  /\ home \in [Threads -> {"idle", "onConnection", "message"}]
  /\ job \in [Threads -> Job]
  /\ sock \in [Sockets -> {"new", "unconnected", "connected", "half", "closed"}]
  /\ cancelled \subseteq posted /\ posted \subseteq Operation
  /\ received \in 0..MaxReceives
  /\ freed \subseteq 1..pushed
  /\ closes \in Seq(Errors) /\ cause \in Errors
  /\ fault \in {"none", "nullChannel", "staleChannel", "nullContext", "doubleFree"}

\* The constructor; on the acceptor's side a poll thread is about to show the new
\* connection to the user before it calls start().
Init ==
  \E acceptor \in IF Accepted THEN {{}} \union {{t} : t \in Pollers} ELSE {{}} :
    LET accepted == acceptor # {} IN
    /\ opened = IF accepted THEN 1 ELSE 0
    /\ handle = opened
    /\ stateValue = IF accepted THEN "Connecting" ELSE "Disconnected"
    /\ sock = [s \in Sockets |-> IF s <= opened THEN "connected" ELSE "new"]
    /\ pc = [t \in Threads |-> IF t \in acceptor THEN "onConnection" ELSE "idle"]
    /\ home = pc
    /\ job = [t \in Threads |-> NoJob]
    /\ channel = 0 /\ ioCount = 0 /\ readPending = FALSE
    /\ pushed = 0 /\ sendQueue = <<>> /\ writeInProgress = FALSE
    /\ writeContext = 0 /\ freed = {}
    /\ cleanupDone = FALSE /\ cleanupErr = "ok"
    /\ closeTimerId = 0 /\ nextTimerId = 1 /\ timers = {}
    /\ posted = {} /\ cancelled = {}
    /\ received = 0 /\ closes = <<>> /\ cause = "ok"
    /\ lateSuccess = FALSE /\ fault = "none"

-----------------------------------------------------------------------------
\* Threads.

At(t, label) == fault = "none" /\ pc[t] = label

\* The thread goes on at a label; a thread that returns forgets its job.
Go(t, to) ==
  /\ pc' = [pc EXCEPT ![t] = to]
  /\ job' = IF to = home[t] THEN [job EXCEPT ![t] = NoJob] ELSE job
  /\ UNCHANGED home

Return(t) == Go(t, home[t])

\* The thread goes on at a label with something to work on.
GoWith(t, to, op, msg, err) ==
  /\ pc' = [pc EXCEPT ![t] = to]
  /\ job' = [job EXCEPT ![t] = [op |-> op, msg |-> msg, err |-> err]]
  /\ UNCHANGED home

\* on_message_func_ is called; it may call the library before it returns.
CallUser(t) ==
  /\ pc' = [pc EXCEPT ![t] = "message"]
  /\ home' = [home EXCEPT ![t] = "message"]
  /\ job' = [job EXCEPT ![t] = NoJob]

\* A callback returns, and its caller goes on at a label.
Resume(t, to) ==
  /\ pc' = [pc EXCEPT ![t] = to]
  /\ home' = [home EXCEPT ![t] = "idle"]
  /\ UNCHANGED job

\* User code: outside the library, or in a callback of it.
InUserCode(t) == At(t, home[t]) /\ (home[t] = "idle" => t \in AppThreads)

\* Broken variant: nothing stops the counter at zero.
DecrementBelowZero == ioCount' = ioCount - 1

\* Broken variant: completions are not counted.
DecrementNever == UNCHANGED ioCount

\* decr_io_count() never goes below zero.
Decrement == ioCount' = IF ioCount > 0 THEN ioCount - 1 ELSE 0

SocketBecomes(s, how) == sock' = [sock EXCEPT ![s] = how]

\* The kernel accepts an operation on the socket of the connection.
Issue(op, msg) ==
  posted' = posted \union {[op |-> op, msg |-> msg, sock |-> handle]}

OnSocket(s) == {o \in posted : o.sock = s}

-----------------------------------------------------------------------------
\* connect(), up to the call of ConnectEx.  When the socket, its address or its
\* registration is refused, the object is left as it was.
Connect(t) ==
  /\ InUserCode(t) /\ stateValue = "Disconnected" /\ opened < MaxConnects
  /\ opened' = opened + 1
  /\ handle' = opened' /\ channel' = opened' /\ ioCount' = 0
  /\ stateValue' = "Connecting"
  /\ SocketBecomes(opened', "unconnected")
  /\ Go(t, "connectEx")
  /\ UNCHANGED <<readPending, sendVars, closeVars, opVars, historyVars>>

\* connect(): ConnectEx is pending.
ConnectPending(t) ==
  /\ At(t, "connectEx") /\ handle # 0
  /\ Issue("connect", 0)
  /\ Go(t, "countIo")
  /\ UNCHANGED <<linkVars, ioVars, sendVars, closeVars, sock, cancelled,
                 historyVars>>

\* connect(): ConnectEx fails at once; everything is taken back.
ConnectRefused(t) ==
  /\ At(t, "connectEx") /\ (handle = 0 \/ NetFails)
  /\ handle' = 0 /\ channel' = 0 /\ stateValue' = "Disconnected"
  /\ IF handle = 0 THEN UNCHANGED sock ELSE SocketBecomes(handle, "closed")
  /\ Return(t)
  /\ UNCHANGED <<opened, ioVars, sendVars, closeVars, opVars, historyVars>>

\* connect(), go_reading_(), go_writing_(): the operation has been handed to the
\* kernel, and only now is it counted.
CountIo(t) ==
  /\ At(t, "countIo") /\ channel # 0
  /\ ioCount' = ioCount + 1
  /\ Return(t)
  /\ UNCHANGED <<linkVars, readPending, sendVars, closeVars, kernelVars,
                 historyVars>>

\* The acceptor's side: the connection callback of the server returns.
EndOnConnection(t) ==
  /\ At(t, "onConnection")
  /\ Resume(t, "start")
  /\ UNCHANGED dataVars

\* start(): a connection that came from the acceptor first gets its channel.
Start(t) ==
  /\ At(t, "start")
  /\ channel = 0 /\ stateValue # "Connected" => handle # 0
  /\ stateValue' = "Connected"
  /\ IF channel = 0 /\ stateValue # "Connected"
       THEN channel' = handle /\ ioCount' = 0
       ELSE UNCHANGED <<channel, ioCount>>
  /\ Go(t, IF stateValue = "Connected" THEN home[t] ELSE "goReading")
  /\ UNCHANGED <<opened, handle, readPending, sendVars, closeVars, kernelVars,
                 historyVars>>

\* start(): the channel cannot be registered.  The completion handler of connect()
\* reacts with cleanup_(), the server only forgets the connection.
StartFails(t) ==
  /\ At(t, "start") /\ channel = 0 /\ stateValue # "Connected"
  /\ handle = 0 \/ NetFails
  /\ handle' = 0
  /\ IF handle = 0 THEN UNCHANGED sock ELSE SocketBecomes(handle, "closed")
  /\ Go(t, IF job[t].op = "connect" THEN "cleanup" ELSE home[t])
  /\ UNCHANGED <<opened, stateValue, channel, ioVars, sendVars, closeVars, opVars,
                 historyVars>>

-----------------------------------------------------------------------------
\* Reading.

\* go_reading_(): compare and swap read_pending_.
GoReading(t) ==
  /\ At(t, "goReading")
  /\ readPending' = TRUE
  /\ Go(t, IF readPending THEN home[t] ELSE "recv")
  /\ UNCHANGED <<linkVars, ioCount, sendVars, closeVars, kernelVars, historyVars>>

\* go_reading_(): WSARecv is accepted.
RecvAccepted(t) ==
  /\ At(t, "recv") /\ handle # 0
  /\ Issue("read", 0)
  /\ Go(t, "countIo")
  /\ UNCHANGED <<linkVars, ioVars, sendVars, closeVars, sock, cancelled,
                 historyVars>>

\* go_reading_(): WSARecv fails at once.
RecvRejected(t) ==
  /\ At(t, "recv") /\ (handle = 0 \/ NetFails)
  /\ readPending' = FALSE
  /\ GoWith(t, "errorTail", "read", 0, IF handle = 0 THEN "notsock" ELSE "net")
  /\ UNCHANGED <<linkVars, ioCount, sendVars, closeVars, kernelVars, historyVars>>

\* Broken variant: the next read is issued before the message is handled.
OnReadRearmed(t) ==
  /\ At(t, "onRead") /\ handle # 0
  /\ Issue("read", 0)
  /\ CallUser(t)
  /\ UNCHANGED <<linkVars, ioVars, sendVars, closeVars, sock, cancelled,
                 historyVars>>

\* on_completion_read_(), from the store to read_pending_ to the call of
\* on_message_func_.  Only the thread whose read it was may look at read_pending_ now.
OnRead(t) ==
  /\ At(t, "onRead")
  /\ readPending' = FALSE
  /\ IF job[t].err = "eof"
       THEN GoWith(t, "cleanup", "read", 0, "ok")
       ELSE CallUser(t)
  /\ UNCHANGED <<linkVars, ioCount, sendVars, closeVars, kernelVars, historyVars>>

\* on_completion_read_(): on_message_func_ has returned.
EndMessage(t) ==
  /\ At(t, "message")
  /\ Resume(t, IF stateValue = "Disconnecting" THEN "cleanup" ELSE "goReading")
  /\ UNCHANGED dataVars

-----------------------------------------------------------------------------
\* Writing.

\* send(): under mutex_, refuse unless connected, else queue the message.
Send(t) ==
  /\ InUserCode(t) /\ stateValue = "Connected" /\ pushed < MaxSends
  /\ pushed' = pushed + 1
  /\ sendQueue' = Append(sendQueue, pushed')
  /\ Go(t, IF Len(sendQueue') = 1 THEN "goWriting" ELSE home[t])
  /\ UNCHANGED <<linkVars, ioVars, writeInProgress, writeContext, freed,
                 closeVars, kernelVars, historyVars>>

\* Broken variant: the flag is set without looking at its old value.
GoWritingBlindly(t) ==
  /\ At(t, "goWriting")
  /\ writeInProgress' = TRUE
  /\ Go(t, "pop")
  /\ UNCHANGED <<linkVars, ioVars, queueVars, writeContext, freed, closeVars,
                 kernelVars, historyVars>>

\* go_writing_(): compare and swap write_in_progress_.
GoWriting(t) ==
  /\ At(t, "goWriting")
  /\ writeInProgress' = TRUE
  /\ Go(t, IF writeInProgress THEN home[t] ELSE "pop")
  /\ UNCHANGED <<linkVars, ioVars, queueVars, writeContext, freed, closeVars,
                 kernelVars, historyVars>>

\* Broken variant: the flag is not given back.
PopNothingKeepsFlag(t) ==
  /\ At(t, "pop") /\ sendQueue = <<>>
  /\ Return(t)
  /\ UNCHANGED dataVars

\* go_writing_(): under mutex_, the queue is empty.
PopNothing(t) ==
  /\ At(t, "pop") /\ sendQueue = <<>>
  /\ writeInProgress' = FALSE
  /\ Return(t)
  /\ UNCHANGED <<linkVars, ioVars, queueVars, writeContext, freed, closeVars,
                 kernelVars, historyVars>>

\* go_writing_(): take the oldest message and make the context of its write.
PopFront(t) ==
  /\ At(t, "pop") /\ sendQueue # <<>>
  /\ sendQueue' = Tail(sendQueue)
  /\ writeContext' = Head(sendQueue)
  /\ GoWith(t, "wsaSend", "write", writeContext', "ok")
  /\ UNCHANGED <<linkVars, ioVars, pushed, writeInProgress, freed, closeVars,
                 kernelVars, historyVars>>

\* Broken variant: the buffer is deleted as soon as WSASend has returned.
SendAcceptedAndFreed(t) ==
  /\ At(t, "wsaSend") /\ handle # 0 /\ sock[handle] = "connected"
  /\ writeContext # 0
  /\ Issue("write", writeContext)
  /\ freed' = freed \union {writeContext}
  /\ GoWith(t, "countIo", "write", 0, "ok")
  /\ UNCHANGED <<linkVars, ioVars, queueVars, writeInProgress, writeContext,
                 closeVars, sock, cancelled, historyVars>>

\* go_writing_(): WSASend succeeds or is pending.  It is called with whatever
\* write_ol_context_ points to.
SendAccepted(t) ==
  /\ At(t, "wsaSend") /\ handle # 0 /\ sock[handle] = "connected"
  /\ writeContext # 0
  /\ Issue("write", writeContext)
  /\ GoWith(t, "countIo", "write", 0, "ok")
  /\ UNCHANGED <<linkVars, ioVars, sendVars, closeVars, sock, cancelled,
                 historyVars>>

\* go_writing_(): WSASend fails at once, always so after shutdown(SD_SEND).
SendRejected(t) ==
  /\ At(t, "wsaSend") /\ writeContext # 0
  /\ \E err \in {"notsock", "shutdown", "net"} :
       /\ err = "notsock" <=> handle = 0
       /\ err = "shutdown" => sock[handle] = "half"
       /\ err = "net" => NetFails
       /\ GoWith(t, "writeFailed", "write", job[t].msg, err)
  /\ UNCHANGED dataVars

\* go_writing_(): the flag is given back first ...
WriteFailed(t) ==
  /\ At(t, "writeFailed")
  /\ writeInProgress' = FALSE
  /\ GoWith(t, "freeFailed", "write", 0, job[t].err)
  /\ UNCHANGED <<linkVars, ioVars, queueVars, writeContext, freed, closeVars,
                 kernelVars, historyVars>>

\* ... and only then is the buffer of write_ol_context_ deleted, and the context
\* released.
FreeFailed(t) ==
  /\ At(t, "freeFailed") /\ writeContext # 0
  /\ freed' = freed \union {writeContext}
  /\ writeContext' = 0
  /\ Go(t, "errorTail")
  /\ UNCHANGED <<linkVars, ioVars, queueVars, writeInProgress, closeVars,
                 kernelVars, historyVars>>

\* What both handlers of a finished write do with its context.
WriteOver(m) ==
  /\ m \notin freed
  /\ freed' = freed \union {m}
  /\ writeContext' = IF writeContext = m THEN 0 ELSE writeContext
  /\ writeInProgress' = FALSE

\* on_completion_write_(), from there to the second look at the queue.
OnWrite(t) ==
  /\ At(t, "onWrite")
  /\ WriteOver(job[t].msg)
  /\ GoWith(t, "hasMore", "write", 0, "ok")
  /\ UNCHANGED <<linkVars, ioVars, queueVars, closeVars, kernelVars, historyVars>>

\* on_completion_write_(): under mutex_, look for more to send.
HasMore(t) ==
  /\ At(t, "hasMore")
  /\ Go(t, IF sendQueue # <<>> THEN "goWriting" ELSE home[t])
  /\ UNCHANGED dataVars

-----------------------------------------------------------------------------
\* The other completions.

\* on_completion_connect_(): SO_UPDATE_CONNECT_CONTEXT, then start().
OnConnect(t) ==
  /\ At(t, "onConnect")
  /\ \/ /\ handle # 0
        /\ SocketBecomes(handle, "connected")
        /\ Go(t, "start")
     \/ /\ handle = 0 \/ NetFails
        /\ UNCHANGED sock
        /\ GoWith(t, "cleanup", "connect", 0, IF handle = 0 THEN "notsock" ELSE "net")
  /\ UNCHANGED <<linkVars, ioVars, sendVars, closeVars, opVars, historyVars>>

\* on_completion_error_() of a context: discard it.
OnError(t) ==
  /\ At(t, "onError")
  /\ readPending' = IF job[t].op = "read" THEN FALSE ELSE readPending
  /\ IF job[t].op = "write"
       THEN WriteOver(job[t].msg)
       ELSE UNCHANGED <<freed, writeContext, writeInProgress>>
  /\ GoWith(t, "errorTail", job[t].op, 0, job[t].err)
  /\ UNCHANGED <<linkVars, ioCount, queueVars, closeVars, kernelVars, historyVars>>

\* Broken variant: any failed operation counts as the last.
LastOperationAny == channel # 0

\* Broken variant: a channel that is gone has no operations either.
LastOperationGone == channel # 0 => ioCount = 0

\* The operation that failed was the last one the cleanup waited for.
LastOperation == channel # 0 /\ ioCount = 0

\* on_completion_error_(): begin the cleanup, or finish it if this was the last
\* operation it waited for.
ErrorTail(t) ==
  /\ At(t, "errorTail")
  /\ \/ /\ ~cleanupDone
        /\ Go(t, "cleanup")
     \/ /\ cleanupDone /\ LastOperation
        /\ GoWith(t, "doCleanup", job[t].op, 0, cleanupErr)
     \/ /\ cleanupDone /\ ~LastOperation
        /\ Return(t)
  /\ UNCHANGED dataVars

-----------------------------------------------------------------------------
\* Closing.

\* close() by the user.
Close(t) ==
  /\ InUserCode(t) /\ stateValue # "Disconnected"
  /\ Go(t, "cleanup")
  /\ UNCHANGED dataVars

\* What ::shutdown(handle_, SD_SEND) does: nothing to a socket not yet connected.
ShutdownSend ==
  IF handle # 0 /\ sock[handle] = "connected"
    THEN SocketBecomes(handle, "half")
    ELSE UNCHANGED sock

\* shutdown() by the user: close the write direction ...
Shutdown(t) ==
  /\ InUserCode(t) /\ stateValue \in {"Connecting", "Connected"} /\ handle # 0
  /\ ShutdownSend
  /\ Go(t, "shutdownState")
  /\ UNCHANGED <<linkVars, ioVars, sendVars, closeVars, opVars, historyVars>>

\* ... change the state ...
ShutdownState(t) ==
  /\ At(t, "shutdownState")
  /\ stateValue' = "Disconnecting"
  /\ Go(t, IF CloseTimeout THEN "addTimer" ELSE home[t])
  /\ UNCHANGED <<opened, handle, channel, ioVars, sendVars, closeVars, kernelVars,
                 historyVars>>

\* Broken variant: the wrong way round.
TimerArmedNot == closeTimerId = 0

\* start_close_timeout_() has been called before.
TimerArmed == closeTimerId # 0

\* ... and start_close_timeout_().
AddTimer(t) ==
  /\ At(t, "addTimer")
  /\ IF TimerArmed
       THEN UNCHANGED timerVars
       ELSE /\ closeTimerId' = nextTimerId
            /\ nextTimerId' = nextTimerId + 1
            /\ timers' = timers \union {nextTimerId}
  /\ Return(t)
  /\ UNCHANGED <<linkVars, ioVars, sendVars, cleanupDone, cleanupErr, kernelVars,
                 historyVars>>

\* The timer thread has taken out an expired timer and calls its function.
TimerFires(t) ==
  /\ t \in TimerThreads /\ At(t, "idle")
  /\ \E id \in timers : timers' = timers \ {id}
  /\ GoWith(t, "cleanup", "none", 0, "timeout")
  /\ UNCHANGED <<linkVars, ioVars, sendVars, cleanupDone, cleanupErr,
                 closeTimerId, nextTimerId, kernelVars, historyVars>>

\* cleanup_(): compare and swap cleanup_done_.
Cleanup(t) ==
  /\ At(t, "cleanup")
  /\ cleanupDone' = TRUE
  /\ cause' = IF cleanupDone THEN cause ELSE job[t].err
  /\ Go(t, IF cleanupDone THEN home[t] ELSE "cancelTimer")
  /\ UNCHANGED <<linkVars, ioVars, sendVars, cleanupErr, timerVars, kernelVars,
                 received, closes, lateSuccess, fault>>

\* cleanup_(): cancel_close_timeout_(), and close the write direction.
CancelTimer(t) ==
  /\ At(t, "cancelTimer")
  /\ timers' = timers \ {closeTimerId}
  /\ closeTimerId' = 0
  /\ IF stateValue = "Connected" THEN ShutdownSend ELSE UNCHANGED sock
  /\ Go(t, "checkIo")
  /\ UNCHANGED <<linkVars, ioVars, sendVars, cleanupDone, cleanupErr, nextTimerId,
                 opVars, historyVars>>

\* Broken variant: operations are not looked at.
IoPendingNever == FALSE

\* Operations are outstanding, as far as the counter says.
IoPending == channel # 0 /\ ioCount > 0

\* cleanup_(): change the state and see whether operations are outstanding.
CheckIo(t) ==
  /\ At(t, "checkIo")
  /\ stateValue' = "Disconnecting"
  /\ Go(t, IF IoPending THEN "cancelIo" ELSE "doCleanup")
  /\ UNCHANGED <<opened, handle, channel, ioVars, sendVars, closeVars, kernelVars,
                 historyVars>>

\* Broken variant: operations are awaited without being cancelled.
CancelIoNever(t) ==
  /\ At(t, "cancelIo")
  /\ Go(t, "storeErr")
  /\ UNCHANGED dataVars

\* cleanup_(): CancelIoEx.
CancelIo(t) ==
  /\ At(t, "cancelIo")
  /\ cancelled' = cancelled \union OnSocket(handle)
  /\ Go(t, "storeErr")
  /\ UNCHANGED <<linkVars, ioVars, sendVars, closeVars, sock, posted,
                 historyVars>>

\* Broken variant: the error is lost.
StoreErrNever(t) ==
  /\ At(t, "storeErr")
  /\ Return(t)
  /\ UNCHANGED dataVars

\* cleanup_(): leave the error to whoever handles the last completion.
StoreErr(t) ==
  /\ At(t, "storeErr")
  /\ cleanupErr' = job[t].err
  /\ Return(t)
  /\ UNCHANGED <<linkVars, ioVars, sendVars, cleanupDone, timerVars, kernelVars,
                 historyVars>>

\* do_cleanup_(): close the socket and change the state.
DoCleanup(t) ==
  /\ At(t, "doCleanup")
  /\ IF handle = 0 THEN UNCHANGED sock ELSE SocketBecomes(handle, "closed")
  /\ cancelled' = cancelled \union OnSocket(handle)
  /\ handle' = 0
  /\ stateValue' = "Disconnected"
  /\ Go(t, "reset")
  /\ UNCHANGED <<opened, channel, ioVars, sendVars, closeVars, posted,
                 historyVars>>

\* do_cleanup_(): destroy the channel and call on_close_func_.
Reset(t) ==
  /\ At(t, "reset")
  /\ channel' = 0 /\ ioCount' = 0
  /\ closes' = Append(closes, job[t].err)
  /\ Return(t)
  /\ UNCHANGED <<opened, stateValue, handle, readPending, sendVars, closeVars,
                 kernelVars, received, cause, lateSuccess, fault>>

-----------------------------------------------------------------------------
\* The completion port.

\* How the kernel may finish an operation.
Outcomes(o) ==
  {"ok"}
    \union (IF o.op = "read" THEN {"eof"} ELSE {})
    \union (IF NetFails THEN {"net"} ELSE {})
    \union (IF o \in cancelled THEN {"aborted"} ELSE {})

\* What the channel calls for a finished operation.
Handler(op, outcome) ==
  IF outcome \in {"ok", "eof"}
    THEN CASE op = "connect" -> "onConnect"
           [] op = "read" -> "onRead"
           [] op = "write" -> "onWrite"
    ELSE "onError"

\* IOCPEventPoll::process_one_event_() dequeues the packet of an operation and hands
\* it to the channel that is its key.
Dispatch(t) ==
  /\ t \in Pollers /\ At(t, "idle")
  /\ \E o \in posted : \E outcome \in Outcomes(o) :
       /\ o.sock = channel
       /\ o.op = "read" /\ outcome = "ok" => received < MaxReceives
       /\ posted' = posted \ {o}
       /\ cancelled' = cancelled \ {o}
       /\ GoWith(t, "decrIo", o.op, o.msg, outcome)
       /\ received' = received + (IF o.op = "read" /\ outcome = "ok" THEN 1 ELSE 0)
  /\ UNCHANGED <<linkVars, ioVars, sendVars, closeVars, sock, closes, cause,
                 lateSuccess, fault>>

\* Every handler first takes its operation off the counter; from here on cleanup_() in
\* another thread does not wait for this thread.
DecrIo(t) ==
  /\ At(t, "decrIo") /\ channel # 0
  /\ Decrement
  /\ lateSuccess' = (lateSuccess \/ (cleanupDone /\ job[t].err \in {"ok", "eof"}))
  /\ Go(t, Handler(job[t].op, job[t].err))
  /\ UNCHANGED <<linkVars, readPending, sendVars, closeVars, kernelVars, received, closes,
                 cause, fault>>

-----------------------------------------------------------------------------
\* Undefined behaviour; nothing is said of what happens after it.

Fails(how) ==
  /\ fault' = how
  /\ UNCHANGED <<linkVars, ioVars, sendVars, closeVars, threadVars, kernelVars,
                 received, closes, cause, lateSuccess>>

\* channel_-> when the channel is gone.
NullChannel(t) ==
  /\ At(t, "countIo") \/ At(t, "decrIo")
  /\ channel = 0
  /\ Fails("nullChannel")

\* The completion key is a channel that was destroyed.
StaleChannel(t) ==
  /\ t \in Pollers /\ At(t, "idle")
  /\ \E o \in posted : o.sock # channel
  /\ Fails("staleChannel")

\* write_ol_context_-> when somebody else has cleared it.
NullContext(t) ==
  /\ (At(t, "wsaSend") \/ At(t, "freeFailed")) /\ writeContext = 0
  /\ Fails("nullContext")

\* delete of a buffer that was deleted by somebody else.
DoubleFree(t) ==
  /\ (At(t, "onWrite") \/ At(t, "onError")) /\ job[t].msg \in freed
  /\ Fails("doubleFree")

-----------------------------------------------------------------------------
\* What a thread does by itself once it is inside the library.
Step(t) ==
  \/ ConnectPending(t) \/ ConnectRefused(t) \/ CountIo(t)
  \/ EndOnConnection(t) \/ Start(t) \/ StartFails(t)
  \/ GoReading(t) \/ RecvAccepted(t) \/ RecvRejected(t)
  \/ DecrIo(t) \/ OnRead(t) \/ EndMessage(t)
  \/ GoWriting(t) \/ PopNothing(t) \/ PopFront(t)
  \/ SendAccepted(t) \/ SendRejected(t) \/ WriteFailed(t) \/ FreeFailed(t)
  \/ OnWrite(t) \/ HasMore(t)
  \/ OnConnect(t) \/ OnError(t) \/ ErrorTail(t)
  \/ ShutdownState(t) \/ AddTimer(t)
  \/ Cleanup(t) \/ CancelTimer(t) \/ CheckIo(t) \/ CancelIo(t) \/ StoreErr(t)
  \/ DoCleanup(t) \/ Reset(t)

UserCall(t) == Connect(t) \/ Send(t) \/ Close(t) \/ Shutdown(t)

Undefined(t) == NullChannel(t) \/ StaleChannel(t) \/ NullContext(t) \/ DoubleFree(t)

Next ==
  \E t \in Threads :
    UserCall(t) \/ Dispatch(t) \/ TimerFires(t) \/ Step(t) \/ Undefined(t)

\* Callbacks return and threads are scheduled; timers expire; an operation told to
\* finish does finish, and a poller dequeues its packet, because its thread comes
\* back to poll() again and again, whatever else it calls in between.  An operation
\* nobody cancels may stay pending for ever, and the user need not call anything.
Fairness ==
  /\ \A t \in Threads :
       /\ WF_vars(Step(t)) /\ WF_vars(TimerFires(t))
       /\ SF_vars(EndMessage(t) \/ EndOnConnection(t))
  /\ SF_vars(cancelled # {} /\ \E t \in Pollers : Dispatch(t))

Spec == Init /\ [][Next]_vars

FairSpec == Spec /\ Fairness

-----------------------------------------------------------------------------
\* No step of the library is undefined behaviour.
Defined == fault = "none"

\* When every thread is back in user code, the channel's counter is the number of
\* operations outstanding: this is what cleanup_() decides by.
IoCounted ==
  channel # 0 /\ (\A t \in Threads : pc[t] = home[t])
    => ioCount = Cardinality(OnSocket(channel))

\* The kernel holds no operation on a socket that was closed: the contexts and
\* buffers of operations outlive them, and no packet bears the key of a destroyed
\* channel.
WaitsForPendingIo == \A o \in posted : sock[o.sock] # "closed"

\* The kernel never sends from a deleted buffer.
BufferOutlivesWrite == \A o \in posted : o.op = "write" => o.msg \notin freed

\* There is never more than one read and one write outstanding.
OneReadOneWrite ==
  \A o1, o2 \in posted : o1.op = o2.op => o1 = o2

\* The error reported at the end is the one the cleanup began with.
CauseReported == \A i \in DOMAIN closes : closes[i] = cause

\* on_message_func_ is never called while it is running, in whatever thread.  (With one
\* thread it is not called after the end either, see KeepsContract; with several, close()
\* in another thread may report the end between decr_io_count() and the call.)
DeliversSerially ==
  [][\A t \in Threads : home[t] # "message" /\ home'[t] = "message"
       => \A u \in Threads : home[u] # "message"]_vars

\* The user is called back as promised.
Contract == INSTANCE Callbacks WITH
              handling <- {t \in Threads : home[t] = "message"}, reported <- closes

KeepsContract == Contract!Spec

\* What SendPath sees of a thread: where it is in the send path, and the message it
\* has in hand; and of the kernel: the messages of the outstanding writes.
SendPlace(t) ==
  CASE pc[t] = "goWriting" -> "go_writing"
    [] pc[t] = "pop" -> "pop"
    [] pc[t] = "wsaSend" -> "wsasend"
    [] pc[t] = "writeFailed" -> "write_failed"
    [] pc[t] = "onWrite" -> "on_write"
    [] pc[t] = "decrIo" /\ job[t].op = "write"
         -> IF Handler("write", job[t].err) = "onWrite" THEN "on_write" ELSE "on_write_error"
    [] pc[t] = "hasMore" -> "has_more"
    [] pc[t] = "onError" /\ job[t].op = "write" -> "on_write_error"
    [] pc[t] \in {"freeFailed", "errorTail", "cleanup"} /\ job[t].op = "write" -> "error"
    [] OTHER -> "idle"

SendPc == [t \in Threads |-> SendPlace(t)]

SendBuf == [t \in Threads |-> job[t].msg]

InFlight == {o.msg : o \in {x \in posted : x.op = "write"}}

\* The sending half is what SendPath describes.
Sending == INSTANCE SendPath WITH
  connected <- stateValue = "Connected", closing <- cleanupDone,
  inflight <- InFlight, pc <- SendPc, sendBuf <- SendBuf

ImplementsSendPath == Sending!Spec

\* A cleanup that has begun ends with the report to the user, unless a completion
\* that was a success slipped in.
CleanupEnds == cleanupDone ~> (closes # <<>> \/ lateSuccess \/ fault # "none")

\* close() means to clean up at once: a cleanup that has begun ends with the report.
\* It does not hold (README.md, section 3); CleanupEnds says what does.
CloseEnds == cleanupDone ~> closes # <<>>

\* A graceful shutdown ends in a cleanup.
ShutdownEnds == (stateValue = "Disconnecting") ~> (cleanupDone \/ fault # "none")
=============================================================================
