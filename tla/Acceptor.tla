----------------------------- MODULE Acceptor -----------------------------
(***************************************************************************)
(* IOCPAcceptor with its IOCPChannel, its contexts in a ContextPool and    *)
(* SockExFunc: AcceptN calls of AcceptEx are kept outstanding, and every   *)
(* one that is completed is replaced by the thread that handles it, until  *)
(* shutdown() closes the listening socket.                                 *)
(*                                                                         *)
(* An action is the code between two accesses to state that another thread *)
(* may change meanwhile.  The kernel is external: it numbers sockets, uses *)
(* a free number again, and finishes outstanding calls in any order; a     *)
(* call may succeed although the listening socket has been closed.         *)
(***************************************************************************)
EXTENDS SockExFunc, Sequences

CONSTANTS
  Pollers,      \* threads that dequeue completion packets
  App,          \* the thread that calls start() and shutdown()
  AcceptN,      \* number of AcceptEx calls start() asks for
  Address,      \* ip_address_type() of the address to listen on
  Stack,        \* proto_stack_
  Handles,      \* socket handles the kernel can give
  MaxClients,   \* bound on the clients that connect
  MaxFailures   \* bound on the calls that fail

ASSUME AcceptorAssumption ==
  /\ App \notin Pollers /\ IsFiniteSet(Pollers)
  /\ {AcceptN, MaxClients, MaxFailures} \subseteq Nat /\ AcceptN > 0
  /\ Handles \subseteq Nat \ {0}
  /\ App \in Users

VARIABLES
  shut,           \* shut_
  listenHandle,   \* listen_handle_, 0 for invalid_socket
  channel,        \* channel_ is not null
  ioCount,        \* channel_->io_pending_count_
  acceptHandle,   \* accept_handle of every AcceptContext made so far
  free,           \* accept_pool(): contexts released
  pc,             \* where each thread is
  ctx,            \* the context each thread is working on, 0 for none
  old,            \* the context of a failed call, to be released at the end
  toIssue,        \* calls of go_accepting_() that start() still has to make
  sock,           \* kernel: what each handle stands for
  posted,         \* kernel: contexts of the outstanding AcceptEx calls
  clients,        \* kernel: number of clients that have connected
  served,         \* number of clients some thread has dequeued
  failures,       \* number of calls that have failed
  lost,           \* calls of go_accepting_() that have issued nothing
  fault           \* the kind of undefined behaviour reached, if any

objectVars == <<shut, listenHandle, channel, ioCount>>
poolVars == <<acceptHandle, free>>
threadVars == <<pc, ctx, old, toIssue>>
kernelVars == <<sock, posted, clients>>
historyVars == <<served, failures, lost, fault>>
acceptorVars ==
  <<objectVars, poolVars, threadVars, kernelVars, historyVars, sockExVars>>

Threads == Pollers \union {App}
Contexts == 1..Len(acceptHandle)

\* Where a thread may be: App, that starts and ends the acceptor, and those that poll.  The
\* second half of each set are places of Server.
AppLabels ==
  {"idle", "start", "accept", "socket", "acceptEx", "serving", "closeListen", "down"}
    \union {"collect", "each", "ending", "wait", "clear", "stopPolls"}
PollerLabels ==
  {"idle", "accept", "socket", "acceptEx", "onAccept", "onConn", "onReset", "onAborted",
   "onLast", "resetChannel", "release"}
    \union {"insert", "startConn", "dropConn", "message", "ending"}

Labels == AppLabels \union PollerLabels

\* Contexts exist, handles, threads and places are known, and counters stay within their bounds.
AcceptorTypeOK ==
  /\ {shut, channel} \subseteq BOOLEAN
  /\ listenHandle \in Handles \union {0} /\ ioCount \in Nat
  /\ acceptHandle \in Seq(Handles \union {0}) /\ free \in Seq(Contexts)
  /\ pc \in [Threads -> Labels] /\ toIssue \in 0..AcceptN
  /\ {ctx, old} \subseteq [Threads -> Contexts \union {0}]
  /\ sock \in [Handles -> {"free", "listen", "accept", "leaked", "conn"}]
  /\ posted \subseteq Contexts
  /\ clients \in 0..MaxClients /\ served \in 0..clients
  /\ failures \in 0..MaxFailures /\ lost \in Nat
  /\ fault \in {"none", "nullChannel"}

AcceptorInit ==
  /\ shut = FALSE /\ listenHandle = 0 /\ channel = FALSE /\ ioCount = 0
  /\ acceptHandle = <<>> /\ free = <<>>
  /\ pc = [t \in Threads |-> "idle"] /\ toIssue = 0
  /\ ctx = [t \in Threads |-> 0] /\ old = [t \in Threads |-> 0]
  /\ sock = [h \in Handles |-> "free"] /\ posted = {} /\ clients = 0
  /\ served = 0 /\ failures = 0 /\ lost = 0 /\ fault = "none"
  /\ SockExInit

-----------------------------------------------------------------------------
At(t, label) == fault = "none" /\ pc[t] = label

Go(t, to) == pc' = [pc EXCEPT ![t] = to] /\ UNCHANGED <<ctx, old, toIssue>>

\* The thread goes on with context c in hand.
GoWith(t, to, c) ==
  /\ pc' = [pc EXCEPT ![t] = to]
  /\ ctx' = [ctx EXCEPT ![t] = c]
  /\ UNCHANGED <<old, toIssue>>

\* go_accepting_() returns: to start(), or to a completion handler, which may still have
\* the context of a failed call to release.
Return(t) ==
  GoWith(t, IF t = App THEN "start" ELSE IF old[t] # 0 THEN "release" ELSE "idle", 0)

Listening == listenHandle # 0 /\ ~shut

\* The listening socket is open.
Open == listenHandle # 0 /\ sock[listenHandle] = "listen"

\* A handle the kernel may give.  It is the lowest free one, as no other choice leads to
\* more: a number is used again at once.
Unused(h) == sock[h] = "free" /\ \A g \in Handles : sock[g] = "free" => h <= g

\* Broken variant: nobody takes the call off the count.
DecrementNever == UNCHANGED ioCount

\* decr_io_count() never goes below zero.
Decrement == ioCount' = IF ioCount > 0 THEN ioCount - 1 ELSE 0

\* ContextPool::acquire(): the context released last, or a new one.
Acquire(c, h) ==
  IF free = <<>>
    THEN /\ c = Len(acceptHandle) + 1
         /\ acceptHandle' = Append(acceptHandle, h)
         /\ UNCHANGED free
    ELSE /\ c = free[Len(free)]
         /\ acceptHandle' = [acceptHandle EXCEPT ![c] = h]
         /\ free' = SubSeq(free, 1, Len(free) - 1)

\* Broken variant: the pointer is cleared before it is released.
ReleaseNull(c) == free' = Append(free, 0) /\ UNCHANGED acceptHandle

\* ContextPool::release().
Release(c) == free' = Append(free, c) /\ UNCHANGED acceptHandle

\* closesocket() of a context's socket.
CloseAccepted(c) == sock' = [sock EXCEPT ![acceptHandle[c]] = "free"]

\* A call fails, which happens at most MaxFailures times while the socket is open.
Fails ==
  IF Open THEN failures < MaxFailures /\ failures' = failures + 1 ELSE UNCHANGED failures

-----------------------------------------------------------------------------
\* get_sockaddr(): the family to listen with, if address and stack go together.
Family ==
  CASE Address = "IPv4" /\ Stack = "IPv4Only" -> "inet"
    [] Address = "IPv6" /\ Stack \in {"IPv6Only", "DualStack"} -> "inet6"
    [] OTHER -> "none"

\* start(): everything up to the calls of go_accepting_().
Start ==
  /\ At(App, "idle") /\ App \in using /\ Family # "none"
  /\ \E h \in Handles :
       Unused(h) /\ sock' = [sock EXCEPT ![h] = "listen"] /\ listenHandle' = h
  /\ channel' = TRUE /\ ioCount' = 0 /\ toIssue' = AcceptN
  /\ pc' = [pc EXCEPT ![App] = "start"]
  /\ UNCHANGED <<shut, poolVars, ctx, old, posted, clients, historyVars, sockExVars>>

\* start(): one of the calls before that fails.  There is no socket yet, or it is closed
\* again, but then listen_handle_ keeps its number, which shutdown() will close once more.
StartFails ==
  /\ At(App, "idle") /\ App \in using
  /\ failures < MaxFailures /\ failures' = failures + 1
  /\ \/ UNCHANGED listenHandle
     \/ Family # "none" /\ \E h \in Handles : Unused(h) /\ listenHandle' = h
  /\ Go(App, "serving")
  /\ UNCHANGED <<shut, channel, ioCount, poolVars, kernelVars, served, lost, fault,
                 sockExVars>>

\* start(): the loop.
StartLoop ==
  /\ At(App, "start")
  /\ pc' = [pc EXCEPT ![App] = IF toIssue > 0 THEN "accept" ELSE "serving"]
  /\ toIssue' = IF toIssue > 0 THEN toIssue - 1 ELSE 0
  /\ UNCHANGED <<objectVars, poolVars, ctx, old, kernelVars, historyVars, sockExVars>>

\* go_accepting_(): only while listening.
GoAccepting(t) ==
  /\ At(t, "accept")
  /\ IF Listening THEN Go(t, "socket") ELSE Return(t)
  /\ UNCHANGED <<objectVars, poolVars, kernelVars, historyVars, sockExVars>>

\* go_accepting_(): acquire a context and a socket, and count the call about to be made.
NewSocket(t) ==
  /\ At(t, "socket") /\ channel
  /\ \E h \in Handles, c \in 1..Len(acceptHandle) + 1 :
       /\ Unused(h) /\ sock' = [sock EXCEPT ![h] = "accept"]
       /\ Acquire(c, h)
       /\ GoWith(t, "acceptEx", c)
  /\ ioCount' = ioCount + 1
  /\ UNCHANGED <<shut, listenHandle, channel, posted, clients, historyVars, sockExVars>>

\* go_accepting_(): there is no socket; the context goes back and nobody tries again.
NoSocket(t) ==
  /\ At(t, "socket")
  /\ Fails
  /\ lost' = lost + 1
  /\ IF free = <<>>
       THEN free' = <<Len(acceptHandle) + 1>> /\ acceptHandle' = Append(acceptHandle, 0)
       ELSE UNCHANGED poolVars
  /\ Return(t)
  /\ UNCHANGED <<objectVars, kernelVars, served, fault, sockExVars>>

\* go_accepting_(): AcceptEx is pending.
Accepting(t) ==
  /\ At(t, "acceptEx") /\ loaded /\ Open
  /\ posted' = posted \union {ctx[t]}
  /\ Return(t)
  /\ UNCHANGED <<objectVars, poolVars, sock, clients, historyVars, sockExVars>>

\* go_accepting_(): AcceptEx fails at once, or there is no AcceptEx.  Everything is taken
\* back and nobody tries again.
AcceptRefused(t) ==
  /\ At(t, "acceptEx") /\ channel
  /\ IF loaded THEN Fails ELSE UNCHANGED failures
  /\ CloseAccepted(ctx[t]) /\ Decrement /\ Release(ctx[t])
  /\ lost' = lost + 1
  /\ Return(t)
  /\ UNCHANGED <<shut, listenHandle, channel, posted, clients, served, fault, sockExVars>>

-----------------------------------------------------------------------------
\* A client connects to the listening socket.
Connect ==
  /\ Open /\ clients < MaxClients
  /\ clients' = clients + 1
  /\ UNCHANGED <<objectVars, poolVars, threadVars, sock, posted, historyVars, sockExVars>>

\* Nobody polls before start() has returned.
Dequeues(t) == t \in Pollers /\ At(t, "idle") /\ pc[App] \notin {"start", "accept", "socket", "acceptEx"}

\* A poll thread dequeues the packet of a call that has accepted a client, ...
DispatchAccept(t) ==
  /\ Dequeues(t) /\ served < clients
  /\ \E c \in posted : posted' = posted \ {c} /\ GoWith(t, "onAccept", c)
  /\ served' = served + 1
  /\ UNCHANGED <<objectVars, poolVars, sock, clients, failures, lost, fault, sockExVars>>

\* ... or of one that has failed: with the listening socket closed it was aborted.
DispatchError(t) ==
  /\ Dequeues(t)
  /\ Fails
  /\ \E c \in posted : posted' = posted \ {c} /\ old' = [old EXCEPT ![t] = c]
  /\ pc' = [pc EXCEPT ![t] = IF Open THEN "onReset" ELSE "onAborted"]
  /\ UNCHANGED <<objectVars, poolVars, ctx, toIssue, sock, clients, served, lost, fault,
                 sockExVars>>

\* on_completion_accept_(): the acceptor was shut down.
AcceptedTooLate(t) ==
  /\ At(t, "onAccept") /\ channel /\ shut
  /\ Decrement /\ CloseAccepted(ctx[t]) /\ Release(ctx[t])
  /\ Return(t)
  /\ UNCHANGED <<shut, listenHandle, channel, posted, clients, historyVars, sockExVars>>

\* Broken variant: the socket of a client that is gone is forgotten.
UpdateFailsForgets(t) ==
  /\ At(t, "onAccept") /\ channel /\ ~shut
  /\ Fails
  /\ Decrement /\ Release(ctx[t])
  /\ GoWith(t, "accept", 0)
  /\ UNCHANGED <<shut, listenHandle, channel, kernelVars, served, lost, fault, sockExVars>>

\* on_completion_accept_(): SO_UPDATE_ACCEPT_CONTEXT fails; the next client is awaited.
UpdateFails(t) ==
  /\ At(t, "onAccept") /\ channel /\ ~shut
  /\ Fails
  /\ Decrement /\ CloseAccepted(ctx[t]) /\ Release(ctx[t])
  /\ GoWith(t, "accept", 0)
  /\ UNCHANGED <<shut, listenHandle, channel, posted, clients, served, lost, fault,
                 sockExVars>>

\* on_completion_accept_(): the client's address is read and on_conn_func_ called.
Accepted(t) ==
  /\ At(t, "onAccept") /\ channel /\ ~shut /\ loaded
  /\ Decrement
  /\ Go(t, "onConn")
  /\ UNCHANGED <<shut, listenHandle, channel, poolVars, kernelVars, historyVars, sockExVars>>

\* Broken variant: nobody awaits the next client.
HandedOnly(t) == Release(ctx[t]) /\ Return(t)

\* on_completion_accept_(): on_conn_func_ has returned; the next client is awaited.
Handed(t) == Release(ctx[t]) /\ GoWith(t, "accept", 0)

\* Broken variant: no error is followed by another call.
AfterErrorDone(t) == IF pc[t] = "onAborted" THEN "onLast" ELSE "release"

\* on_completion_error_(): only a call that was aborted is not replaced.
AfterError(t) == IF pc[t] = "onAborted" THEN "onLast" ELSE "accept"

\* on_completion_error_(): the call is no longer outstanding.  Nothing closes the socket
\* that should have become the client's.
OnError(t) ==
  /\ At(t, "onReset") \/ At(t, "onAborted")
  /\ channel
  /\ Decrement
  /\ sock' = [sock EXCEPT ![acceptHandle[old[t]]] = "leaked"]
  /\ Go(t, AfterError(t))
  /\ UNCHANGED <<shut, listenHandle, channel, poolVars, posted, clients, historyVars,
                 sockExVars>>

\* Broken variant: the first call that was aborted ends the channel.
LastCallAny == TRUE

LastCall == ioCount <= 0

\* on_completion_error_(): is this the last call that was aborted?
OnLast(t) ==
  /\ At(t, "onLast") /\ channel
  /\ Go(t, IF LastCall THEN "resetChannel" ELSE "release")
  /\ UNCHANGED <<objectVars, poolVars, kernelVars, historyVars, sockExVars>>

\* on_completion_error_(): destroy the channel.
ResetChannel(t) ==
  /\ At(t, "resetChannel")
  /\ channel' = FALSE
  /\ Go(t, "release")
  /\ UNCHANGED <<shut, listenHandle, ioCount, poolVars, kernelVars, historyVars, sockExVars>>

\* Broken variant: the refill has released the context already.
ReleaseTwice(t) ==
  /\ At(t, "release")
  /\ free' = free \o <<old[t], old[t]>> /\ UNCHANGED acceptHandle
  /\ pc' = [pc EXCEPT ![t] = "idle"] /\ old' = [old EXCEPT ![t] = 0]
  /\ UNCHANGED <<objectVars, ctx, toIssue, kernelVars, historyVars, sockExVars>>

\* on_completion_error_(): release the context of the failed call.
ReleaseFailed(t) ==
  /\ At(t, "release")
  /\ Release(old[t])
  /\ pc' = [pc EXCEPT ![t] = "idle"] /\ old' = [old EXCEPT ![t] = 0]
  /\ UNCHANGED <<objectVars, ctx, toIssue, kernelVars, historyVars, sockExVars>>

-----------------------------------------------------------------------------
\* shutdown(): once only, set shut_ ...
Shutdown(next) ==
  /\ At(App, "serving") /\ ~shut
  /\ shut' = TRUE
  /\ Go(App, IF listenHandle # 0 THEN "closeListen" ELSE next)
  /\ UNCHANGED <<listenHandle, channel, ioCount, poolVars, kernelVars, historyVars,
                 sockExVars>>

\* ... and close the listening socket: the kernel aborts what is outstanding.
CloseListen(next) ==
  /\ At(App, "closeListen")
  /\ sock' = [sock EXCEPT ![listenHandle] = "free"]
  /\ listenHandle' = 0
  /\ Go(App, next)
  /\ UNCHANGED <<shut, channel, ioCount, poolVars, posted, clients, historyVars, sockExVars>>

-----------------------------------------------------------------------------
\* channel_-> when another thread has destroyed the channel.
NullChannel(t) ==
  /\ ~channel
  /\ \E label \in {"socket", "acceptEx", "onAccept", "onReset", "onAborted", "onLast"} :
       At(t, label)
  /\ fault' = "nullChannel"
  /\ UNCHANGED <<objectVars, poolVars, threadVars, kernelVars, served, failures, lost,
                 sockExVars>>

\* What a thread does by itself in go_accepting_() and the completion handlers.
AcceptStep(t) ==
  \/ GoAccepting(t) \/ NewSocket(t) \/ NoSocket(t) \/ Accepting(t) \/ AcceptRefused(t)
  \/ AcceptedTooLate(t) \/ UpdateFails(t) \/ Accepted(t)
  \/ OnError(t) \/ OnLast(t) \/ ResetChannel(t) \/ ReleaseFailed(t)
  \/ NullChannel(t)

\* A function given to the acceptor by someone else: the socket is theirs.
TakeOver(t) ==
  /\ At(t, "onConn")
  /\ sock' = [sock EXCEPT ![acceptHandle[ctx[t]]] = "conn"]
  /\ Handed(t)
  /\ UNCHANGED <<objectVars, posted, clients, historyVars, sockExVars>>

\* init() and cleanup() by anyone; the one who runs the acceptor stays.
SockEx ==
  /\ \E u \in Users : SockInit(u) \/ LoadFails(u) \/ (u # App /\ SockCleanup(u))
  /\ UNCHANGED <<objectVars, poolVars, threadVars, kernelVars, historyVars>>

AcceptorNext ==
  \/ \E t \in Threads : AcceptStep(t) \/ DispatchAccept(t) \/ DispatchError(t) \/ TakeOver(t)
  \/ Start \/ StartFails \/ StartLoop
  \/ Shutdown("down") \/ CloseListen("down")
  \/ Connect \/ SockEx

AcceptorSpec == AcceptorInit /\ [][AcceptorNext]_acceptorVars

\* Threads are scheduled, the function they call returns, and they come back to the port;
\* nobody has to connect, to shut down or to fail.
AcceptorFairness ==
  /\ WF_acceptorVars(StartLoop)
  /\ \A t \in Threads : WF_acceptorVars(AcceptStep(t) \/ TakeOver(t))
  /\ WF_acceptorVars(\E t \in Pollers : DispatchAccept(t))
  /\ WF_acceptorVars(~Open /\ \E t \in Pollers : DispatchError(t))

FairAcceptorSpec == AcceptorSpec /\ AcceptorFairness

-----------------------------------------------------------------------------
\* The channel, whose address is the completion key, is there as long as the kernel has a
\* call: on_completion_error_() destroys it after the last one only, although it counts
\* and looks in two steps while other threads accept.
ChannelOutlivesAccepts == posted # {} => channel

\* Threads whose call is counted, by the code between issue and completion handler.
Counted ==
  {t \in Threads : pc[t] \in {"acceptEx", "onAccept", "onReset", "onAborted"}}

\* The count is exact at every step, so that the end of the channel is neither early nor
\* missed: go_accepting_() counts before it calls AcceptEx.
AcceptsCounted == channel => ioCount = Cardinality(posted) + Cardinality(Counted)

\* Threads that will replace the call they handle.
Refilling ==
  {t \in Pollers : pc[t] \in {"accept", "socket", "acceptEx", "onAccept", "onConn", "onReset"}}

\* While the acceptor listens each of the calls that start() asked for is outstanding,
\* about to be replaced, or lost to a failure in go_accepting_(); nothing else loses one
\* and nothing adds one.
SlotsKept ==
  channel /\ ~shut /\ pc[App] = "serving" =>
    Cardinality(posted) + Cardinality(Refilling) + lost = AcceptN

\* The contexts in the hands of threads.
InHand == ({ctx[t] : t \in Threads} \union {old[t] : t \in Threads}) \ {0}

\* A context is in one place: the pool, which has it once, the kernel, or one thread.  A
\* context that is acquired twice is one OVERLAPPED for two calls.
PoolExclusive ==
  /\ \A i, j \in DOMAIN free : free[i] = free[j] => i = j
  /\ \A i \in DOMAIN free : free[i] \notin posted \union InHand
  /\ posted \intersect InHand = {}
  /\ \A t, u \in Threads :
       /\ t # u => {ctx[t], old[t]} \intersect {ctx[u], old[u]} \subseteq {0}
       /\ ctx[t] = old[t] => ctx[t] = 0

\* A socket made for a client that has not come belongs to a context somebody will
\* handle.  Only on_completion_error_() drops one (the sockets marked "leaked").
OnlyFailedAcceptsLeak ==
  \A h \in Handles :
    sock[h] = "accept" => \E c \in posted \union InHand : acceptHandle[c] = h

\* A client that connects is dequeued, unless the acceptor is shut down or each of its
\* calls was lost: go_accepting_() does not try again after a failure.
ClientsServed ==
  \A n \in 1..MaxClients :
    clients = n ~> (served >= n \/ shut \/ lost = AcceptN \/ fault # "none")
=============================================================================
