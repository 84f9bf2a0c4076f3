# A verification project for iocpnet

iocpnet is a small C++ library for TCP on Windows: connections, an acceptor and a
server on top of an I/O completion port (IOCP). Operations are issued
asynchronously; their completion packets are dequeued by *polls* and handed to the
object that issued them. This directory holds TLA+ models of its core, TLC
configurations that check them on small instances, and proofs checked by TLAPS.

## 1. The system

### Components

| component | state | operations | modelled in |
|---|---|---|---|
| `IOCPConn` (`iocp_conn.*`) | `state_value_`, `handle_`, `channel_`, `read_pending_`, `send_queue_`, `write_in_progress_`, `write_ol_context_`, `cleanup_done_`, `cleanup_err_`, `close_timer_id_` | `connect`, `start`, `send`, `shutdown`, `close`; handlers of completed reads, writes and connects and of failed operations; `cleanup_`, `do_cleanup_` | `SendPath`, `IOCPConn` |
| `IOCPChannel` (`iocp_channel.*`) | `io_pending_count_`, `tie_`, callbacks | `incr_io_count`, `decr_io_count`, `handle_completion`, `handle_completion_error` | inside `IOCPConn` |
| `TimerManager` (`iocp_timer.*`) | `timers_`, `running_`, `next_id_`, one thread | `add_timer`, `cancel_timer`, `shutdown`, the thread's loop | `TimerManager` |
| `IOCPEventPoll` (`iocp_event_poll.*`) | `shut_`, the port, three context pools, a `TimerManager` | `run`, `poll`, `shutdown`, `register_in` | `PollGroup` (`run`, `shutdown`) |
| `IOCPServer` (`iocp_server.*`) | `conns_`, main poll, sub polls and their threads, `started_` | `start`, `shutdown`, `close`, `on_new_connection_` | `Server`; the end of the polls in `PollGroup` |
| `IOCPAcceptor` (`iocp_acceptor.*`) | listening socket, `shut_`, `channel_` with its count, six AcceptEx outstanding | `start`, `shutdown`, `go_accepting_`, handlers | `Acceptor` |
| `Buffer` (`buffer.h`) | two indices, a capacity and a block of memory | read, write, grow, move, shrink, `clear`, moves | `Buffer`, used by `Receive` |
| `ContextPool` (`iocp_event_poll.h`) | a free list under a mutex | `acquire`, `release`, `clear` | inside `Acceptor` |
| `SockExFunc` (`iocp_sockex_func.*`) | reference count, function pointers | `init`, `cleanup` | `SockExFunc`, composed with `Acceptor` |
| address helpers (`iocp_sock.*`) | none | `get_sockaddr` | `Family` in `Acceptor` |

### How they interact

A thread in `IOCPEventPoll::run` dequeues a packet, whose key is a raw pointer to
the `IOCPChannel` and whose overlapped structure is the context of the operation.
The channel calls the handler of its owner, an `IOCPConn` or the `IOCPAcceptor`.
The handler runs user code (`on_message_func_`, `on_close_func_`), which may call
`send`, `shutdown` or `close` on the spot. `shutdown` arms a timer in the poll's
`TimerManager`, whose thread calls `cleanup_(WAIT_TIMEOUT)`. An `IOCPServer` creates
one port, a main poll and, in mode `kOnePollPerThread`, sub polls with threads of
their own: all of them dequeue from the same port, so any of these threads may
handle the packets of any connection.

### What is hard

* **Threads.** A connection's functions run on every polling thread, on user
  threads and on the timer thread. `mutex_` guards only `send_queue_`. Three atomics
  (`read_pending_`, `write_in_progress_`, `cleanup_done_`) are claimed by compare and
  swap; `handle_`, `channel_`, `write_ol_context_`, `close_timer_id_` and
  `cleanup_err_` are plain members.
* **Order of completions.** An operation can complete before the function that
  issued it goes on: before it was counted, for one.
* **The end.** `cleanup_` cancels what is outstanding and leaves the rest to the
  handler of the last completion; six different callers may begin it.
* **Timeouts** race with completions, with `close()` and with `shutdown()`.
* **Failure at any point**: every kernel call may fail, at once or later.
* **Handles are reused.** `conns_` is keyed by the socket handle, which the kernel may
  give again as soon as it is closed.
* **Look, then act.** The limit on connections, the end of the acceptor's channel and
  the copies of the table that `shutdown` and `close` work on are all read in one step
  and used in a later one.
* **Resources that are handed on**: contexts, accepted sockets, and the memory that an
  outstanding WSARecv points into.
* **Waking threads up**: a condition variable notified without its mutex, and
  packets with a null key in a port that several threads share.

### What makes each component correct

* Sending half: messages leave in the order of `send`, one write at a time; none is
  forgotten in the queue.
* Connection: `on_message_func_` never runs in two threads, nor, with one thread, after
  the end; `on_close_func_` is called once, with the error the end began with; an operation
  outlives neither its socket, its channel nor its buffer; what has begun to close
  gets closed.
* Timers: at most once, not early, not if cancelled before they were due, and not late.
* Polls: while the server is up every completion is handled; the port is closed
  after the threads that use it; the threads end.
* Acceptor: each AcceptEx is counted from before it is issued until its handler; the
  channel outlives them all; every completed call is replaced; contexts and sockets
  have one owner.
* Server: no more connections than the limit, or nearly so; the table holds the living connections
  under their own handles; nothing stays open that nobody knows of.
* Receive buffer: no byte is lost, repeated or moved under an outstanding WSARecv.

## 2. Modules

| module | role |
|---|---|
| `OrderedSender` | abstract: what the sending half promises its callers |
| `SendPath` | `send`, `go_writing_`, the handlers of a write; any number of threads |
| `SendPathProofs` | its type correctness and safety, and that it implements `OrderedSender` |
| `Callbacks` | abstract: what a connection promises the user's two callbacks |
| `IOCPConn` | a whole connection with its channel; implements `Callbacks` and `SendPath` where the runs say so |
| `IOCPConnProofs` | what holds of it with any threads, the refinement of `SendPath` and with it of `OrderedSender` among it |
| `IOCPConnSoloProofs` | what holds of it with one thread that polls and calls, beside the timer's thread or alone |
| `OneShotTimers` | abstract: what a timer manager promises |
| `TimerManager`, `TimerManagerProofs` | the timer thread and its callers; implements `OneShotTimers` |
| `PollGroup`, `PollGroupProofs` | polls on one port, and the end of the server |
| `SockExFunc` | the reference count of Winsock's extension functions |
| `Acceptor`, `AcceptorProofs` | the acceptor with its contexts, its channel and `SockExFunc` |
| `Server`, `ServerProofs` | extends `Acceptor`: the table, connections and the end of a server |
| `Buffer` | the member functions of `Buffer`, as operators on a record |
| `Receive`, `ReceiveProofs` | the receiving half of a connection over `Buffer` |
| `MC...` | instances for TLC; thread names are model values or strings |

No module here has a recursive operator, so theorems about any of them can be
proved. A definition whose comment begins with "Broken variant" is a plausible bug: it
belongs to no specification and serves to check that some property notices it.

### SendPath

One action per stretch of code between two accesses to shared state, so that threads
interleave as finely as the code allows: the critical section of `send` (`Send`), the
compare and swap (`Claim`), the critical section that takes a message (`PopNothing`,
`PopFront`), WSASend (`SendAccepted`, `SendRejected`), the store that gives the flag
back (`WriteFailed`, `OnWrite`, `OnWriteError`), the second look at the queue
(`HasMore`) and the beginning of a cleanup (`Error`). `Elsewhere` lets the rest of the
connection change `state_value_` and begin the cleanup at any time. A message is
its number in the order of acceptance.

### IOCPConn

The connection with the accesses to what other threads look at as steps of their own.
A completion handler first takes its operation off the counter (`DecrIo`), after which
`cleanup_` in another thread no longer waits for it, and only then goes on (`OnRead`,
`OnWrite`, `OnConnect`, `OnError`): with several threads the end may be told between
lines 295 and 307 of `iocp_conn.cc`, and the message be delivered after it. What `OnRead`
stores on its way to `on_message_func_` (`read_pending_`, the buffer's indices) is looked at by no
other thread until the handler has issued the next read. A
function that ends by calling another hands the thread over (the code is written
in tail calls), so `pc` is one label per thread; `home` says where user code
resumes: outside the library ("idle"), in `on_message_func_` ("message") or in the
server's connection callback ("onConnection"). `job` holds the context and the error
the current function was given.

Sockets and channels are numbered by socket; `channel = 0` is the null pointer,
`handle = 0` is `invalid_socket`. `sock`, `posted` and `cancelled` are the kernel: operations
are finished in any order with success, end of stream, failure (when `NetFails`)
or abortion (when cancelled, by CancelIoEx or closesocket); a cancelled operation may
still report success, as Windows documents. `freed`, `closes`, `cause`, `received`,
`lateSuccess` and `fault` are history variables the properties need; no guard of the
code's actions depends on them, except that nothing is modelled after undefined behaviour
(`fault`), and that the bound on reads uses `received`. The four kinds of undefined
behaviour (null channel, destroyed channel as a key, null write context, buffer
deleted twice) are actions of their own, and the rest of the model stops there.

`WriteOver` collapses the deletion of a finished write's buffer and the store of
`write_in_progress_` into one step, whereas the failure path of `go_writing_` keeps them
apart (`WriteFailed`, `FreeFailed`), because there the flag is given back *before*
the shared pointer is used. Where the order is the safe one nothing else can see the
difference: until the flag is given back no other thread starts a write.

### TimerManager

The timer thread holds `mutex_` from `Check` to `Block`; add and cancel are
critical sections; `shutdown` is four steps without the mutex. `CancelTimer` takes any id
that `add_timer` has returned, whether its timer is in the map, collected, fired or
gone; the history variable `cancel` remembers whether the first such call came before the
timer was due ("inTime") or not ("late"). The clock `now` is
logical time. A wait can end by a notification, by its time, or spuriously. The
branches for timers marked as cancelled are left out: `cancel_timer` marks only a timer
it finds in the map and erases it there in the same critical section, so neither the
thread nor `Timer::execute` ever meets a mark. A cancel of a collected timer thus leaves no
trace, and its callback runs.

### PollGroup

`run` of each poll as a loop `run -> wait -> dequeued -> event -> peek ...`
with the batch limit, and `shutdown_polls_and_handle_` as a sequence: flag and
wake each sub poll, join each, flag and wake the main poll, close the port. A
completion is a number, the wake packet is 0. The port gives its first packet to any
thread that waits.

### Acceptor, with SockExFunc

One action per stretch of `go_accepting_` and of the two handlers between accesses to
what other threads change: `GoAccepting`, `NewSocket` (context, socket and count),
`Accepting` or `AcceptRefused`; `DispatchAccept`, then `AcceptedTooLate`, `UpdateFails` or
`Accepted`, the callback, and `Handed`; `DispatchError`, `OnError`, `OnLast`,
`ResetChannel`, `ReleaseFailed`. The last four keep the decrement, the look at the count,
the reset and the release apart, as other threads can act in between. `start`'s loop
runs on the thread `App`. A context is a number in the order of `new`; `free` is the
pool's vector, so `Acquire` takes the one released last. `lost` counts calls of
`go_accepting_` that returned without an AcceptEx outstanding.

The kernel gives the lowest free handle, the choice that reuses a handle soonest. It
may report success for a call that was accepted before the listening socket was
closed. Nobody polls before `start` has returned: `IOCPServer::start` creates the sub
polls after it. With two polls and `shutdown`, one thread can destroy the channel after
the last aborted call while the other has one that succeeded late or is in
`go_accepting_`; `channel_->` is then a null pointer. This is the model's only
undefined behaviour (`NullChannel`), and nothing is modelled after it.

What the code does and its comments do not say, all of it part of the model: a call
that could not be issued is never issued again (the comments at
`iocp_acceptor.cc:113` and `:141` expect a later one to make up for it); the socket of a
call that failed is not closed (`:192-211`, marked "leaked"); when the last call to finish
after `shutdown` is a late success the channel is never destroyed (`:197`), because
`on_completion_accept_` does not look at the count.

### Server

`Server` extends `Acceptor`: its threads carry on in `on_new_connection_` where the
acceptor calls `on_conn_func_`. `Refuse` or `Admit` is the critical section that looks at
the limit, `Insert` the one that adds the entry; the user's callback may close the
connection or shut it down before `start()` succeeds (`StartConn`), fails (`StartConnFails`)
or finds it closed (`StartConnLate`). A connection is reduced to its phase: "new",
"up" with a read outstanding, "busy" with its poll in `on_message_func_` and no read
outstanding, "failed" when its socket could not be registered, "cancelled", "closed"
(`closesocket` done), "erased" from the table, "told" to the user; "stuck" is the cancelled
read that succeeded. `Cleanup` has both branches of `cleanup_`: it
cancels what is outstanding, or, when nothing is ("new", "failed", or "busy" without a write),
calls `do_cleanup_` itself on whatever thread it runs. `by` is the thread that ends
the connection, which is busy until `Tell` and then goes `back` to what it was doing.

The constant `UserOps` says what users call on connections of a running server: "close"
and "shutdown" in a callback on the connection it was called for; with "others" both on any
connection, in callbacks and on the thread `App`. `Drain` is `IOCPConn::shutdown` by the user
or by the server; it arms the close timer, and `TimerFires` is `cleanup_` on the timer's
thread, at any time afterwards.

`App` runs `shutdown` or `close` as the code's two passes over copies of the table; the first
pass of `shutdown` arms timers, its wait ends with an empty table or late, and the second
pass is that of `close`. After `StopPolls` no packet is dispatched.

### Buffer and Receive

`Buffer` gives each member function as an operator from record to record, with the bytes
and not only the indices, since memmove and memcpy are what the properties are
about; `block` changes whenever memory is allocated. `Receive` is `go_reading_`,
`on_completion_read_` and a user who in `on_message_func_` takes any number of bytes,
clears the buffer, moves it out or appends to it. `recv` remembers what WSARecv was
given. Storing anywhere but in the current free end leads to "corrupt", which
`RecvTargetsFreeEnd` excludes. One read is outstanding at a time, which is
`OneReadOneWrite` of `conn_threads`. `kInitialCapacity` and the 16384 bytes of
`shrink_if_needed_` are constants with the relation the code's numbers have.

## 3. Runs

Passing runs; each property has a mutant of the model, a plausible bug in the code
it stands for, that breaks it.

| run | instance | properties |
|---|---|---|
| `send_path` | 2 pollers, 1 sender, 4 messages | `NoStrandedMessage`, `ImplementsOrderedSender`, `EveryMessageGoesOut` |
| `conn_single` | 1 thread that polls and calls; 3 messages, 3 reads; failures | `Defined`, `WaitsForPendingIo`, `CauseReported`, `KeepsContract`, `CleanupEnds` |
| `conn_timer` | that thread and the timer thread; 2 messages, 2 reads | `IoCounted`, `BufferOutlivesWrite`, `ShutdownEnds` |
| `conn_threads` | 2 threads that poll and call; 2 messages, 2 reads | `TypeOK`, `OneReadOneWrite`, `DeliversSerially`, `ImplementsSendPath` |
| `timers` | 2 callers, 3 timers, delays 1 and 2, time up to 2 | `TypeOK`, `NeverOversleeps`, `ImplementsTimers`, `DueTimersRun` |
| `polls` | 2 sub polls and the main one, 3 completions, batches of 2 | `TypeOK`, `PortOutlivesSubPolls`, `CompletionsHandled`, `MainEnds` |
| `acceptor` | 2 polls and the thread that starts and stops; 2 AcceptEx calls, 1 client, 2 failures, another user of `SockExFunc` | `ChannelOutlivesAccepts`, `AcceptsCounted`, `SlotsKept`, `PoolExclusive`, `OnlyFailedAcceptsLeak`, `FunctionsHeld`, `ClientsServed` |
| `server` | 1 poll, 2 clients, limit 2, 5 handles; callbacks may close their own connection | `ServerTypeOK`, `TableHoldsLiving`, `FewLeftOpen`, `WaitEnds` |
| `server_polls` | 2 polls, 3 clients, limit 1, 5 handles; anybody may close or shut down any connection; the server is not ended | `LimitKept`, `SocketsOwned` |
| `receive` | capacity 2, shrinks from 4 idle bytes, 12 bytes of stream, 8 unread | `TypeOK`, `StreamKept`, `RecvTargetsFreeEnd`, `CapacityFollowsUse` |

Bounds. Four messages cover every phase of the queue with each of three threads in
the path (one written, one in hand, one queued, one to come). Two or three messages
and reads let a write and a read be outstanding while another one is in a handler
and user code calls again; the flags of a connection have no memory beyond that.
Three timers give an earlier, a later and a simultaneous one. Batches of two with
three packets end both ways (full and empty). `MaxBatch` is 64 in the code, and the
proofs hold for any. Two AcceptEx calls let one be aborted, lost or replaced while the
other is in a handler on the other thread, and two failures can lose both; seven
handles leave one free at every time. Time up to two lets a
timer of delay one be added at each time but the last and fall due beside an earlier one
of delay two. In `server` the second of two clients can get the handle of the first (five
handles: one listens, one awaits a client) while the first is at any point of its end, and can be
on its way into the table when the server's end begins. `server_polls` needs its second poll, so
that both are between the check and the insertion, and a third client finds the table above its limit
and is refused; its constraint (`Running`) leaves out the end of the server, which only takes
entries away, and lets one connection be shut down or end, while the others are accepted. In `receive` the capacities keep the code's order (the
smallest shrink target is below the smallest size that shrinks), 12 bytes make the
buffer grow twice and shrink, and the proofs hold for the code's numbers. Deadlock is not checked: in every model the system may rightly
stop, when a bound is used up or everything has ended.

Runs that show a disagreement (each is a finding in `PROJECT.json`):

| run | what happens | text it disagrees with |
|---|---|---|
| `timers_shutdown` | `notify_all` between the predicate and the wait is lost: join hangs | `iocp_timer.h:56` |
| `polls_join` | the main poll takes the packet meant for a sub poll: join hangs | `iocp_server.cc:104` |

Five more disagreements are not runs of their own. Each is a definition beside the property that states
what does hold, and TLC exhibits it when it takes the place of that property in the run named:

| definition | run | what happens | text it disagrees with |
|---|---|---|---|
| `CloseEnds`, for `CleanupEnds` | `conn_single` | a write that succeeds in spite of CancelIoEx does not finish the cleanup: no `do_cleanup_`, no `on_close_func_`; one thread is enough | `iocp_conn.h:28` |
| `CancelledNeverRuns`, for `ImplementsTimers` | `timers` | a timer that is already in `expired_timers` runs although `cancel_timer` has returned | `iocp_timer.h:53` |
| `LimitExact`, for `LimitKept` | `server_polls` | two polls find room for one connection each before either inserts it: the limit is exceeded | `iocp_server.cc:203` |
| `AllReleased`, for `FewLeftOpen` | `server` | a connection inserted after `conns_.clear()`, or one that was only cancelled before the polls were stopped, is open when `close()` has returned | `iocp_server.h:26` |
| `ActiveCounted`, for `TableHoldsLiving` | `server`, with `UserOps = {"shutdown"}` | a user's `shutdown()` has armed the timer; its thread closes the socket of a connection, the poll accepts a client with the same number, and the timer's thread erases the newcomer's entry: an active connection is not in the table | `examples/server_shutdown_test/main.cpp:87` |

### What holds with how many threads

The three connection runs differ in threads, because the code does not
synchronise what it shares. With one thread that polls and calls and no
close timer beside it all that is listed holds: with `set_close_timeout(0)`, or when nobody
calls `shutdown()`, which arms the timer, as in `examples/long_client`. `examples/close_test`
has the timer's thread beside it. Two
disagreements with comments show beside other threads; the instances of the other
connection runs, with the property exchanged, exhibit them:

* beside the timer thread `CauseReported` is violated: the cancelled read is handled
  before `cleanup_err_` is stored (`iocp_conn.cc:401`), and `on_close_func_` is told 0
  instead of the WAIT_TIMEOUT of `iocp_conn.cc:431`. `Defined`, `WaitsForPendingIo` and
  `KeepsContract` are violated too: once `shutdown()` has armed the timer, its cleanup can
  come between a WSARecv and its count, as the next item says of `close()`. `IoCounted` and
  `BufferOutlivesWrite` hold;
* with a second thread that polls or calls, `WaitsForPendingIo` is violated: `close()`
  between WSARecv and `incr_io_count` sees no operation and destroys the channel,
  although `iocp_conn.cc:398` says that it waits. `Defined`, `IoCounted`,
  `BufferOutlivesWrite`, `CauseReported`, `KeepsContract` and `CleanupEnds` are violated then
  too, the contract in two ways: through the counter, as above, and by a message that is delivered
  after the end (between `iocp_conn.cc:295` and `:307`). What survives is in `conn_threads`: one
  read and one write at a time, delivery of one message at a time, and the send path. There the
  statements are about behaviours up to the first undefined behaviour.

The acceptor's properties hold with any number of polls as long as the channel is there.
`LimitKept`, `SocketsOwned` and `ServerTypeOK` are proved for any number of polls and
whatever users call.

`TableHoldsLiving` and `FewLeftOpen` hold, and are proved, with one poll (mode
`kAllOneThread`) whose callbacks call nothing but `close()` on their own connections. They fail as soon as
another thread may end a connection that has nothing outstanding, because
`closesocket` comes before the erasure by number (`iocp_conn.cc:410`, `iocp_server.cc:218`):
the timer's thread after a user's `shutdown()` (`ActiveCounted` above), a user's thread that calls
`close()` while the poll is in a callback, or a second poll.
`WaitEnds` has two exceptions it names: a connection whose cancelled read succeeded, and
one that was accepted after the table had been copied; `FewLeftOpen` bounds the latter.

### Fairness

* Threads inside the library are scheduled: weak fairness of `Step`, `TimerThread`,
  `PollStep`, `ServerStep`. Nothing there blocks except on what the models guard.
* Callbacks return: strong fairness of `EndMessage` and `EndOnConnection`, strong because
  the user's code may call into the library again and again in between.
* Cancelled operations finish and are dequeued: strong fairness of `Dispatch` while
  something is cancelled, strong because the only poller is at times busy; that it
  comes back is the loop of `run`. An operation nobody cancels may stay pending for
  ever. In `SendPath` a write completes sooner or later, as a write on a living or
  broken TCP connection does.
* Accepted clients and aborted AcceptEx calls are dequeued (weak fairness of `DispatchAccept`, and
  of `DispatchError` once the listening socket is closed); a cancelled read is dequeued
  (strong fairness in `Server`: the poll thread is at times in a handler). Callbacks for new
  connections and for messages return. Nobody has to connect, no peer has to close, `shutdown` need
  not be called, and its deadline need not pass.
* Timers expire (`TimerFires`, `Tick`). Nobody has to call a public function, no wait
  has to end spuriously, and no operation has to fail or succeed.

## 4. Proofs

TLAPS checks, for every value of the constants (only the modules' named assumptions
are used: sets and bounds have their types, the threads are finitely many, the idle
size that shrinks a buffer is large enough for a shrink to help):

* `SendPathProofs`: `TypeCorrect`, `NothingStranded` (`NoStrandedMessage`) and
  `OrderKept` (`ImplementsOrderedSender`). The invariant says that
  `write_in_progress_` is set exactly while one thread holds it or one write is in
  flight; that the messages in hand and in flight are the one taken last; that the
  queue is the contiguous run of the later ones; and that a waiting message has
  someone coming back for it. `NoStrandedMessage` is not inductive by itself: it
  needs that a thread which has lost the compare and swap leaves behind a holder that
  will still look at the queue.
* `TimerManagerProofs`: `TypeCorrect`, `NoOversleep` (`NeverOversleeps`) and `TimersKept`
  (`ImplementsTimers`). The invariant adds where a timer can be (map, collected,
  fired, never in two of them), that whatever is collected is due, that a timer
  cancelled before it was due is neither in the map of a running manager nor collected, and
  that the thread has ended when a caller has joined it. `OneShotTimers` promises no more of a
  cancel than that: a timer that is due may fire although it is taken back.
* `PollGroupProofs`: `TypeCorrect` (which includes that a batch never exceeds its limit)
  and `PortOutlives` (`PortOutlivesSubPolls`). The invariant follows the server's loop:
  the sub polls before `turn` have ended while it joins, all of them afterwards, and
  an ended thread never comes back.
* `ReceiveProofs`: `TypeCorrect`, `StreamIntact` (`StreamKept`), `RecvSafe`
  (`RecvTargetsFreeEnd`) and `MemoryBounded` (`CapacityFollowsUse`). One lemma per operator of
  `Buffer` says that it keeps the buffer well formed and which part of the stream it shows
  afterwards. The invariant relates these to the stream: readable are the bytes after
  the consumed ones, and during `onRead` the bytes just stored lie behind them; while a
  read is outstanding its target is the free end. `MemoryBounded` needs that the new
  capacity, one and a half times the larger of the initial one and what is unread, is
  not itself three quarters idle by enough to shrink again; this is where
  `BufferAssumption` is used.
* `AcceptorProofs`: `CountExact` (`AcceptsCounted`), `ChannelSafe`
  (`ChannelOutlivesAccepts`), `ContextsApart` (`PoolExclusive`), `FunctionsLoaded`
  (`FunctionsHeld`), `SocketsAwaited` (`OnlyFailedAcceptsLeak`), `CallsKeptUp` (`SlotsKept`) and
  `TypeCorrect`, for any polls and any number of calls. The invariant `IInv` has four parts:
  where a context can be; which label goes with a context in hand; the count and the
  channel; the reference count. `ChannelSafe` is not inductive: it needs that a thread which
  has found the count at zero knows that the listening socket is closed, so that no
  call is issued between its look and its reset. `CallsInv` adds three parts. `SocketInv`: a
  context with the kernel, or held by a thread that has not given its socket on, has an
  accept socket, no two have the same one, and there is no other. `ListenInv`: the socket
  that `start` has opened listens until `shutdown` closes it, unless every call has
  failed and the channel is gone. `SlotInv`: calls outstanding, calls in the hands of a thread
  that is to replace them, calls lost and calls still to be made add up to what `start` was
  asked for.
* `ServerProofs`, any number of polls: `LimitHolds` (`LimitKept`), `SocketsKeptApart`
  (`SocketsOwned`) and `ServerTypes` (`ServerTypeOK`). `LimitHolds` follows from: entries and
  threads about to insert are together at most the limit plus the polls less one. A thread is
  admitted when there are fewer entries than the limit; the others about to insert are
  at most all the other polls. The others need `ServerInv`: the acceptor's `IInv` and
  `SocketInv`, which hold inside the server because the server's own steps leave the
  acceptor's state alone or move a thread between labels the acceptor's invariant allows
  for, and `ConnInv`, which says who has each socket that was accepted: a living
  connection or the thread about to make one.
* `ServerProofs`, one poll (`OnePoller`, the mode `kAllOneThread`) and callbacks that at most close
  their own connections (`OnlyClose`): `TableComplete` (`TableHoldsLiving`) and `FewMissed`
  (`FewLeftOpen`). `TableHoldsLiving` is not inductive, because an entry is erased by its number
  after `closesocket` has freed that number. `SoloInv` says why it is not used again in between:
  the thread that is about to erase is the only one that polls, or it is `App` or the timer's
  thread, and then the acceptor is shut, the poll has no socket to make, and the connection it is
  in a callback of is not in its way. One part (`FailedInv`) says the same
  of the number of a connection whose `start()` has failed. The hypotheses are needed: without them the property is
  violated (section 3). `FewLeftOpen` needs that after the last copy of the table
  the one poll can bring one connection to its end of `on_new_connection_`, and no more.
* `IOCPConnProofs`, any threads, messages and reads, under `MaxConnects <= 1`: `OneOfEach`
  (`OneReadOneWrite`), `SerialDelivery` (`DeliversSerially`), `SendsAsSpecified`
  (`ImplementsSendPath`) and `TypeCorrect` (`TypeOK`). The
  invariant says that the connect, `start`, each read, each message and the next read
  form one line of control: one thread is on it, or one operation in the kernel is, and
  never both; that a thread or a write that is past the compare and swap holds
  `write_in_progress_`, and only one of them does; and that nothing is there before the socket
  is opened or, of socket and channel, after the end was told. The hypothesis is one
  socket per object, as in the instances: a second `connect` would start a second line
  while the first may still be in the user's callback. The refinement adds `JobInv`: the
  message a thread carries is the one its write is about, and code that is not on the
  write's way carries none, so every other step is one `SendPath` calls `Elsewhere`.
  Instantiated with the same mapping, the theorems of `SendPathProofs` then hold of the whole
  connection: `SendsInOrder` (it implements `OrderedSender`) and `NoneForgotten`
  (`SendPath`'s `NoStrandedMessage`). The
  types are plain but for the counter's bound. `BudgetInv` gives it: the counter, the
  operations handed over and not yet counted, and those that will be handed over
  without a further message or read are at most one connect, one first read, one read for
  each that brought data and one write for each message taken off the queue. Unlike the
  properties that the threads break (section 3), these hold with any callers.
* `IOCPConnSoloProofs`, one thread that polls and calls, beside the timer's thread (`OneMain`):
  `CounterExact` (`IoCounted`) and `BuffersOutlive` (`BufferOutlivesWrite`). The invariant says by how
  much the counter differs from what is outstanding while an operation has been handed over and not
  counted, or dequeued and not counted down; that there is no operation before there is a
  channel; and that the buffers of messages in hand or in flight exist. It is kept by the timer's
  thread, which may destroy the channel at any of these points, because nothing it does touches
  operations, buffers or the queue.
* `IOCPConnSoloProofs`, that thread alone (`OneThread`): `AllDefined` (`Defined`), `CleanupWaits`
  (`WaitsForPendingIo`), `CauseKept` (`CauseReported`) and `ContractKept` (`KeepsContract`). Alone
  means that no close timer is armed (section 3), or that no other thread would run it. The invariant adds that `do_cleanup_` is entered only with
  nothing outstanding, whichever of the two ways leads to it, and that the error a thread in the cleanup
  carries, or the one it left in `cleanup_err_`, is the one the cleanup began with.

Every safety property of a passing run is thus proved, for one poll or one thread where
section 3 says that it needs that. Only model-checked are the liveness properties
(`EveryMessageGoesOut`, `CleanupEnds`, `ShutdownEnds`, `DueTimersRun`, `CompletionsHandled`, `MainEnds`,
`ClientsServed`, `WaitEnds`): fairness and ENABLED are beyond the prover.

## 5. Not modelled

* ConnectEx that returns TRUE at once (`iocp_conn.cc:117-133`); an overlapped ConnectEx
  normally reports `WSA_IO_PENDING`.
* `connect()` on an object that was closed before. `cleanup_done_` is never reset, so
  such a connection is never cleaned up; instances open one socket per object.
* The destructor of `IOCPConn`: an object with callbacks is held by its channel's
  callbacks, and by whoever calls it.
* Sizes and contents of messages, addresses, logging, and failing allocations.
* `IOCPServer::start` that fails, or that is called again after an end; two threads that end
  one server at once; in `Server`, what a user calls in `on_close_func_`, or from a thread other
  than the polls, `App` and the timer's.
* `IOCPEventPoll::poll` with its timeout (`run` with a wait that may be empty-handed),
  `register_in` beyond its success or failure, and the destructors of the poll and its pools.
* The acceptor's `start` called twice; socket options, non-blocking mode and `bind` are
  one call that succeeds or fails, as is WSASocketW, after whose failure there is no number to keep.
* The programs under `src/examples`: they are clients of the library and only justify the
  threads of the instances.

## 6. Plan

1. (done) `SendPath` with its abstraction and proofs; `IOCPConn`; `TimerManager` with
   its abstraction and proofs; `PollGroup` with its proofs.
2. (done) `SockExFunc` and `Acceptor` with proofs; `Server` with the proof of its limit;
   `Buffer` and `Receive` with proofs.
3. (done) Proofs of every safety property of `IOCPConn`, `Acceptor` and `Server`; users that
   close and shut down connections of a running server.
4. (done) A connection implements `OrderedSender`: the refinements of `SendPath` and of
   `OrderedSender` composed.
5. A server with several polls, in which the end of a connection and the reuse of its
   handle race, and `poll()` with its timeout.
