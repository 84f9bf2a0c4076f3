------------------------------ MODULE Server ------------------------------
(***************************************************************************)
(* IOCPServer: the acceptor of Acceptor.tla, the table conns_ under its    *)
(* mutex, the connections, the timer thread of the poll, and shutdown()    *)
(* and close() on the thread App while the others go on.                   *)
(*                                                                         *)
(* A connection is abstracted to what the server can tell apart: it is     *)
(* made, started, busy with a message, cancelled, closed, erased from the  *)
(* table and reported to the user.  While it is up its read is             *)
(* outstanding; while it is busy its poll is in on_message_func_ and the   *)
(* next read is not issued yet.  A write may be outstanding in both.       *)
(* What threads do to each other inside start(), close() and a completion  *)
(* handler is in IOCPConn.tla, what the polls do at the end in             *)
(* PollGroup.tla.                                                          *)
(***************************************************************************)
EXTENDS Acceptor

CONSTANTS
  Timer,           \* the thread of timer_manager_
  MaxConnections,  \* max_connections_, 0 for no limit
  UserOps          \* what the user calls on connections, see UserMay

ASSUME ServerAssumption ==
  /\ MaxConnections \in Nat /\ Timer \notin Threads
  /\ UserOps \subseteq {"close", "shutdown", "others"}

VARIABLES
  conns,     \* every connection made: phase, socket, whether it was shut down, close
             \* timer, who is ending it and where that thread goes on
  table,     \* conns_: the connection under each socket number, 0 for none
  serves,    \* the connection each poll thread is accepting or has a message of, or 0
  how,       \* whether shutdown() or close() is running
  batch,     \* conns: the connections still to be shut down or closed
  stopped    \* the polls have been shut down

tableVars == <<conns, table, serves>>
endVars == <<how, batch, stopped>>
serverVars == <<tableVars, endVars>>
vars == <<acceptorVars, serverVars>>

Conns == 1..MaxClients
None == 0

Unmade ==
  [phase |-> "none", handle |-> 0, down |-> FALSE, timer |-> "none", by |-> App, back |-> "idle"]

\* Every connection is in a known phase and every entry of the table is a connection.
ServerTypeOK ==
  /\ AcceptorTypeOK
  /\ conns \in [Conns -> [phase : {"none", "new", "up", "busy", "cancelled", "stuck", "closed",
                                   "erased", "told", "failed"},
                          handle : Handles \union {0}, down : BOOLEAN,
                          timer : {"none", "armed", "cancelled"},
                          by : Threads \union {Timer}, back : Labels]]
  /\ table \in [Handles -> Conns \union {None}]
  /\ serves \in [Threads -> Conns \union {None}]
  /\ how \in {"shutdown", "close"} /\ batch \subseteq Conns
  /\ stopped \in BOOLEAN

Init ==
  /\ AcceptorInit
  /\ conns = [c \in Conns |-> Unmade]
  /\ table = [h \in Handles |-> None]
  /\ serves = [t \in Threads |-> None]
  /\ how = "shutdown" /\ batch = {} /\ stopped = FALSE

-----------------------------------------------------------------------------
Phase(c) == conns[c].phase

\* Broken variant: shutdown() and close() copy what is not there, too.
EntriesWithNull == {table[h] : h \in Handles}

Entries == {table[h] : h \in Handles} \ {None}
Count == Cardinality({h \in Handles : table[h] # None})

Becomes(c, phase) == conns' = [conns EXCEPT ![c].phase = phase]

Closes(h) == sock' = [sock EXCEPT ![h] = "free"]

EraseEntry(h) == table' = [table EXCEPT ![h] = None]

Socket(t) == acceptHandle[ctx[t]]

\* What only moves thread t leaves the rest of the acceptor as it is.
Quiet == UNCHANGED <<objectVars, poolVars, posted, clients, historyVars, sockExVars>>

\* Broken variant: one connection too many.
FullTooLate == MaxConnections > 0 /\ Count > MaxConnections

Full == MaxConnections > 0 /\ Count >= MaxConnections

\* on_new_connection_(): the peer's address is not known, whatever Full says, or there are
\* too many connections already.
Refuse(t) ==
  /\ At(t, "onConn")
  /\ Closes(Socket(t)) /\ Handed(t)
  /\ UNCHANGED <<objectVars, posted, clients, historyVars, sockExVars, serverVars>>

\* on_new_connection_(): there is room.
Admit(t) ==
  /\ At(t, "onConn") /\ ~Full
  /\ sock' = [sock EXCEPT ![Socket(t)] = "conn"]
  /\ Go(t, "insert") /\ Quiet
  /\ UNCHANGED serverVars

\* on_new_connection_(): make the connection and put it into the table.
Insert(t) ==
  /\ At(t, "insert")
  /\ \E c \in Conns :
       /\ Phase(c) = "none" /\ \A d \in Conns : Phase(d) = "none" => c <= d
       /\ conns' = [conns EXCEPT ![c].phase = "new", ![c].handle = Socket(t)]
       /\ table' = [table EXCEPT ![Socket(t)] = c]
       /\ serves' = [serves EXCEPT ![t] = c]
  /\ Go(t, "startConn")
  /\ Quiet /\ UNCHANGED <<sock, endVars>>

\* on_new_connection_(): the user's callback has returned and start() succeeds, even if
\* the callback has called shutdown(); its timer stays.
StartConn(t) ==
  /\ At(t, "startConn") /\ Phase(serves[t]) = "new"
  /\ conns' = [conns EXCEPT ![serves[t]].phase = "up", ![serves[t]].down = FALSE]
  /\ serves' = [serves EXCEPT ![t] = None]
  /\ Handed(t)
  /\ UNCHANGED <<objectVars, kernelVars, historyVars, sockExVars, table, endVars>>

\* Broken variant: the socket that could not be registered is left open.
StartConnFailsOpen(t) ==
  /\ At(t, "startConn") /\ Phase(serves[t]) = "new"
  /\ Becomes(serves[t], "failed")
  /\ Go(t, "dropConn")
  /\ Quiet /\ UNCHANGED <<sock, table, serves, endVars>>

\* on_new_connection_(): start() cannot register the socket and closes it.
StartConnFails(t) ==
  /\ At(t, "startConn") /\ Phase(serves[t]) = "new"
  /\ Becomes(serves[t], "failed") /\ Closes(conns[serves[t]].handle)
  /\ Go(t, "dropConn")
  /\ Quiet /\ UNCHANGED <<table, serves, endVars>>

\* on_new_connection_(): the connection has been closed already, so start() fails.
StartConnLate(t) ==
  /\ At(t, "startConn") /\ Phase(serves[t]) # "new"
  /\ Go(t, "dropConn")
  /\ Quiet /\ UNCHANGED <<sock, serverVars>>

\* on_new_connection_(): take what could not be started out of the table.
DropConn(t) ==
  /\ At(t, "dropConn")
  /\ EraseEntry(Socket(t))
  /\ serves' = [serves EXCEPT ![t] = None]
  /\ Handed(t)
  /\ UNCHANGED <<objectVars, kernelVars, historyVars, sockExVars, conns, endVars>>

-----------------------------------------------------------------------------
\* do_cleanup_() by thread t, as far as closesocket(), which a connection that could not
\* be started has called already; t goes on with label back afterwards.
EndBy(t, c, back) ==
  /\ conns' = [conns EXCEPT ![c].phase = "closed", ![c].timer = "cancelled",
                            ![c].by = t, ![c].back = back]
  /\ IF Phase(c) = "failed" THEN UNCHANGED sock ELSE Closes(conns[c].handle)
  /\ pc' = [u \in Threads |-> IF u = t THEN "ending" ELSE pc[u]]
  /\ UNCHANGED <<ctx, old, toIssue>>

\* Broken variant: the connection counts as gone as soon as its I/O is cancelled.
CancelAndErase(c) ==
  /\ conns' = [conns EXCEPT ![c].phase = "cancelled", ![c].timer = "cancelled"]
  /\ EraseEntry(conns[c].handle)

\* cleanup_() with an operation outstanding: CancelIoEx.
Cancel(c) ==
  /\ conns' = [conns EXCEPT ![c].phase = "cancelled", ![c].timer = "cancelled"]
  /\ UNCHANGED table

\* cleanup_() has not been called, and there is something to clean up.
Closable(c) == Phase(c) \in {"new", "up", "busy", "failed"}

\* cleanup_() by a thread that is not handling an operation of the connection: the first
\* to call it ends a connection that has nothing outstanding, which is one that is not
\* started or has its poll in on_message_func_, or else cancels what is outstanding.
Cleanup(t, c, back) ==
  \/ Phase(c) \in {"new", "busy", "failed"} /\ EndBy(t, c, back) /\ UNCHANGED table
  \/ Phase(c) \in {"up", "busy"} /\ Cancel(c) /\ UNCHANGED <<sock, threadVars>>

\* An operation ends: the stream has ended or the network has failed, for the read or, also
\* while another poll is in on_message_func_, for the write; or the cancelled operation was
\* aborted.  What else is outstanding is cancelled.
ReadEnds(t) ==
  /\ Dequeues(t) /\ ~stopped
  /\ \E c \in Conns :
       \/ Phase(c) \in {"up", "busy", "cancelled"} /\ EndBy(t, c, "idle") /\ UNCHANGED table
       \/ Phase(c) = "up" /\ Cancel(c) /\ UNCHANGED <<sock, threadVars>>
  /\ Quiet /\ UNCHANGED <<serves, endVars>>

\* A read ends with a message: the poll calls on_message_func_.
MessageArrives(t) ==
  /\ Dequeues(t) /\ ~stopped
  /\ \E c \in Conns :
       Phase(c) = "up" /\ Becomes(c, "busy") /\ serves' = [serves EXCEPT ![t] = c]
  /\ Go(t, "message")
  /\ Quiet /\ UNCHANGED <<sock, table, endVars>>

\* on_completion_read_(): on_message_func_ has returned and the next read is issued, ...
ReadsOn(t) ==
  /\ Phase(serves[t]) = "busy" /\ ~conns[serves[t]].down
  /\ Becomes(serves[t], "up")
  /\ Go(t, "idle") /\ UNCHANGED sock

\* ... or it fails at once, or the connection is shutting down, ...
EndsAfter(t) ==
  /\ Phase(serves[t]) = "busy"
  /\ \/ EndBy(t, serves[t], "idle")
     \/ Cancel(serves[t]) /\ Go(t, "idle") /\ UNCHANGED sock

\* ... or somebody has cleaned up meanwhile.
EndedMeanwhile(t) ==
  /\ Phase(serves[t]) # "busy"
  /\ Go(t, "idle") /\ UNCHANGED <<conns, sock>>

EndMessage(t) ==
  /\ At(t, "message")
  /\ ReadsOn(t) \/ EndsAfter(t) \/ EndedMeanwhile(t)
  /\ serves' = [serves EXCEPT ![t] = None]
  /\ Quiet /\ UNCHANGED <<table, endVars>>

\* The cancelled operation has succeeded: its handler does not finish the cleanup.
LateSuccess ==
  /\ ~stopped /\ fault = "none"
  /\ \E c \in Conns : Phase(c) = "cancelled" /\ Becomes(c, "stuck")
  /\ UNCHANGED <<acceptorVars, table, serves, endVars>>

\* do_cleanup_(): internal_close_func_ erases by socket number.
Erase(c) ==
  /\ fault = "none" /\ Phase(c) = "closed"
  /\ EraseEntry(conns[c].handle) /\ Becomes(c, "erased")
  /\ UNCHANGED <<acceptorVars, serves, endVars>>

\* do_cleanup_(): on_close_func_; the thread goes back to what it was doing.
Tell(c) ==
  /\ fault = "none" /\ Phase(c) = "erased"
  /\ Becomes(c, "told")
  /\ pc' = [t \in Threads |-> IF t = conns[c].by THEN conns[c].back ELSE pc[t]]
  /\ Quiet /\ UNCHANGED <<ctx, old, toIssue, sock, table, serves, endVars>>

\* Broken variant: the callback of the timer finds nobody.
TimerFiresInVain ==
  /\ fault = "none"
  /\ \E c \in Conns :
       conns[c].timer = "armed" /\ conns' = [conns EXCEPT ![c].timer = "cancelled"]
  /\ UNCHANGED <<acceptorVars, table, serves, endVars>>

\* The close timer of a connection expires; the timer thread runs one at a time.  A
\* connection that could not be started may have no owner by then.
TimerFires ==
  /\ fault = "none"
  /\ \A c \in Conns : Phase(c) \in {"closed", "erased"} => conns[c].by # Timer
  /\ \E c \in Conns :
       /\ conns[c].timer = "armed"
       /\ \/ Cleanup(Timer, c, "idle")
          \/ /\ Phase(c) = "failed" /\ conns' = [conns EXCEPT ![c].timer = "cancelled"]
             /\ UNCHANGED <<table, sock, threadVars>>
  /\ Quiet /\ UNCHANGED <<serves, endVars>>

-----------------------------------------------------------------------------
\* IOCPConn::shutdown(), unless it was called before or the end has begun: no more is
\* sent, and the close timer is started.
Drain(c) ==
  IF Phase(c) \in {"new", "up", "busy"} /\ ~conns[c].down
    THEN conns' = [conns EXCEPT ![c].down = TRUE, ![c].timer = "armed"]
    ELSE UNCHANGED conns

\* Broken variant: connections that have an operation outstanding are passed over.
CloseIdle(t, c, back) ==
  IF Phase(c) = "new" THEN Cleanup(t, c, back) ELSE UNCHANGED <<conns, table, sock, threadVars>>

\* IOCPConn::close(), which leaves alone what is ending or has ended.
CloseConn(t, c, back) ==
  IF Closable(c) THEN Cleanup(t, c, back) ELSE UNCHANGED <<conns, table, sock, threadVars>>

\* Thread t is in on_conn_func_ or on_message_func_.
InCallback(t) == At(t, "startConn") \/ At(t, "message")

\* A callback may call op on the connection it was called for; with "others" it may call
\* both on any connection, and so may App while the server runs.
UserMay(op, t, c) ==
  \/ op \in UserOps /\ InCallback(t) /\ c = serves[t]
  \/ "others" \in UserOps /\ (InCallback(t) \/ (t = App /\ At(App, "serving")))

\* The user closes a connection while the server runs ...
UserCloses(t) ==
  /\ \E c \in Conns : UserMay("close", t, c) /\ Closable(c) /\ CloseConn(t, c, pc[t])
  /\ Quiet /\ UNCHANGED <<serves, endVars>>

\* ... or shuts it down.
UserDrains(t) ==
  /\ \E c \in Conns : UserMay("shutdown", t, c) /\ Drain(c)
  /\ UNCHANGED <<acceptorVars, table, serves, endVars>>

-----------------------------------------------------------------------------
\* shutdown() or close(): the acceptor is shut down first.
ServerStops ==
  /\ Shutdown("collect")
  /\ how' \in {"shutdown", "close"}
  /\ UNCHANGED <<tableVars, batch, stopped>>

\* Both copy the table.
Collect ==
  /\ At(App, "collect")
  /\ batch' = Entries
  /\ Go(App, "each")
  /\ Quiet /\ UNCHANGED <<sock, tableVars, how, stopped>>

\* shutdown(): each connection of the copy is shut down; ...
DrainEach ==
  /\ At(App, "each") /\ how = "shutdown"
  /\ \E c \in batch : batch' = batch \ {c} /\ Drain(c)
  /\ UNCHANGED <<acceptorVars, table, serves, how, stopped>>

\* ... close(), and shutdown() after it has waited: each is closed.
CloseEach ==
  /\ At(App, "each") /\ how = "close"
  /\ \E c \in batch :
       /\ batch' = batch \ {c}
       /\ CloseConn(App, c, "each")
  /\ Quiet /\ UNCHANGED <<serves, how, stopped>>

AllDone ==
  /\ At(App, "each") /\ batch = {}
  /\ Go(App, IF how = "shutdown" THEN "wait" ELSE "clear")
  /\ Quiet /\ UNCHANGED <<sock, serverVars>>

\* shutdown(): the table is empty, or the time is over.
WaitOver(late) ==
  /\ At(App, "wait")
  /\ IF late THEN Count > 0 ELSE Count = 0
  /\ how' = "close"
  /\ Go(App, "collect")
  /\ Quiet /\ UNCHANGED <<sock, tableVars, batch, stopped>>

\* conns_.clear().
Clear ==
  /\ At(App, "clear")
  /\ table' = [h \in Handles |-> None]
  /\ Go(App, "stopPolls")
  /\ Quiet /\ UNCHANGED <<sock, conns, serves, endVars>>

\* shutdown_polls_and_handle_().
StopPolls ==
  /\ At(App, "stopPolls")
  /\ stopped' = TRUE
  /\ Go(App, "down")
  /\ Quiet /\ UNCHANGED <<sock, tableVars, how, batch>>

AppStep ==
  \/ StartLoop /\ UNCHANGED serverVars
  \/ CloseListen("collect") /\ UNCHANGED serverVars
  \/ Collect \/ DrainEach \/ CloseEach \/ AllDone \/ WaitOver(FALSE) \/ Clear \/ StopPolls

ConnStep(t) ==
  \/ Refuse(t) \/ Admit(t) \/ Insert(t) \/ StartConn(t) \/ StartConnFails(t)
  \/ StartConnLate(t) \/ DropConn(t) \/ EndMessage(t)
  \/ AcceptStep(t) /\ UNCHANGED serverVars

AcceptPacket(t) == ~stopped /\ (DispatchAccept(t) \/ DispatchError(t)) /\ UNCHANGED serverVars

Next ==
  \/ \E t \in Threads : ConnStep(t) \/ AcceptPacket(t) \/ ReadEnds(t) \/ MessageArrives(t)
  \/ \E t \in Threads : UserCloses(t) \/ UserDrains(t)
  \/ \E c \in Conns : Erase(c) \/ Tell(c)
  \/ LateSuccess \/ TimerFires
  \/ AppStep \/ ServerStops \/ WaitOver(TRUE)
  \/ (Start \/ Connect \/ SockEx) /\ UNCHANGED serverVars

Spec == Init /\ [][Next]_vars

\* Threads are scheduled, callbacks return, timers expire, and a thread that polls takes
\* what was accepted or cancelled.  No peer has to close and no deadline has to pass.
Fairness ==
  /\ WF_vars(AppStep) /\ WF_vars(TimerFires)
  /\ \A t \in Threads : WF_vars(ConnStep(t))
  /\ \A c \in Conns : WF_vars(Erase(c) \/ Tell(c))
  /\ \A t \in Pollers : WF_vars(AcceptPacket(t))
  /\ SF_vars(LateSuccess \/ \E t \in Threads, c \in Conns : Phase(c) = "cancelled" /\ ReadEnds(t))

FairSpec == Spec /\ Fairness

-----------------------------------------------------------------------------
\* What has not ended yet.
Living(c) == Phase(c) \in {"new", "up", "busy", "cancelled", "stuck"}

\* The limit is checked in one critical section and the connection inserted in another.
\* The threads that are in between can exceed it, by one each at most.
LimitKept ==
  MaxConnections > 0 => Count <= MaxConnections + Cardinality(Pollers) - 1

\* Until the table is cleared at the end it has every living connection under its own
\* socket number, and no other but for the moment of its end: shutdown() reaches them
\* all, and when the table is empty they are gone.  It must survive that a number is used
\* again before the entry of its former owner was erased.
TableHoldsLiving ==
  pc[App] \notin {"stopPolls", "down"} =>
    \A c \in Conns :
      /\ Living(c) => table[conns[c].handle] = c
      /\ Phase(c) = "told" => c \notin Entries \ {serves[t] : t \in Threads}

\* A connection that lives has a socket of its own, and a socket that was accepted is
\* open only for a connection that lives or is about to be made.
SocketsOwned ==
  /\ \A c \in Conns : Living(c) =>
       /\ sock[conns[c].handle] = "conn"
       /\ \A d \in Conns : Living(d) /\ conns[d].handle = conns[c].handle => c = d
  /\ \A h \in Handles : sock[h] = "conn" =>
       \/ \E c \in Conns : Living(c) /\ conns[c].handle = h
       \/ \E t \in Pollers : pc[t] = "insert" /\ Socket(t) = h

\* shutdown() and close() release all.
\* It does not hold (README.md, section 3); FewLeftOpen says what does.
AllReleased == pc[App] = "down" => \A c \in Conns : ~Living(c)

\* max_connections_ is never exceeded.
\* It does not hold (README.md, section 3); LimitKept says what does.
LimitExact == MaxConnections > 0 => Count <= MaxConnections

\* connection_count() does not miss an active connection while the server runs.
\* It does not hold (README.md, section 3); TableHoldsLiving says what does.
ActiveCounted ==
  pc[App] = "serving" => Cardinality({c \in Conns : Phase(c) \in {"up", "busy"}}) <= Count

\* When shutdown() or close() is over, a connection that nobody has closed is one that a
\* thread was accepting meanwhile: the table is copied before those threads are done.
FewLeftOpen ==
  pc[App] = "down" =>
    Cardinality({c \in Conns : Phase(c) \in {"new", "up", "busy"}}) <= Cardinality(Pollers)

\* shutdown() does not need its deadline: the peers or the close timers empty the table,
\* but for connections whose cancelled read has succeeded and for those that were
\* inserted after the table had been copied.
WaitEnds ==
  pc[App] = "wait" ~>
    \/ pc[App] # "wait" \/ fault # "none"
    \/ \E c \in Entries : Phase(c) = "stuck" \/ conns[c].timer = "none"
=============================================================================
