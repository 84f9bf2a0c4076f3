--------------------------- MODULE ServerProofs ---------------------------
(***************************************************************************)
(* Proofs about Server.                                                    *)
(*                                                                         *)
(* For any number of threads that poll: the number of connections exceeds  *)
(* the limit by the threads that are between the check and the insertion,  *)
(* which is one less than there are threads; and a socket has one owner,   *)
(* from the acceptor's context over the thread that hands it on to the     *)
(* connection.  For one such thread and callbacks that only close their    *)
(* connections: the table has every connection that lives, so that         *)
(* shutdown() misses one that is being accepted at most.                   *)
(* The acceptor's own invariant holds inside the server by the lemmas of   *)
(* AcceptorProofs, since each of them is about one step.                   *)
(***************************************************************************)
EXTENDS Server, AcceptorProofs

\* The socket numbers that have an entry, and the threads about to add one.
Used == {h \in Handles : table[h] # None}
Inserting == {t \in Threads : pc[t] = "insert"}

\* The thread App never handles a completion.
Foreign == {"onConn", "insert", "startConn", "dropConn", "onAccept"}

\* Threads and entries are counted by finite sets; connections and threads that insert
\* are together within the bound.
LimitInv ==
  /\ DOMAIN pc = Threads /\ DOMAIN table = Handles
  /\ pc[App] \notin Foreign
  /\ IsFiniteSet(Used)
  /\ MaxConnections > 0 =>
       Cardinality(Used) + Cardinality(Inserting) <= MaxConnections + Cardinality(Pollers) - 1

LEMMA ThreadsKnown ==
  /\ IsFiniteSet(Threads) /\ App \in Threads /\ Pollers \subseteq Threads /\ App \notin Pollers
  /\ Timer \notin Threads /\ IsFiniteSet(Pollers) /\ Cardinality(Pollers) \in Nat
BY AcceptorAssumption, ServerAssumption, FS_AddElement, FS_CardinalityType DEF Threads

\* Only polling threads insert.
LEMMA InsertingPoll ==
  ASSUME LimitInv
  PROVE  /\ Inserting \subseteq Pollers
         /\ IsFiniteSet(Inserting) /\ Cardinality(Inserting) \in Nat
         /\ Cardinality(Inserting) <= Cardinality(Pollers)
         /\ Cardinality(Used) \in Nat
<1>1. Inserting \subseteq Pollers
  BY DEF LimitInv, Inserting, Threads, Foreign
<1> QED
  BY <1>1, ThreadsKnown, FS_Subset, FS_CardinalityType DEF LimitInv

\* A step that adds no entry and lets no thread begin to insert.
LEMMA Shrinks ==
  ASSUME LimitInv, DOMAIN pc' = Threads, DOMAIN table' = Handles, pc'[App] \notin Foreign,
         Used' \subseteq Used, Inserting' \subseteq Inserting
  PROVE  LimitInv'
<1>1. /\ IsFiniteSet(Used) /\ IsFiniteSet(Inserting)
      /\ Cardinality(Inserting) \in Nat /\ Cardinality(Used) \in Nat
  BY InsertingPoll DEF LimitInv
<1>2. /\ IsFiniteSet(Used') /\ Cardinality(Used') <= Cardinality(Used)
      /\ IsFiniteSet(Inserting') /\ Cardinality(Inserting') <= Cardinality(Inserting)
  BY <1>1, FS_Subset
<1>3. Cardinality(Used') \in Nat /\ Cardinality(Inserting') \in Nat
  BY <1>2, FS_CardinalityType
<1> QED
  BY <1>1, <1>2, <1>3, ThreadsKnown, ServerAssumption DEF LimitInv

\* A thread moves on, but not to insert, and no entry is added.
LEMMA ThreadMove ==
  ASSUME LimitInv, NEW t \in Threads, NEW to, to # "insert", pc' = [pc EXCEPT ![t] = to],
         t = App => to \notin Foreign,
         DOMAIN table' = Handles, \A h \in Handles : table'[h] \in {table[h], None}
  PROVE  LimitInv'
<1>1. DOMAIN pc' = Threads /\ pc'[App] \notin Foreign
  BY ThreadsKnown DEF LimitInv
<1>2. Inserting' \subseteq Inserting
  BY DEF LimitInv, Inserting
<1>3. Used' \subseteq Used
  BY DEF Used
<1> QED
  BY <1>1, <1>2, <1>3, Shrinks

\* No thread moves, and no entry is added.
LEMMA TableMove ==
  ASSUME LimitInv, pc' = pc, DOMAIN table' = Handles,
         \A h \in Handles : table'[h] \in {table[h], None}
  PROVE  LimitInv'
<1>1. DOMAIN pc' = Threads /\ pc'[App] \notin Foreign
  BY DEF LimitInv
<1>2. Inserting' = Inserting
  BY DEF Inserting
<1>3. Used' \subseteq Used
  BY DEF Used
<1> QED
  BY <1>1, <1>2, <1>3, Shrinks

-----------------------------------------------------------------------------
\* on_new_connection_(): a thread finds room; there is one connection less than allowed.
LEMMA AdmitKeeps ==
  ASSUME LimitInv, NEW t \in Threads, Admit(t)
  PROVE  LimitInv'
<1>1. /\ pc[t] = "onConn" /\ ~Full /\ pc' = [pc EXCEPT ![t] = "insert"] /\ table' = table
  BY DEF Admit, At, Go, serverVars, tableVars
<1>2. t # App /\ App \in Threads
  BY <1>1, ThreadsKnown DEF LimitInv, Foreign
<1>3. DOMAIN pc' = Threads /\ pc'[App] \notin Foreign
  BY <1>1, <1>2 DEF LimitInv
<1>4. Inserting' \subseteq Pollers
  BY <1>3 DEF Inserting, Threads, Foreign
<1>5. Cardinality(Inserting') <= Cardinality(Pollers) /\ Cardinality(Inserting') \in Nat
  BY <1>4, ThreadsKnown, FS_Subset, FS_CardinalityType
<1>6. Used' = Used /\ Count = Cardinality(Used) /\ Cardinality(Used) \in Nat
  BY <1>1, InsertingPoll DEF Used, Count
<1>7. MaxConnections > 0 => Cardinality(Used) <= MaxConnections - 1
  BY <1>1, <1>6, ServerAssumption DEF Full
<1> QED
  BY <1>1, <1>3, <1>5, <1>6, <1>7, ThreadsKnown, ServerAssumption DEF LimitInv

\* on_new_connection_(): a thread that was about to insert has done it.
LEMMA InsertKeeps ==
  ASSUME LimitInv, NEW t \in Threads, Insert(t)
  PROVE  LimitInv'
<1>1. PICK c \in Conns : table' = [table EXCEPT ![Socket(t)] = c]
  BY DEF Insert
<1>2. pc[t] = "insert" /\ pc' = [pc EXCEPT ![t] = "startConn"]
  BY DEF Insert, At, Go
<1>3. t # App /\ App \in Threads
  BY <1>2, ThreadsKnown DEF LimitInv, Foreign
<1>4. DOMAIN pc' = Threads /\ pc'[App] \notin Foreign /\ DOMAIN table' = Handles
  BY <1>1, <1>2, <1>3 DEF LimitInv
<1>5. Inserting' = Inserting \ {t} /\ t \in Inserting
  BY <1>2 DEF LimitInv, Inserting
<1>6. IsFiniteSet(Inserting') /\ Cardinality(Inserting') = Cardinality(Inserting) - 1
  BY <1>5, InsertingPoll, FS_RemoveElement
<1>7. /\ IsFiniteSet(Used \union {Socket(t)})
      /\ Cardinality(Used \union {Socket(t)}) <= Cardinality(Used) + 1
  <2>1. IsFiniteSet(Used) /\ Cardinality(Used) \in Nat
    BY InsertingPoll DEF LimitInv
  <2>2. /\ IsFiniteSet(Used \union {Socket(t)})
        /\ Cardinality(Used \union {Socket(t)}) =
             IF Socket(t) \in Used THEN Cardinality(Used) ELSE Cardinality(Used) + 1
    BY <2>1, FS_AddElement
  <2> QED
    BY <2>1, <2>2
<1>8. Used' \subseteq Used \union {Socket(t)}
  BY <1>1 DEF Used, LimitInv
<1>9. /\ IsFiniteSet(Used') /\ Cardinality(Used') <= Cardinality(Used) + 1
      /\ Cardinality(Used') \in Nat /\ Cardinality(Used) \in Nat
      /\ Cardinality(Inserting) \in Nat
  <2>1. IsFiniteSet(Used') /\ Cardinality(Used') <= Cardinality(Used \union {Socket(t)})
    BY <1>7, <1>8, FS_Subset
  <2>2. Cardinality(Used \union {Socket(t)}) \in Nat
    BY <1>7, FS_CardinalityType
  <2> QED
    BY <1>7, <2>1, <2>2, InsertingPoll, FS_CardinalityType
<1> QED
  BY <1>4, <1>6, <1>9, ThreadsKnown, ServerAssumption DEF LimitInv

-----------------------------------------------------------------------------
\* What the other actions do to the table and to the place of threads.

\* The acceptor's own steps leave the table alone and insert nothing.
LEMMA AcceptStepLimit ==
  ASSUME LimitInv, NEW t \in Threads, AcceptStep(t), table' = table
  PROVE  LimitInv'
<1>1. App \notin Pollers /\ App \in Threads
  BY ThreadsKnown
<1>2. CASE GoAccepting(t) \/ NoSocket(t) \/ Accepting(t) \/ AcceptRefused(t)
  <2>1. PICK to \in {"start", "release", "idle", "socket"} : pc' = [pc EXCEPT ![t] = to]
    BY <1>2 DEF GoAccepting, NoSocket, Accepting, AcceptRefused, Return, GoWith, Go
  <2> QED
    BY <2>1, ThreadMove DEF LimitInv, Foreign
<1>3. CASE NewSocket(t)
  <2>1. pc' = [pc EXCEPT ![t] = "acceptEx"]
    BY <1>3 DEF NewSocket, GoWith
  <2> QED
    BY <2>1, ThreadMove DEF LimitInv, Foreign
<1>4. CASE AcceptedTooLate(t) \/ UpdateFails(t) \/ Accepted(t)
  <2>1. pc[t] = "onAccept"
    BY <1>4 DEF AcceptedTooLate, UpdateFails, Accepted, At
  <2>2. t # App
    BY <2>1 DEF LimitInv, Foreign
  <2>3. PICK to \in {"start", "release", "idle", "accept", "onConn"} :
          pc' = [pc EXCEPT ![t] = to]
    BY <1>4 DEF AcceptedTooLate, UpdateFails, Accepted, Return, GoWith, Go
  <2> QED
    BY <2>2, <2>3, ThreadMove DEF LimitInv
<1>5. CASE OnError(t) \/ OnLast(t) \/ ResetChannel(t) \/ ReleaseFailed(t)
  <2>1. PICK to \in {"onLast", "accept", "resetChannel", "release", "idle"} :
          pc' = [pc EXCEPT ![t] = to]
    BY <1>5 DEF OnError, OnLast, ResetChannel, ReleaseFailed, AfterError, Go
  <2> QED
    BY <2>1, ThreadMove DEF LimitInv, Foreign
<1>6. CASE NullChannel(t)
  <2>1. pc' = pc
    BY <1>6 DEF NullChannel, threadVars
  <2> QED
    BY <2>1, TableMove DEF LimitInv
<1> QED
  BY <1>2, <1>3, <1>4, <1>5, <1>6 DEF AcceptStep

\* Packets go to threads that poll.
LEMMA DispatchLimit ==
  ASSUME LimitInv, NEW t \in Threads, DispatchAccept(t) \/ DispatchError(t), table' = table
  PROVE  LimitInv'
<1>1. t # App
  BY ThreadsKnown DEF DispatchAccept, DispatchError, Dequeues
<1>2. PICK to \in {"onAccept", "onReset", "onAborted"} : pc' = [pc EXCEPT ![t] = to]
  BY DEF DispatchAccept, DispatchError, GoWith
<1> QED
  BY <1>1, <1>2, ThreadMove DEF LimitInv

\* on_new_connection_() but for its check and its insertion.
LEMMA NewConnectionKeeps ==
  ASSUME LimitInv, NEW t \in Threads,
         \/ Refuse(t) \/ StartConn(t) \/ StartConnFails(t) \/ StartConnLate(t) \/ DropConn(t)
  PROVE  LimitInv'
<1>1. pc[t] \in {"onConn", "startConn", "dropConn"}
  BY DEF Refuse, StartConn, StartConnFails, StartConnLate, DropConn, At
<1>2. t # App
  BY <1>1 DEF LimitInv, Foreign
<1>3. PICK to \in {"accept", "dropConn"} : pc' = [pc EXCEPT ![t] = to]
  BY DEF Refuse, StartConn, StartConnFails, StartConnLate, DropConn, Handed, GoWith, Go
<1>4. DOMAIN table' = Handles /\ \A h \in Handles : table'[h] \in {table[h], None}
  BY DEF LimitInv, Refuse, StartConn, StartConnFails, StartConnLate, DropConn, EraseEntry,
     serverVars, tableVars
<1> QED
  BY <1>2, <1>3, <1>4, ThreadMove

\* cleanup_() of a connection, on whatever thread.
LEMMA EndKeeps ==
  ASSUME LimitInv, NEW t, NEW c, NEW back, EndBy(t, c, back), table' = table
  PROVE  LimitInv'
<1>1. pc' = [u \in Threads |-> IF u = t THEN "ending" ELSE pc[u]]
  BY DEF EndBy
<1>2. DOMAIN pc' = Threads /\ pc'[App] \notin Foreign
  BY <1>1, ThreadsKnown DEF LimitInv, Foreign
<1>3. Inserting' \subseteq Inserting /\ Used' = Used
  BY <1>1 DEF Inserting, Used
<1> QED
  BY <1>2, <1>3, Shrinks DEF LimitInv

LEMMA CleanupKeeps ==
  ASSUME LimitInv, NEW t, NEW c, NEW back, Cleanup(t, c, back)
  PROVE  LimitInv'
<1>1. CASE EndBy(t, c, back) /\ table' = table
  BY <1>1, EndKeeps
<1>2. CASE Cancel(c) /\ UNCHANGED <<sock, threadVars>>
  BY <1>2, TableMove DEF Cancel, threadVars, LimitInv
<1> QED
  BY <1>1, <1>2 DEF Cleanup

LEMMA CloseConnKeeps ==
  ASSUME LimitInv, NEW t, NEW c, NEW back, CloseConn(t, c, back)
  PROVE  LimitInv'
<1>1. CASE UNCHANGED <<conns, table, sock, threadVars>>
  BY <1>1, TableMove DEF threadVars, LimitInv
<1> QED
  BY <1>1, CleanupKeeps DEF CloseConn

\* A poll has a message, or its callback has returned.
LEMMA MessageKeeps ==
  ASSUME LimitInv, NEW t \in Threads, MessageArrives(t) \/ EndMessage(t)
  PROVE  LimitInv'
<1>1. table' = table
  BY DEF MessageArrives, EndMessage
<1>2. CASE EndBy(t, serves[t], "idle")
  BY <1>1, <1>2, EndKeeps
<1>3. CASE \E to \in {"idle", "message"} : pc' = [pc EXCEPT ![t] = to]
  BY <1>1, <1>3, ThreadMove DEF LimitInv, Foreign
<1> QED
  BY <1>2, <1>3 DEF MessageArrives, EndMessage, ReadsOn, EndsAfter, EndedMeanwhile, Go

\* Where the threads that end connections go on.
GoesBack ==
  \A c \in Conns : Phase(c) = "erased" /\ conns[c].by \in Threads =>
    conns[c].back # "insert" /\ (conns[c].by = App => conns[c].back \notin Foreign)

\* The last steps of do_cleanup_().
LEMMA EraseTellKeeps ==
  ASSUME LimitInv, GoesBack, NEW c \in Conns, Erase(c) \/ Tell(c)
  PROVE  LimitInv'
<1>1. CASE Erase(c)
  <2>1. pc' = pc /\ table' = [table EXCEPT ![conns[c].handle] = None]
    BY <1>1 DEF Erase, EraseEntry, acceptorVars, threadVars
  <2> QED
    BY <2>1, TableMove DEF LimitInv
<1>2. CASE Tell(c)
  <2>1. /\ table' = table /\ Phase(c) = "erased"
        /\ pc' = [t \in Threads |-> IF t = conns[c].by THEN conns[c].back ELSE pc[t]]
    BY <1>2 DEF Tell
  <2>2. DOMAIN pc' = Threads /\ pc'[App] \notin Foreign
    BY <2>1, ThreadsKnown DEF LimitInv, GoesBack
  <2>3. Inserting' \subseteq Inserting /\ Used' = Used
    BY <2>1 DEF Inserting, Used, GoesBack
  <2> QED
    BY <2>1, <2>2, <2>3, Shrinks DEF LimitInv
<1> QED
  BY <1>1, <1>2

\* The thread App.
LEMMA AppStepKeeps ==
  ASSUME LimitInv, AppStep \/ ServerStops \/ WaitOver(TRUE) \/ (Start /\ UNCHANGED serverVars)
  PROVE  LimitInv'
<1> USE ThreadsKnown DEF serverVars, tableVars
<1>1. CASE CloseEach
  <2>1. PICK c \in batch : CloseConn(App, c, "each")
    BY <1>1 DEF CloseEach
  <2> QED
    BY <2>1, CloseConnKeeps
<1>2. CASE DrainEach
  <2>1. pc' = pc /\ table' = table
    BY <1>2 DEF DrainEach, acceptorVars, threadVars
  <2> QED
    BY <2>1, TableMove DEF LimitInv
<1>3. CASE Clear
  <2>1. pc' = [pc EXCEPT ![App] = "stopPolls"] /\ table' = [h \in Handles |-> None]
    BY <1>3 DEF Clear, Go
  <2> QED
    BY <2>1, ThreadMove DEF Foreign
<1>4. ASSUME \/ StartLoop /\ UNCHANGED serverVars
             \/ CloseListen("collect") /\ UNCHANGED serverVars
             \/ Collect
             \/ AllDone
             \/ WaitOver(FALSE)
             \/ StopPolls
             \/ ServerStops
             \/ WaitOver(TRUE)
             \/ Start /\ UNCHANGED serverVars
      PROVE  LimitInv'
  <2>1. table' = table
    BY <1>4 DEF Collect, AllDone, WaitOver, StopPolls, ServerStops
  <2>2. PICK to \in {"start", "accept", "serving", "collect", "each", "wait", "clear",
                     "closeListen", "down"} : pc' = [pc EXCEPT ![App] = to]
    BY <1>4 DEF StartLoop, CloseListen, Collect, AllDone, WaitOver, StopPolls, ServerStops,
       Shutdown, Start, Go
  <2> QED
    BY <2>1, <2>2, ThreadMove DEF LimitInv, Foreign
<1> QED
  BY <1>1, <1>2, <1>3, <1>4 DEF AppStep

-----------------------------------------------------------------------------
LEMMA LimitInit == Init => LimitInv
<1> SUFFICES ASSUME Init PROVE LimitInv
  OBVIOUS
<1> USE DEF Init, AcceptorInit
<1>1. Used = {} /\ Inserting = {}
  BY DEF Used, Inserting
<1>2. DOMAIN pc = Threads /\ DOMAIN table = Handles /\ pc[App] \notin Foreign
  BY ThreadsKnown DEF Foreign
<1>3. IsFiniteSet({}) /\ Cardinality({}) = 0
  BY FS_EmptySet
<1>4. MaxConnections > 0 => 0 <= MaxConnections + Cardinality(Pollers) - 1
  BY ThreadsKnown, ServerAssumption
<1> QED
  BY <1>1, <1>2, <1>3, <1>4 DEF LimitInv

\* Every step keeps the invariant.
LEMMA LimitNext ==
  ASSUME LimitInv, GoesBack, [Next]_vars
  PROVE  LimitInv'
<1> USE DEF serverVars, tableVars
<1>1. ASSUME NEW t \in Threads, ConnStep(t) PROVE LimitInv'
  BY <1>1, AdmitKeeps, InsertKeeps, NewConnectionKeeps, MessageKeeps, AcceptStepLimit DEF ConnStep
<1>2. ASSUME NEW t \in Threads, AcceptPacket(t) \/ MessageArrives(t) PROVE LimitInv'
  BY <1>2, DispatchLimit, MessageKeeps DEF AcceptPacket
<1>3. ASSUME NEW t \in Threads, UserCloses(t) PROVE LimitInv'
  BY <1>3, CloseConnKeeps DEF UserCloses
<1>4. ASSUME NEW t \in Threads, ReadEnds(t) PROVE LimitInv'
  <2>1. CASE \E c \in Conns : Cancel(c) /\ UNCHANGED <<sock, threadVars>>
    BY <2>1, TableMove DEF Cancel, threadVars, LimitInv
  <2> QED
    BY <1>4, <2>1, EndKeeps DEF ReadEnds
<1>5. ASSUME NEW c \in Conns, Erase(c) \/ Tell(c) PROVE LimitInv'
  BY <1>5, EraseTellKeeps
<1>6. CASE TimerFires
  <2>1. CASE UNCHANGED <<table, sock, threadVars>>
    BY <2>1, TableMove DEF threadVars, LimitInv
  <2> QED
    BY <1>6, <2>1, CleanupKeeps DEF TimerFires
<1>7. CASE AppStep \/ ServerStops \/ WaitOver(TRUE) \/ (Start /\ UNCHANGED serverVars)
  BY <1>7, AppStepKeeps
<1>8. ASSUME \/ LateSuccess \/ \E t \in Threads : UserDrains(t)
             \/ (Connect \/ SockEx) /\ UNCHANGED serverVars
             \/ UNCHANGED vars
      PROVE  LimitInv'
  <2>1. pc' = pc /\ table' = table
    BY <1>8 DEF LateSuccess, UserDrains, Connect, SockEx, vars, acceptorVars, threadVars
  <2> QED
    BY <2>1, TableMove DEF LimitInv
<1> QED
  BY <1>1, <1>2, <1>3, <1>4, <1>5, <1>6, <1>7, <1>8 DEF Next

-----------------------------------------------------------------------------
\* Who has each socket, each connection and each thread of the server.

Phases ==
  {"none", "new", "up", "busy", "cancelled", "stuck", "closed", "erased", "told", "failed"}

Connections ==
  [phase : Phases, handle : Handles \union {0}, down : BOOLEAN,
   timer : {"none", "armed", "cancelled"}, by : Threads \union {Timer}, back : Labels]

ConnTyped ==
  /\ conns \in [Conns -> Connections]
  /\ table \in [Handles -> Conns \union {None}]
  /\ how \in {"shutdown", "close"} /\ batch \subseteq Conns
  /\ stopped \in BOOLEAN

\* A thread that has made a connection keeps it, and the context with its socket, until it
\* has started it, and one that has a message of a connection until the callback returns;
\* also while it closes a connection in the user's callback.
Serving == {"startConn", "dropConn", "message"}
ServingInv ==
  /\ serves \in [Threads -> Conns \union {None}]
  /\ \A t \in Threads : serves[t] # None =>
       /\ t \in Pollers /\ pc[t] \in Serving \union {"ending"}
       /\ Phase(serves[t]) # "none"
       /\ ctx[t] # 0 => conns[serves[t]].handle = Socket(t)
  /\ \A t \in Threads : pc[t] \in Serving => serves[t] # None

\* SocketsOwned, with the threads that are about to make a connection.
OwnInv ==
  /\ \A c \in Conns : Living(c) => conns[c].handle \in Handles /\ sock[conns[c].handle] = "conn"
  /\ \A c, d \in Conns : Living(c) /\ Living(d) /\ conns[c].handle = conns[d].handle => c = d
  /\ \A t \in Threads : pc[t] = "insert" =>
       /\ Socket(t) \in Handles /\ sock[Socket(t)] = "conn"
       /\ \A c \in Conns : Living(c) => conns[c].handle # Socket(t)
  /\ \A t, u \in Threads : pc[t] = "insert" /\ pc[u] = "insert" /\ Socket(t) = Socket(u) => t = u
  /\ \A h \in Handles : sock[h] = "conn" =>
       \/ \E c \in Conns : Living(c) /\ conns[c].handle = h
       \/ \E t \in Threads : pc[t] = "insert" /\ Socket(t) = h

\* A thread ends one connection at a time, and goes back to what it has in hand.
Dying(c) == Phase(c) \in {"closed", "erased"}
BackAt(t, back) ==
  /\ back \in (IF t = App THEN {"each", "serving"} ELSE {"idle", "startConn", "message"})
  /\ ctx[t] # 0 <=> back = "startConn"
  /\ serves[t] # None <=> back \in {"startConn", "message"}
EndingInv ==
  /\ \A c \in Conns, t \in Threads : Dying(c) /\ conns[c].by = t =>
       pc[t] = "ending" /\ BackAt(t, conns[c].back)
  /\ \A c, d \in Conns : Dying(c) /\ Dying(d) /\ conns[c].by = conns[d].by => c = d

\* Until start() there is no connection; the listening socket is open until it is closed.
RunInv ==
  /\ pc[App] = "idle" => \A c \in Conns : Phase(c) = "none"
  /\ listenHandle # 0 => Open

ConnInv == ConnTyped /\ ServingInv /\ OwnInv /\ EndingInv /\ RunInv
ServerInv == IInv /\ SocketInv /\ ConnInv

\* The moves of threads.

\* A thread goes on inside the server: the calls and their count are not concerned.
LEMMA ServerMove ==
  ASSUME ChannelInv, PlaceInv, NEW t \in Threads, NEW to \in Labels, pc' = [pc EXCEPT ![t] = to],
         pc[t] \notin CountedAt, to \notin CountedAt \union Ending,
         pc[t] # "idle" \/ pc[App] # "idle", to = "idle" => t \in Pollers,
         UNCHANGED <<channel, ioCount, posted>>,
         listenHandle' \in Handles \union {0}, sock' \in [Handles -> Kinds], Open' => Open
  PROVE  ChannelInv'
<1>1. Cardinality(Counted') = Cardinality(Counted)
  BY CountedMove
<1>2. AcceptsCounted' /\ ioCount' \in Nat /\ IsFiniteSet(posted')
  BY <1>1 DEF ChannelInv, AcceptsCounted
<1>3. to # "resetChannel"
  BY DEF Ending
<1> QED
  BY <1>2, <1>3, ChannelMove

\* on_conn_func_ has returned.
LEMMA HandedOver ==
  ASSUME IInv, NEW t \in Threads, pc[t] \in {"onConn", "startConn", "dropConn"}, Handed(t),
         UNCHANGED <<listenHandle, channel, ioCount, posted>>,
         sock' \in [Handles -> Kinds], Open' => Open
  PROVE  /\ Kept /\ t \in Pollers /\ pc' = [pc EXCEPT ![t] = "accept"]
         /\ ctx' = [ctx EXCEPT ![t] = 0] /\ ctx[t] # 0 /\ acceptHandle' = acceptHandle
         /\ old' = old
<1> USE DEF IInv
<1>1. /\ pc' = [pc EXCEPT ![t] = "accept"] /\ ctx' = [ctx EXCEPT ![t] = 0] /\ old' = old
      /\ Release(ctx[t]) /\ acceptHandle' = acceptHandle
  BY DEF Handed, GoWith, Release
<1>2. t \in Pollers /\ t # App /\ ctx[t] # 0 /\ old[t] = 0
  BY DEF PlaceInv, AppLabels, WithContext, NoFailure, Threads
<1>3. "accept" \in Labels /\ "accept" \in PollerLabels /\ ctx[t] \in Nat
  BY DEF Labels, PollerLabels, PoolInv, PoolTyped, Contexts
<1>4. ctx'[t] = 0 /\ \A u \in Threads \ {t} : ctx'[u] = ctx[u] /\ old'[u] = old[u]
  BY <1>1 DEF PoolInv, PoolTyped
<1>5. PlaceInv'
  BY <1>1, <1>2, <1>3, <1>4, PlaceMove DEF WithContext, AfterFailure, NoFailure
<1>6. PoolInv'
  BY <1>1, <1>2, <1>3, PoolRelease
<1>7. ChannelInv'
  <2>1. listenHandle' \in Handles \union {0}
    BY DEF ChannelInv
  <2> QED
    BY <1>1, <1>3, <2>1, ServerMove DEF CountedAt, Ending
<1> QED
  BY <1>1, <1>2, <1>5, <1>6, <1>7 DEF Kept

\* A polling thread goes on with or without its context and releases nothing.
LEMMA HoldingMove ==
  ASSUME IInv, NEW t \in Pollers, NEW to \in PollerLabels, pc' = [pc EXCEPT ![t] = to],
         to # "ending" => (ctx[t] # 0 <=> to \in WithContext), old[t] = 0, to \notin AfterFailure,
         pc[t] \notin CountedAt, to \notin CountedAt \union Ending,
         pc[t] # "idle" \/ pc[App] # "idle",
         UNCHANGED <<poolVars, ctx, old, listenHandle, channel, ioCount, posted>>,
         sock' \in [Handles -> Kinds], Open' => Open
  PROVE  Kept
<1> USE DEF IInv
<1>1. t \in Threads /\ t # App /\ to \in Labels
  BY ThreadsFinite, AcceptorAssumption DEF Labels
<1>2. PlaceInv'
  BY <1>1, PlaceMove
<1>3. PoolInv'
  BY PoolUnchanged DEF poolVars
<1>4. listenHandle' \in Handles \union {0}
  BY DEF ChannelInv
<1>5. ChannelInv'
  BY <1>1, <1>4, ServerMove
<1> QED
  BY <1>2, <1>3, <1>5 DEF Kept

\* No thread moves, but a socket may be closed.
LEMMA NoMove ==
  ASSUME IInv, UNCHANGED <<pc, ctx, old, poolVars, listenHandle, channel, ioCount, posted>>,
         sock' \in [Handles -> Kinds],
         \A h \in Handles : sock'[h] = "listen" => sock[h] = "listen"
  PROVE  Kept
<1> USE DEF IInv
<1>1. PoolInv'
  BY PoolUnchanged DEF poolVars
<1>2. PlaceInv'
  BY DEF PlaceInv
<1>3. AcceptsCounted'
  BY DEF ChannelInv, AcceptsCounted, Counted
<1>4. ChannelInv'
  <2>1. Open' => Open
    BY DEF ChannelInv, Open
  <2> QED
    BY <1>3, <2>1 DEF ChannelInv
<1> QED
  BY <1>1, <1>2, <1>4 DEF Kept
-----------------------------------------------------------------------------
\* What the acceptor does: it moves no thread of the server and touches no socket that it
\* has given away.

\* The threads other than t keep the socket they have in hand.
OthersHold(t) ==
  \A u \in Threads \ {t} : ctx'[u] = ctx[u] /\ (ctx[u] # 0 => Socket(u)' = Socket(u))

LEMMA SameHandles ==
  ASSUME NEW t, \A u \in Threads \ {t} : ctx'[u] = ctx[u], acceptHandle' = acceptHandle
  PROVE  OthersHold(t)
BY DEF OthersHold, Socket

LEMMA NewSocketHolds ==
  ASSUME IInv, NEW t \in Threads, NewSocket(t)
  PROVE  OthersHold(t)
<1>1. PICK h \in Handles, c \in 1..Len(acceptHandle) + 1 :
        Acquire(c, h) /\ ctx' = [ctx EXCEPT ![t] = c]
  BY DEF NewSocket, GoWith
<1>2. /\ \A u \in Threads : ctx[u] # c /\ ctx[u] \in Contexts \union {0}
      /\ \A d \in Contexts : d # c => acceptHandle'[d] = acceptHandle[d]
  BY <1>1, AcquireFree, AcquireSets DEF IInv, PoolInv, PoolTyped
<1>3. \A u \in Threads \ {t} : ctx'[u] = ctx[u]
  BY <1>1
<1> QED
  BY <1>2, <1>3 DEF OthersHold, Socket

LEMMA NoSocketHolds ==
  ASSUME IInv, NEW t \in Threads, NoSocket(t)
  PROVE  OthersHold(t)
<1>1. ctx' = [ctx EXCEPT ![t] = 0] /\ acceptHandle' \in {acceptHandle, Append(acceptHandle, 0)}
  BY DEF NoSocket, Return, GoWith, poolVars
<1>2. /\ acceptHandle \in Seq(Handles \union {0})
      /\ \A u \in Threads : ctx[u] \in 1..Len(acceptHandle) \union {0}
  BY DEF IInv, PoolInv, PoolTyped, Contexts
<1>3. \A c \in 1..Len(acceptHandle) : acceptHandle'[c] = acceptHandle[c]
  BY <1>1, <1>2
<1>4. \A u \in Threads \ {t} : ctx'[u] = ctx[u]
  BY <1>1
<1> QED
  BY <1>2, <1>3, <1>4 DEF OthersHold, Socket

\* A thread that works for the acceptor goes on to another place of the acceptor.
LEMMA AcceptPlaces ==
  ASSUME IInv, NEW t \in Threads, AcceptStep(t) \/ DispatchAccept(t) \/ DispatchError(t)
  PROVE  /\ \E to : /\ pc' = [pc EXCEPT ![t] = to] /\ pc[t] \notin Handing
                    /\ to \notin Handing /\ (t = App => to # "idle" /\ pc[t] # "idle")
         /\ OthersHold(t)
<1> USE DEF Handing
<1>0. ASSUME NEW to, pc' = [pc EXCEPT ![t] = to], pc[t] \notin Handing, to \notin Handing,
             t = App => to # "idle" /\ pc[t] # "idle", acceptHandle' = acceptHandle,
             ctx' = ctx \/ \E c : ctx' = [ctx EXCEPT ![t] = c]
      PROVE  /\ \E x : /\ pc' = [pc EXCEPT ![t] = x] /\ pc[t] \notin Handing
                       /\ x \notin Handing /\ (t = App => x # "idle" /\ pc[t] # "idle")
             /\ OthersHold(t)
  <2>1. \A u \in Threads \ {t} : ctx'[u] = ctx[u]
    BY <1>0 DEF IInv, PoolInv, PoolTyped
  <2> QED
    BY <1>0, <2>1, SameHandles
<1>1. CASE GoAccepting(t) \/ Accepting(t) \/ AcceptRefused(t) \/ AcceptedTooLate(t)
  <2>1. /\ pc[t] \in {"accept", "acceptEx", "onAccept"} /\ acceptHandle' = acceptHandle
        /\ ctx' = [ctx EXCEPT ![t] = 0] \/ ctx' = ctx
        /\ \E to \in {"socket", "start", "release", "idle"} :
             pc' = [pc EXCEPT ![t] = to] /\ (t = App => to # "idle")
    BY <1>1 DEF GoAccepting, Accepting, AcceptRefused, AcceptedTooLate, Return, GoWith, Go, At,
       Release, poolVars
  <2> QED
    BY <2>1, <1>0
<1>2. CASE NewSocket(t)
  <2>1. pc[t] = "socket" /\ pc' = [pc EXCEPT ![t] = "acceptEx"]
    BY <1>2 DEF NewSocket, At, GoWith
  <2>2. /\ pc[t] \notin Handing /\ "acceptEx" \notin Handing
        /\ (t = App => "acceptEx" # "idle" /\ pc[t] # "idle")
    BY <2>1
  <2>3. OthersHold(t)
    BY <1>2, NewSocketHolds
  <2> HIDE DEF Handing
  <2> QED
    BY <2>1, <2>2, <2>3
<1>3. CASE NoSocket(t)
  <2>1. /\ pc[t] = "socket"
        /\ \E to \in {"start", "release", "idle"} :
             pc' = [pc EXCEPT ![t] = to] /\ (t = App => to # "idle")
    BY <1>3 DEF NoSocket, At, Return, GoWith
  <2> QED
    BY <1>3, <2>1, NoSocketHolds
<1>4. CASE UpdateFails(t) \/ Accepted(t)
  <2>1. /\ pc[t] = "onAccept" /\ acceptHandle' = acceptHandle
        /\ ctx' = [ctx EXCEPT ![t] = 0] \/ ctx' = ctx
        /\ \E to \in {"accept", "onConn"} : pc' = [pc EXCEPT ![t] = to]
    BY <1>4 DEF UpdateFails, Accepted, GoWith, Go, At, Release, poolVars
  <2> QED
    BY <2>1, <1>0
<1>5. CASE OnError(t) \/ OnLast(t) \/ ResetChannel(t) \/ ReleaseFailed(t)
  <2>1. /\ pc[t] \in {"onReset", "onAborted", "onLast", "resetChannel", "release"}
        /\ acceptHandle' = acceptHandle /\ ctx' = ctx
        /\ \E to \in {"accept", "onLast", "resetChannel", "release", "idle"} :
             pc' = [pc EXCEPT ![t] = to]
    BY <1>5 DEF OnError, OnLast, ResetChannel, ReleaseFailed, AfterError, Go, At, Release, poolVars
  <2>2. t # App
    BY <2>1 DEF IInv, PlaceInv, AppLabels
  <2> QED
    BY <2>1, <2>2, <1>0
<1>6. CASE NullChannel(t)
  <2>1. /\ pc[t] \in {"socket", "acceptEx", "onAccept", "onReset", "onAborted", "onLast"}
        /\ pc' = pc /\ ctx' = ctx /\ acceptHandle' = acceptHandle
    BY <1>6 DEF NullChannel, At, poolVars, threadVars
  <2>2. pc' = [pc EXCEPT ![t] = pc[t]]
    BY <2>1 DEF IInv, PlaceInv
  <2> QED
    BY <2>1, <2>2, <1>0
<1>7. CASE DispatchAccept(t) \/ DispatchError(t)
  <2>1. /\ pc[t] = "idle" /\ t \in Pollers /\ acceptHandle' = acceptHandle
        /\ ctx' = ctx \/ \E c : ctx' = [ctx EXCEPT ![t] = c]
        /\ \E to \in {"onAccept", "onReset", "onAborted"} : pc' = [pc EXCEPT ![t] = to]
    BY <1>7 DEF DispatchAccept, DispatchError, Dequeues, GoWith, At, poolVars
  <2>2. t # App
    BY <2>1, AcceptorAssumption
  <2> QED
    BY <2>1, <2>2, <1>0
<1> QED
  BY <1>1, <1>2, <1>3, <1>4, <1>5, <1>6, <1>7 DEF AcceptStep

\* The connections are as before, and so is every thread that has one or is to make one.
LEMMA ConnsKept ==
  ASSUME ConnInv, UNCHANGED <<conns, serves>>, ConnTyped',
         \A u \in Threads : pc[u] \in Handing =>
           pc'[u] = pc[u] /\ ctx'[u] = ctx[u] /\ (ctx[u] # 0 => Socket(u)' = Socket(u)),
         \A u \in Threads : pc[u] = "insert" => ctx[u] # 0,
         \A u \in Threads : pc'[u] \in Handing => pc[u] \in Handing,
         PlaceInv, \A h \in Handles : sock'[h] = "conn" <=> sock[h] = "conn",
         pc'[App] = "idle" => pc[App] = "idle", listenHandle' # 0 => Open'
  PROVE  ConnInv'
<1>1. \A c \in Conns : Phase(c)' = Phase(c) /\ (Living(c)' <=> Living(c)) /\ (Dying(c)' <=> Dying(c))
  BY DEF Phase, Living, Dying
<1>2. ServingInv'
  BY <1>1 DEF ServingInv, Serving, ConnInv, Handing
<1>3. OwnInv'
  <2>1. \A u \in Threads : pc'[u] = "insert" <=> pc[u] = "insert"
    BY DEF Handing
  <2>2. \A u \in Threads : pc[u] = "insert" => Socket(u)' = Socket(u)
    BY DEF Handing
  <2> QED
    BY <1>1, <2>1, <2>2 DEF OwnInv, ConnInv
<1>4. EndingInv'
  BY <1>1 DEF EndingInv, BackAt, ConnInv, Handing
<1>5. RunInv'
  BY <1>1 DEF RunInv, ConnInv
<1> QED
  BY <1>2, <1>3, <1>4, <1>5 DEF ConnInv

LEMMA FromKept ==
  ASSUME IInv, Kept, UNCHANGED sockExVars
  PROVE  IInv'
BY DEF IInv, Kept, SockExInv, sockExVars

\* The acceptor, inside the server.
LEMMA AcceptorServer ==
  ASSUME ServerInv, NEW t \in Threads, AcceptStep(t) \/ DispatchAccept(t) \/ DispatchError(t),
         UNCHANGED serverVars
  PROVE  ServerInv'
<1>1. IInv /\ SocketInv /\ ConnInv
  BY DEF ServerInv
<1>2. UNCHANGED sockExVars /\ listenHandle' = listenHandle
  BY DEF AcceptStep, GoAccepting, NewSocket, NoSocket, Accepting, AcceptRefused,
     AcceptedTooLate, UpdateFails, Accepted, OnError, OnLast, ResetChannel,
     ReleaseFailed, NullChannel, DispatchAccept, DispatchError, objectVars
<1>3. IInv'
  BY <1>1, <1>2, AcceptStepKeeps, DispatchKeeps, FromKept
<1>4. SocketInv' /\ OthersKept
  BY <1>1, AcceptStepSockets, DispatchSockets DEF SocketsKept
<1>5. Open' = Open
  BY <1>1, <1>2, <1>4, OpenStays DEF IInv
<1>6. PICK to : /\ pc' = [pc EXCEPT ![t] = to] /\ pc[t] \notin Handing
                /\ to \notin Handing /\ (t = App => to # "idle" /\ pc[t] # "idle")
  BY <1>1, AcceptPlaces
<1>7. \A u \in Threads : pc'[u] = IF u = t THEN to ELSE pc[u]
  BY <1>1, <1>6 DEF IInv, PlaceInv
<1>8. OthersHold(t) /\ App \in Threads /\ PlaceInv
  BY <1>1, AcceptPlaces, ThreadsFinite DEF IInv
<1>9. \A u \in Threads : pc[u] = "insert" => ctx[u] # 0
  BY <1>8 DEF PlaceInv, WithContext
<1>10. \A h \in Handles : sock'[h] = "conn" <=> sock[h] = "conn"
  BY <1>4 DEF OthersKept
<1>11. UNCHANGED <<conns, serves>> /\ ConnTyped'
  BY <1>1 DEF serverVars, tableVars, endVars, ConnInv, ConnTyped
<1>12. listenHandle' # 0 => Open'
  BY <1>1, <1>2, <1>5 DEF ConnInv, RunInv
<1>13. ConnInv'
  BY <1>1, <1>6, <1>7, <1>8, <1>9, <1>10, <1>11, <1>12, ConnsKept DEF OthersHold
<1> QED
  BY <1>3, <1>4, <1>13 DEF ServerInv

\* on_new_connection_(): the socket of a client that is too many is closed.
LEMMA RefuseServer ==
  ASSUME ServerInv, NEW t \in Threads, Refuse(t)
  PROVE  ServerInv'
<1>1. IInv /\ SocketInv /\ ConnInv /\ ChannelInv /\ PlaceInv
  BY DEF ServerInv, IInv
<1>2. /\ pc[t] = "onConn" /\ sock' = [sock EXCEPT ![Socket(t)] = "free"] /\ Handed(t)
      /\ UNCHANGED <<listenHandle, channel, ioCount, posted>>
      /\ UNCHANGED sockExVars /\ UNCHANGED serverVars
  BY DEF Refuse, At, Closes, objectVars
<1>3. "free" \in Kinds /\ "free" # "listen" /\ "free" \notin {"listen", "conn"} /\ "free" # "accept"
  BY DEF Kinds
<1>4. sock' \in [Handles -> Kinds] /\ (Open' => Open)
  BY <1>1, <1>2, <1>3, NotListen
<1>5. /\ Kept /\ t \in Pollers /\ pc' = [pc EXCEPT ![t] = "accept"]
      /\ ctx' = [ctx EXCEPT ![t] = 0] /\ ctx[t] # 0 /\ acceptHandle' = acceptHandle
  BY <1>1, <1>2, <1>4, HandedOver
<1>6. SocketsKept /\ (Open => Open')
  BY <1>1, <1>2, <1>3, <1>5, HandedSockets DEF Handed, Socket
<1>7. /\ \A u \in Threads : pc'[u] = IF u = t THEN "accept" ELSE pc[u]
      /\ \A u \in Threads \ {t} : ctx'[u] = ctx[u]
  BY <1>1, <1>5 DEF PlaceInv, IInv, PoolInv, PoolTyped
<1>8. \A u \in Threads : pc[u] \in Handing =>
        pc'[u] = pc[u] /\ ctx'[u] = ctx[u] /\ (ctx[u] # 0 => Socket(u)' = Socket(u))
  BY <1>2, <1>5, <1>7 DEF Handing, Socket
<1>9. /\ \A u \in Threads : pc[u] = "insert" => ctx[u] # 0
      /\ \A u \in Threads : pc'[u] \in Handing => pc[u] \in Handing
      /\ pc'[App] = "idle" => pc[App] = "idle"
  BY <1>1, <1>7, ThreadsFinite DEF PlaceInv, WithContext, Handing
<1>10. \A h \in Handles : sock'[h] = "conn" <=> sock[h] = "conn"
  BY <1>6 DEF SocketsKept, OthersKept
<1>11. UNCHANGED <<conns, serves>> /\ ConnTyped' /\ (listenHandle' # 0 => Open')
  BY <1>1, <1>2, <1>6 DEF serverVars, tableVars, endVars, ConnInv, ConnTyped, RunInv
<1>12. ConnInv'
  BY <1>1, <1>8, <1>9, <1>10, <1>11, ConnsKept
<1> QED
  BY <1>1, <1>2, <1>5, <1>6, <1>12, FromKept DEF ServerInv, SocketsKept
-----------------------------------------------------------------------------
\* on_new_connection_().

\* A connection goes on to another phase, or is shut down.
LEMMA PhaseSet ==
  ASSUME ConnTyped, NEW c \in Conns, NEW p \in Phases,
         \/ Becomes(c, p)
         \/ conns' = [conns EXCEPT ![c].phase = p, ![c].down = FALSE]
         \/ conns' = [conns EXCEPT ![c].phase = p, ![c].timer = "cancelled"]
         \/ p = Phase(c) /\ conns' = [conns EXCEPT ![c].timer = "cancelled"]
         \/ p = Phase(c) /\ conns' = [conns EXCEPT ![c].down = TRUE, ![c].timer = "armed"],
         UNCHANGED <<how, stopped>>, batch' \subseteq Conns,
         table' \in [Handles -> Conns \union {None}]
  PROVE  /\ ConnTyped'
         /\ \A d \in Conns : /\ Phase(d)' = (IF d = c THEN p ELSE Phase(d))
                             /\ conns'[d].handle = conns[d].handle
                             /\ conns'[d].by = conns[d].by /\ conns'[d].back = conns[d].back
<1>1. PICK r \in Connections :
        /\ conns' = [conns EXCEPT ![c] = r]
        /\ r.phase = p /\ r.handle = conns[c].handle
        /\ r.by = conns[c].by /\ r.back = conns[c].back
  <2>1. /\ [conns[c] EXCEPT !.phase = p] \in Connections
        /\ [conns[c] EXCEPT !.phase = p, !.down = FALSE] \in Connections
        /\ [conns[c] EXCEPT !.phase = p, !.timer = "cancelled"] \in Connections
        /\ [conns[c] EXCEPT !.timer = "cancelled"] \in Connections
        /\ [conns[c] EXCEPT !.down = TRUE, !.timer = "armed"] \in Connections
    BY DEF ConnTyped, Connections
  <2>2. CASE Becomes(c, p)
    <3>1. conns' = [conns EXCEPT ![c] = [conns[c] EXCEPT !.phase = p]]
      BY <2>2 DEF ConnTyped, Becomes
    <3> QED
      BY <2>1, <3>1 DEF ConnTyped, Connections
  <2>3. CASE conns' = [conns EXCEPT ![c].phase = p, ![c].down = FALSE]
    <3>1. conns' = [conns EXCEPT ![c] = [conns[c] EXCEPT !.phase = p, !.down = FALSE]]
      BY <2>3 DEF ConnTyped
    <3> QED
      BY <2>1, <3>1 DEF ConnTyped, Connections
  <2>4. CASE conns' = [conns EXCEPT ![c].phase = p, ![c].timer = "cancelled"]
    <3>1. conns' = [conns EXCEPT ![c] = [conns[c] EXCEPT !.phase = p, !.timer = "cancelled"]]
      BY <2>4 DEF ConnTyped
    <3> QED
      BY <2>1, <3>1 DEF ConnTyped, Connections
  <2>5. CASE p = Phase(c) /\ conns' = [conns EXCEPT ![c].timer = "cancelled"]
    <3>1. conns' = [conns EXCEPT ![c] = [conns[c] EXCEPT !.timer = "cancelled"]]
      BY <2>5 DEF ConnTyped
    <3> QED
      BY <2>1, <2>5, <3>1 DEF ConnTyped, Connections, Phase
  <2>6. CASE p = Phase(c) /\ conns' = [conns EXCEPT ![c].down = TRUE, ![c].timer = "armed"]
    <3>1. conns' = [conns EXCEPT ![c] = [conns[c] EXCEPT !.down = TRUE, !.timer = "armed"]]
      BY <2>6 DEF ConnTyped
    <3> QED
      BY <2>1, <2>6, <3>1 DEF ConnTyped, Connections, Phase
  <2> QED
    BY <2>2, <2>3, <2>4, <2>5, <2>6
<1> QED
  BY <1>1 DEF ConnTyped, Phase

\* The owners of sockets stay the same, ...
LEMMA OwnSame ==
  ASSUME OwnInv,
         \A c \in Conns : (Living(c)' <=> Living(c)) /\ conns'[c].handle = conns[c].handle,
         \A t \in Threads : pc'[t] = "insert" <=> pc[t] = "insert",
         \A t \in Threads : pc[t] = "insert" => Socket(t)' = Socket(t),
         sock' = sock
  PROVE  OwnInv'
BY DEF OwnInv

\* ... or a connection ends and its socket is closed.
LEMMA OwnLess ==
  ASSUME ChannelInv, OwnInv, NEW c \in Conns, Living(c), ~Living(c)',
         \A d \in Conns \ {c} : Living(d)' <=> Living(d),
         \A d \in Conns : conns'[d].handle = conns[d].handle,
         \A t \in Threads : pc'[t] = "insert" <=> pc[t] = "insert",
         \A t \in Threads : pc[t] = "insert" => Socket(t)' = Socket(t),
         sock' = [sock EXCEPT ![conns[c].handle] = "free"]
  PROVE  /\ OwnInv' /\ sock' \in [Handles -> Kinds]
         /\ \A h \in Handles : \A kind \in {"listen", "accept"} : sock'[h] = kind <=> sock[h] = kind
<1>1. conns[c].handle \in Handles /\ sock[conns[c].handle] = "conn"
  BY DEF OwnInv
<1>2. \A h \in Handles : sock'[h] = IF h = conns[c].handle THEN "free" ELSE sock[h]
  BY DEF ChannelInv
<1>3. \A d \in Conns : Living(d)' =>
        Living(d) /\ d # c /\ conns[d].handle # conns[c].handle
  BY DEF OwnInv
<1>4. \A t \in Threads : pc'[t] = "insert" => Socket(t) # conns[c].handle
  BY DEF OwnInv
<1>5. /\ \A d \in Conns : Living(d)' => conns'[d].handle \in Handles /\ sock'[conns'[d].handle] = "conn"
      /\ \A d, e \in Conns : Living(d)' /\ Living(e)' /\ conns'[d].handle = conns'[e].handle => d = e
  BY <1>2, <1>3 DEF OwnInv
<1>6. /\ \A t \in Threads : pc'[t] = "insert" =>
           /\ Socket(t)' \in Handles /\ sock'[Socket(t)'] = "conn"
           /\ \A d \in Conns : Living(d)' => conns'[d].handle # Socket(t)'
      /\ \A t, u \in Threads : pc'[t] = "insert" /\ pc'[u] = "insert" /\ Socket(t)' = Socket(u)' => t = u
  BY <1>2, <1>3, <1>4 DEF OwnInv
<1>7. \A h \in Handles : sock'[h] = "conn" =>
        \/ \E d \in Conns : Living(d)' /\ conns'[d].handle = h
        \/ \E t \in Threads : pc'[t] = "insert" /\ Socket(t)' = h
  <2> SUFFICES ASSUME NEW h \in Handles, sock'[h] = "conn"
               PROVE  \/ \E d \in Conns : Living(d)' /\ conns'[d].handle = h
                      \/ \E t \in Threads : pc'[t] = "insert" /\ Socket(t)' = h
    OBVIOUS
  <2>1. h # conns[c].handle /\ sock[h] = "conn"
    BY <1>2
  <2>2. CASE \E t \in Threads : pc[t] = "insert" /\ Socket(t) = h
    BY <2>2
  <2>3. CASE \E d \in Conns : Living(d) /\ conns[d].handle = h
    BY <2>1, <2>3
  <2> QED
    BY <2>1, <2>2, <2>3 DEF OwnInv
<1>8. OwnInv'
  BY <1>5, <1>6, <1>7 DEF OwnInv
<1>9. sock' \in [Handles -> Kinds]
  BY DEF ChannelInv, Kinds
<1> QED
  BY <1>1, <1>2, <1>8, <1>9

\* A thread has finished with its connection and its context.
LEMMA FinishServer ==
  ASSUME ServerInv, NEW t \in Threads, pc[t] \in {"startConn", "dropConn"}, Handed(t),
         serves' = [serves EXCEPT ![t] = None], ConnTyped',
         UNCHANGED <<listenHandle, channel, ioCount, posted, sock, sockExVars>>,
         \A c \in Conns : /\ (Living(c)' <=> Living(c)) /\ (Dying(c)' <=> Dying(c))
                          /\ Phase(c)' = "none" <=> Phase(c) = "none"
                          /\ conns'[c].handle = conns[c].handle
                          /\ conns'[c].by = conns[c].by /\ conns'[c].back = conns[c].back
  PROVE  ServerInv'
<1>1. IInv /\ SocketInv /\ ConnInv /\ ChannelInv /\ PlaceInv
  BY DEF ServerInv, IInv
<1>2. sock' \in [Handles -> Kinds] /\ Open' = Open
  BY <1>1 DEF ChannelInv, Open
<1>3. /\ Kept /\ t \in Pollers /\ pc' = [pc EXCEPT ![t] = "accept"]
      /\ ctx' = [ctx EXCEPT ![t] = 0] /\ ctx[t] # 0 /\ acceptHandle' = acceptHandle /\ old' = old
  BY <1>1, <1>2, HandedOver
<1>4. /\ \A u \in Threads : pc'[u] = IF u = t THEN "accept" ELSE pc[u]
      /\ \A u \in Threads \ {t} : ctx'[u] = ctx[u]
      /\ ctx'[t] = 0
  BY <1>1, <1>3 DEF PlaceInv, IInv, PoolInv, PoolTyped
<1>5. SocketInv'
  <2>1. HeldBy(t) = {} /\ HeldBy(t)' = {0}
    BY <1>4 DEF HeldBy, Handing, Failed
  <2>2. Mine(t)' = Mine(t)
    BY <2>1 DEF Mine
  <2>3. Live' = Live
    BY <1>1, <1>3, <1>4, <2>2, LiveMove DEF IInv
  <2> QED
    BY <1>1, <1>3, <2>3, SocketsSame
<1>6. t # App /\ App \in Threads
  BY <1>3, ThreadsKnown
<1>7. ServingInv'
  <2>1. \A u \in Threads : serves'[u] = IF u = t THEN None ELSE serves[u]
    BY <1>1 DEF ConnInv, ServingInv
  <2>2. serves' \in [Threads -> Conns \union {None}]
    BY <1>1 DEF ConnInv, ServingInv
  <2>3. \A u \in Threads \ {t} : Socket(u)' = Socket(u)
    BY <1>3, <1>4 DEF Socket
  <2> QED
    BY <1>1, <1>4, <2>1, <2>2, <2>3 DEF ConnInv, ServingInv, Serving
<1>8. OwnInv'
  <2>1. \A u \in Threads : pc[u] = "insert" => Socket(u)' = Socket(u)
    BY <1>3, <1>4 DEF Socket
  <2> QED
    BY <1>1, <1>4, <2>1, OwnSame DEF ConnInv
<1>9. EndingInv' /\ RunInv'
  <2>1. \A u \in Threads \ {t} : serves'[u] = serves[u]
    BY <1>1 DEF ConnInv, ServingInv
  <2> QED
    BY <1>1, <1>2, <1>4, <1>6, <2>1 DEF ConnInv, EndingInv, BackAt, RunInv
<1> QED
  BY <1>1, <1>3, <1>5, <1>7, <1>8, <1>9, FromKept DEF ServerInv, ConnInv

\* A thread moves with what it has in hand.
LEMMA ServingMove ==
  ASSUME PlaceInv, ServingInv, NEW t \in Threads, NEW to, pc' = [pc EXCEPT ![t] = to],
         UNCHANGED <<serves, ctx, acceptHandle>>,
         \A c \in Conns : /\ Phase(c)' = "none" => Phase(c) = "none"
                          /\ conns'[c].handle = conns[c].handle,
         serves[t] # None => to \in Serving \union {"ending"},
         to \in Serving => serves[t] # None
  PROVE  ServingInv'
<1>1. \A u \in Threads : pc'[u] = IF u = t THEN to ELSE pc[u]
  BY DEF PlaceInv
<1>2. \A u \in Threads : Socket(u)' = Socket(u)
  BY DEF Socket
<1> QED
  BY <1>1, <1>2 DEF ServingInv

\* The sockets of contexts stay as they are when a thread that has none in hand, or that
\* has given its socket to the server, moves.
LEMMA HandingMove ==
  ASSUME IInv, SocketInv, NEW t \in Threads, NEW to, pc' = [pc EXCEPT ![t] = to],
         pc[t] \in Handing \/ ctx[t] = 0, to \in Handing \/ ctx[t] = 0,
         {pc[t], to} \intersect Failed = {},
         UNCHANGED <<ctx, old, posted, acceptHandle>>,
         \A h \in Handles : sock'[h] = "accept" <=> sock[h] = "accept"
  PROVE  SocketInv'
<1>1. HeldBy(t) \subseteq {0} /\ HeldBy(t)' \subseteq {0}
  BY DEF HeldBy, IInv, PlaceInv
<1>2. Mine(t)' = Mine(t)
  BY <1>1 DEF Mine
<1>3. Live' = Live
  BY <1>2, LiveMove DEF IInv
<1> QED
  BY <1>3, SocketsSame

LEMMA AdmitServer ==
  ASSUME ServerInv, NEW t \in Threads, Admit(t)
  PROVE  ServerInv'
<1>1. IInv /\ SocketInv /\ ConnInv /\ ChannelInv /\ PlaceInv
  BY DEF ServerInv, IInv
<1>2. /\ pc[t] = "onConn" /\ sock' = [sock EXCEPT ![Socket(t)] = "conn"]
      /\ pc' = [pc EXCEPT ![t] = "insert"]
      /\ UNCHANGED <<poolVars, acceptHandle, ctx, old, listenHandle, channel, ioCount, posted>>
      /\ UNCHANGED sockExVars /\ UNCHANGED <<conns, table, serves, how, batch, stopped>>
  BY DEF Admit, At, Go, Quiet, objectVars, poolVars, serverVars, tableVars, endVars
<1>3. /\ t \in Pollers /\ t # App /\ ctx[t] # 0 /\ old[t] = 0 /\ App \in Threads
  BY <1>1, <1>2, ThreadsKnown DEF PlaceInv, AppLabels, WithContext, NoFailure, Threads
<1>4. "conn" \in Kinds /\ "conn" # "listen" /\ "conn" # "accept" /\ listenHandle' \in {listenHandle, 0}
  BY <1>2 DEF Kinds
<1>5. sock' \in [Handles -> Kinds] /\ (Open' => Open)
  BY <1>1, <1>2, <1>4, NotListen
<1>6. Kept
  <2>1. "insert" \in PollerLabels /\ "insert" \in WithContext
    BY DEF PollerLabels, WithContext
  <2>2. /\ pc[t] \notin CountedAt /\ "insert" \notin CountedAt \union Ending
        /\ "insert" \notin AfterFailure /\ pc[t] # "idle"
    BY <1>2 DEF CountedAt, Ending, AfterFailure
  <2> QED
    BY <1>1, <1>2, <1>3, <1>5, <2>1, <2>2, HoldingMove
<1>7. /\ SocketInv' /\ (Open => Open')
      /\ Socket(t) \in Handles /\ sock[Socket(t)] = "accept"
  <2>1. HeldBy(t) = {ctx[t]} /\ HeldBy(t)' = {}
    BY <1>1, <1>2 DEF HeldBy, Handing, Failed, PlaceInv
  <2>2. HeldBy(t) \union {0} = {ctx[t], 0} /\ HeldBy(t)' \subseteq {0}
    BY <2>1
  <2>3. sock' = [sock EXCEPT ![acceptHandle[ctx[t]]] = "conn"]
    BY <1>2 DEF Socket
  <2> QED
    BY <1>1, <1>2, <1>3, <1>4, <2>2, <2>3, DropContext DEF Socket
<1>8. \A u \in Threads : pc'[u] = IF u = t THEN "insert" ELSE pc[u]
  BY <1>1, <1>2 DEF PlaceInv
<1>9. /\ \A c \in Conns : /\ Phase(c)' = Phase(c) /\ (Living(c)' <=> Living(c))
                          /\ (Dying(c)' <=> Dying(c))
      /\ \A u \in Threads : Socket(u)' = Socket(u)
      /\ conns' = conns
  BY <1>2 DEF Phase, Living, Dying, Socket
<1>10. ServingInv'
  <2>1. serves[t] = None
    BY <1>1, <1>2 DEF ConnInv, ServingInv, Serving
  <2>2. "insert" \notin Serving
    BY DEF Serving
  <2> QED
    BY <1>1, <1>2, <1>9, <2>1, <2>2, ServingMove DEF ConnInv
<1>11. OwnInv'
  <2>1. \A h \in Handles : sock'[h] = IF h = Socket(t) THEN "conn" ELSE sock[h]
    BY <1>1, <1>2 DEF ChannelInv
  <2>2. OwnInv
    BY <1>1 DEF ConnInv
  <2>3. /\ \A c \in Conns : Living(c) => conns[c].handle # Socket(t)
        /\ \A u \in Threads : pc[u] = "insert" => Socket(u) # Socket(t)
    BY <1>7, <2>2 DEF OwnInv
  <2>4. /\ \A u \in Threads : pc'[u] = "insert" =>
             /\ Socket(u)' \in Handles /\ sock'[Socket(u)'] = "conn"
             /\ \A c \in Conns : Living(c)' => conns'[c].handle # Socket(u)'
        /\ \A u, v \in Threads : pc'[u] = "insert" /\ pc'[v] = "insert" /\ Socket(u)' = Socket(v)' => u = v
    BY <1>7, <1>8, <1>9, <2>1, <2>2, <2>3 DEF OwnInv
  <2>5. /\ \A c \in Conns : Living(c)' => conns'[c].handle \in Handles /\ sock'[conns'[c].handle] = "conn"
        /\ \A c, d \in Conns : Living(c)' /\ Living(d)' /\ conns'[c].handle = conns'[d].handle => c = d
    BY <1>9, <2>1, <2>2 DEF OwnInv
  <2>6. \A h \in Handles : sock'[h] = "conn" =>
          \/ \E c \in Conns : Living(c)' /\ conns'[c].handle = h
          \/ \E u \in Threads : pc'[u] = "insert" /\ Socket(u)' = h
    <3> SUFFICES ASSUME NEW h \in Handles, sock'[h] = "conn"
                 PROVE  \/ \E c \in Conns : Living(c)' /\ conns'[c].handle = h
                        \/ \E u \in Threads : pc'[u] = "insert" /\ Socket(u)' = h
      OBVIOUS
    <3>1. CASE h = Socket(t)
      BY <1>8, <1>9, <3>1
    <3>2. CASE h # Socket(t)
      <4>1. sock[h] = "conn"
        BY <2>1, <3>2
      <4>2. \/ \E c \in Conns : Living(c) /\ conns[c].handle = h
            \/ \E u \in Threads : pc[u] = "insert" /\ Socket(u) = h
        BY <2>2, <4>1 DEF OwnInv
      <4> QED
        BY <1>8, <1>9, <4>2
    <3> QED
      BY <3>1, <3>2
  <2> QED
    BY <2>4, <2>5, <2>6 DEF OwnInv
<1>12. EndingInv' /\ RunInv' /\ ConnTyped'
  <2>1. listenHandle' # 0 => Open'
    BY <1>1, <1>2, <1>7 DEF ConnInv, RunInv
  <2> QED
    BY <1>1, <1>2, <1>3, <1>8, <1>9, <2>1 DEF ConnInv, EndingInv, BackAt, RunInv, ConnTyped
<1> QED
  BY <1>1, <1>2, <1>6, <1>7, <1>10, <1>11, <1>12, FromKept DEF ServerInv, ConnInv

\* When a thread does something, start() has been called.
LEMMA Started ==
  ASSUME ChannelInv, PlaceInv, NEW t \in Threads, pc[t] # "idle"
  PROVE  pc[App] # "idle"
BY DEF ChannelInv, Threads

LEMMA InsertServer ==
  ASSUME ServerInv, NEW t \in Threads, Insert(t)
  PROVE  ServerInv'
<1>1. IInv /\ SocketInv /\ ConnInv /\ ChannelInv /\ PlaceInv
  BY DEF ServerInv, IInv
<1>2. PICK c \in Conns :
        /\ Phase(c) = "none"
        /\ conns' = [conns EXCEPT ![c].phase = "new", ![c].handle = Socket(t)]
        /\ table' = [table EXCEPT ![Socket(t)] = c]
        /\ serves' = [serves EXCEPT ![t] = c]
  BY DEF Insert
<1>3. /\ pc[t] = "insert" /\ pc' = [pc EXCEPT ![t] = "startConn"]
      /\ UNCHANGED <<poolVars, acceptHandle, ctx, old, listenHandle, channel, ioCount, posted>>
      /\ UNCHANGED sockExVars /\ UNCHANGED <<sock, how, batch, stopped>>
  BY DEF Insert, At, Go, Quiet, objectVars, poolVars, endVars
<1>4. /\ t \in Pollers /\ t # App /\ ctx[t] # 0 /\ old[t] = 0 /\ App \in Threads
      /\ pc[App] # "idle"
  BY <1>1, <1>3, ThreadsKnown, Started DEF PlaceInv, AppLabels, WithContext, NoFailure, Threads
<1>5. sock' \in [Handles -> Kinds] /\ Open' = Open
  BY <1>1, <1>3 DEF ChannelInv, Open
<1>6. Kept
  <2>1. "startConn" \in PollerLabels /\ "startConn" \in WithContext
    BY DEF PollerLabels, WithContext
  <2>2. /\ pc[t] \notin CountedAt /\ "startConn" \notin CountedAt \union Ending
        /\ "startConn" \notin AfterFailure /\ pc[t] # "idle"
    BY <1>3 DEF CountedAt, Ending, AfterFailure
  <2> QED
    BY <1>1, <1>3, <1>4, <1>5, <2>1, <2>2, HoldingMove
<1>7. SocketInv'
  <2>1. /\ pc[t] \in Handing /\ "startConn" \in Handing
        /\ {pc[t], "startConn"} \intersect Failed = {}
    BY <1>3 DEF Handing, Failed
  <2> QED
    BY <1>1, <1>3, <2>1, HandingMove
<1>8. \A u \in Threads : /\ pc'[u] = (IF u = t THEN "startConn" ELSE pc[u])
                         /\ serves'[u] = (IF u = t THEN c ELSE serves[u])
                         /\ Socket(u)' = Socket(u)
  BY <1>1, <1>2, <1>3 DEF PlaceInv, ConnInv, ServingInv, Socket
<1>9. Socket(t) \in Handles /\ sock[Socket(t)] = "conn" /\ \A d \in Conns : Living(d) => conns[d].handle # Socket(t)
  BY <1>1, <1>3 DEF ConnInv, OwnInv
<1>10. ConnTyped'
  <2>1. conns' = [conns EXCEPT ![c] = [@ EXCEPT !.phase = "new", !.handle = Socket(t)]]
    BY <1>1, <1>2 DEF ConnInv, ConnTyped, Connections
  <2>2. conns[c] \in Connections /\ "new" \in Phases
    BY <1>1 DEF ConnInv, ConnTyped, Phases
  <2>3. [conns[c] EXCEPT !.phase = "new", !.handle = Socket(t)] \in Connections
    BY <1>9, <2>2 DEF Connections
  <2> QED
    BY <1>1, <1>2, <1>3, <1>9, <2>1, <2>3 DEF ConnInv, ConnTyped
<1>11. \A d \in Conns : /\ Phase(d)' = (IF d = c THEN "new" ELSE Phase(d))
                        /\ conns'[d].handle = (IF d = c THEN Socket(t) ELSE conns[d].handle)
                        /\ conns'[d].by = conns[d].by /\ conns'[d].back = conns[d].back
  BY <1>1, <1>2 DEF ConnInv, ConnTyped, Connections, Phase
<1>12. /\ \A d \in Conns : Living(d)' <=> Living(d) \/ d = c
       /\ \A d \in Conns : Dying(d)' <=> Dying(d)
       /\ ~Living(c)
  BY <1>2, <1>11 DEF Living, Dying
<1>13. ServingInv'
  <2>1. serves' \in [Threads -> Conns \union {None}] /\ c # None
    BY <1>1, <1>2 DEF ConnInv, ServingInv, Conns, None
  <2>2. \A u \in Threads : serves[u] # c
    BY <1>1, <1>2, <2>1 DEF ConnInv, ServingInv
  <2>3. \A u \in Threads : serves'[u] # None =>
          /\ u \in Pollers /\ pc'[u] \in Serving \union {"ending"}
          /\ conns'[serves'[u]].phase # "none"
          /\ ctx'[u] # 0 => conns'[serves'[u]].handle = Socket(u)'
    <3> SUFFICES ASSUME NEW u \in Threads, serves'[u] # None
                 PROVE  /\ u \in Pollers /\ pc'[u] \in Serving \union {"ending"}
                        /\ conns'[serves'[u]].phase # "none"
                        /\ ctx'[u] # 0 => conns'[serves'[u]].handle = Socket(u)'
      OBVIOUS
    <3>0. \A d \in Conns : Phase(d)' = conns'[d].phase
      BY DEF Phase
    <3>1. CASE u = t
      BY <1>4, <1>8, <1>11, <3>0, <3>1 DEF Serving
    <3>2. CASE u # t
      <4>1. /\ serves[u] \in Conns /\ serves[u] # c /\ serves'[u] = serves[u] /\ u \in Pollers
            /\ pc[u] \in Serving \union {"ending"} /\ pc'[u] = pc[u] /\ ctx'[u] = ctx[u]
            /\ Phase(serves[u]) # "none"
            /\ ctx[u] # 0 => conns[serves[u]].handle = Socket(u)
        BY <1>1, <1>3, <1>8, <2>2, <3>2 DEF ConnInv, ServingInv
      <4> QED
        BY <1>8, <1>11, <3>0, <4>1
    <3> QED
      BY <3>1, <3>2
  <2>4. \A u \in Threads : pc'[u] \in Serving => serves'[u] # None
    BY <1>1, <1>8, <2>1 DEF ConnInv, ServingInv
  <2> QED
    BY <2>1, <2>3, <2>4 DEF ServingInv, Phase
<1>14. OwnInv'
  <2>1. OwnInv /\ sock' = sock
    BY <1>1, <1>3 DEF ConnInv
  <2>2. /\ \A d \in Conns : Living(d)' => conns'[d].handle \in Handles /\ sock'[conns'[d].handle] = "conn"
        /\ \A d, e \in Conns : Living(d)' /\ Living(e)' /\ conns'[d].handle = conns'[e].handle => d = e
    BY <1>9, <1>11, <1>12, <2>1 DEF OwnInv
  <2>3. /\ \A u \in Threads : pc'[u] = "insert" =>
             /\ Socket(u)' \in Handles /\ sock'[Socket(u)'] = "conn"
             /\ \A d \in Conns : Living(d)' => conns'[d].handle # Socket(u)'
        /\ \A u, v \in Threads : pc'[u] = "insert" /\ pc'[v] = "insert" /\ Socket(u)' = Socket(v)' => u = v
    BY <1>3, <1>8, <1>11, <1>12, <2>1 DEF OwnInv
  <2>4. \A h \in Handles : sock'[h] = "conn" =>
          \/ \E d \in Conns : Living(d)' /\ conns'[d].handle = h
          \/ \E u \in Threads : pc'[u] = "insert" /\ Socket(u)' = h
    <3> SUFFICES ASSUME NEW h \in Handles, sock[h] = "conn"
                 PROVE  \/ \E d \in Conns : Living(d)' /\ conns'[d].handle = h
                        \/ \E u \in Threads : pc'[u] = "insert" /\ Socket(u)' = h
      BY <2>1
    <3>1. CASE \E d \in Conns : Living(d) /\ conns[d].handle = h
      BY <1>11, <1>12, <3>1
    <3>2. CASE \E u \in Threads : pc[u] = "insert" /\ Socket(u) = h
      BY <1>8, <1>11, <1>12, <3>2
    <3> QED
      BY <2>1, <3>1, <3>2 DEF OwnInv
  <2> QED
    BY <2>2, <2>3, <2>4 DEF OwnInv
<1>15. EndingInv' /\ RunInv'
  <2>1. \A d \in Conns, u \in Threads : Dying(d) /\ conns[d].by = u => u # t
    BY <1>1, <1>3 DEF ConnInv, EndingInv
  <2> QED
    BY <1>1, <1>3, <1>4, <1>5, <1>8, <1>11, <1>12, <2>1 DEF ConnInv, EndingInv, BackAt, RunInv
<1> QED
  BY <1>1, <1>3, <1>6, <1>7, <1>10, <1>13, <1>14, <1>15, FromKept DEF ServerInv, ConnInv

LEMMA StartConnServer ==
  ASSUME ServerInv, NEW t \in Threads, StartConn(t) \/ DropConn(t)
  PROVE  ServerInv'
<1>1. ConnTyped /\ ServingInv
  BY DEF ServerInv, ConnInv
<1>2. /\ pc[t] \in {"startConn", "dropConn"} /\ Handed(t)
      /\ serves' = [serves EXCEPT ![t] = None]
      /\ UNCHANGED <<listenHandle, channel, ioCount, posted, sock, sockExVars>>
      /\ UNCHANGED <<how, batch, stopped>>
  BY DEF StartConn, DropConn, At, objectVars, kernelVars, endVars
<1>3. serves[t] \in Conns
  BY <1>1, <1>2 DEF ServingInv, Serving
<1>4. CASE StartConn(t)
  <2>1. /\ "up" \in Phases /\ table' = table /\ Phase(serves[t]) = "new" /\ batch' \subseteq Conns
        /\ conns' = [conns EXCEPT ![serves[t]].phase = "up", ![serves[t]].down = FALSE]
    BY <1>1, <1>2, <1>4 DEF Phases, StartConn, ConnTyped
  <2>2. table' \in [Handles -> Conns \union {None}]
    BY <1>1, <2>1 DEF ConnTyped
  <2>3. /\ ConnTyped'
        /\ \A d \in Conns : /\ Phase(d)' = (IF d = serves[t] THEN "up" ELSE Phase(d))
                            /\ conns'[d].handle = conns[d].handle
                            /\ conns'[d].by = conns[d].by /\ conns'[d].back = conns[d].back
    BY <1>1, <1>2, <1>3, <2>1, <2>2, PhaseSet
  <2> QED
    BY <1>2, <2>1, <2>3, FinishServer DEF Living, Dying
<1>5. CASE DropConn(t)
  <2>1. conns' = conns /\ ConnTyped'
    BY <1>1, <1>2, <1>5 DEF DropConn, EraseEntry, ConnTyped
  <2> QED
    BY <1>2, <2>1, FinishServer DEF Living, Dying, Phase
<1> QED
  BY <1>4, <1>5

\* A connection ends and its socket is closed, while the thread goes on or stays.
LEMMA SocketCloses ==
  ASSUME ServerInv, NEW c \in Conns, Living(c), ~Living(c)',
         \A d \in Conns \ {c} : Living(d)' <=> Living(d),
         \A d \in Conns : conns'[d].handle = conns[d].handle,
         \A t \in Threads : pc'[t] = "insert" <=> pc[t] = "insert",
         UNCHANGED <<ctx, acceptHandle, listenHandle>>,
         Closes(conns[c].handle)
  PROVE  /\ OwnInv' /\ sock' \in [Handles -> Kinds] /\ Open' = Open
         /\ \A h \in Handles : sock'[h] = "accept" <=> sock[h] = "accept"
         /\ \A h \in Handles : sock'[h] = "listen" <=> sock[h] = "listen"
<1>1. ChannelInv /\ OwnInv
  BY DEF ServerInv, IInv, ConnInv
<1>2. \A t \in Threads : Socket(t)' = Socket(t)
  BY DEF Socket
<1>3. /\ OwnInv' /\ sock' \in [Handles -> Kinds]
      /\ \A h \in Handles : \A kind \in {"listen", "accept"} : sock'[h] = kind <=> sock[h] = kind
  BY <1>1, <1>2, OwnLess DEF Closes
<1>4. Open' = Open
  BY <1>1, <1>3 DEF Open, ChannelInv
<1> QED
  BY <1>3, <1>4

\* start() fails, or has been closed already: the thread still has to clear the table.
LEMMA StartConnFailsServer ==
  ASSUME ServerInv, NEW t \in Threads, StartConnFails(t) \/ StartConnLate(t)
  PROVE  ServerInv'
<1>1. IInv /\ SocketInv /\ ConnInv /\ ChannelInv /\ PlaceInv /\ ServingInv /\ OwnInv
  BY DEF ServerInv, IInv, ConnInv
<1>2. /\ pc[t] = "startConn" /\ pc' = [pc EXCEPT ![t] = "dropConn"]
      /\ UNCHANGED <<poolVars, acceptHandle, ctx, old, listenHandle, channel, ioCount, posted>>
      /\ UNCHANGED sockExVars /\ UNCHANGED <<table, serves, how, batch, stopped>>
  BY DEF StartConnFails, StartConnLate, At, Go, Quiet, objectVars, poolVars, serverVars,
     tableVars, endVars
<1>3. /\ t \in Pollers /\ t # App /\ ctx[t] # 0 /\ old[t] = 0 /\ App \in Threads
      /\ serves[t] \in Conns /\ serves[t] # None /\ pc[App] # "idle"
  BY <1>1, <1>2, ThreadsKnown, Started
     DEF PlaceInv, AppLabels, WithContext, NoFailure, Threads, ServingInv, Serving
<1>4. \A u \in Threads : pc'[u] = IF u = t THEN "dropConn" ELSE pc[u]
  BY <1>1, <1>2 DEF PlaceInv
<1>5. /\ OwnInv' /\ sock' \in [Handles -> Kinds] /\ Open' = Open
      /\ \A h \in Handles : sock'[h] = "accept" <=> sock[h] = "accept"
      /\ ConnTyped'
      /\ \A d \in Conns : /\ conns'[d].handle = conns[d].handle
                          /\ conns'[d].by = conns[d].by /\ conns'[d].back = conns[d].back
                          /\ Phase(d)' = "none" <=> Phase(d) = "none"
                          /\ Dying(d)' <=> Dying(d)
  <2>1. CASE StartConnFails(t)
    <3>1. /\ "failed" \in Phases /\ Becomes(serves[t], "failed") /\ Phase(serves[t]) = "new"
          /\ Closes(conns[serves[t]].handle) /\ ConnTyped
      BY <1>1, <2>1 DEF Phases, StartConnFails, ConnInv
    <3>2. table' \in [Handles -> Conns \union {None}] /\ batch' \subseteq Conns
      BY <1>2, <3>1 DEF ConnTyped
    <3>3. /\ ConnTyped'
          /\ \A d \in Conns : /\ Phase(d)' = (IF d = serves[t] THEN "failed" ELSE Phase(d))
                              /\ conns'[d].handle = conns[d].handle
                              /\ conns'[d].by = conns[d].by /\ conns'[d].back = conns[d].back
      BY <1>2, <1>3, <3>1, <3>2, PhaseSet
    <3>4. /\ Living(serves[t]) /\ ~Living(serves[t])'
          /\ \A d \in Conns \ {serves[t]} : Living(d)' <=> Living(d)
          /\ \A d \in Conns : /\ Phase(d)' = "none" <=> Phase(d) = "none"
                              /\ Dying(d)' <=> Dying(d)
      <4>1. \A d \in Conns : d = serves[t] => Phase(d) = "new" /\ Phase(d)' = "failed"
        BY <3>1, <3>3
      <4>2. Living(serves[t]) /\ ~Living(serves[t])'
        <5>1. Phase(serves[t])' = "failed"
          BY <1>2, <1>3, <3>3 DEF Phase
        <5> QED
          BY <1>2, <3>1, <5>1 DEF Living
      <4> QED
        BY <3>3, <4>1, <4>2 DEF Living, Dying
    <3>5. \A u \in Threads : pc'[u] = "insert" <=> pc[u] = "insert"
      BY <1>2, <1>4
    <3> HIDE DEF Living
    <3>6. ~(conns'[serves[t]].phase \in {"new", "up", "busy", "cancelled", "stuck"})
      BY <1>2, <3>4 DEF Living, Phase
    <3>7. PICK c \in Conns : c = serves[t]
      BY <1>3
    <3>8. ~Living(c)'
      BY <3>6, <3>7 DEF Living, Phase
    <3> QED
      BY <1>2, <3>1, <3>3, <3>4, <3>5, <3>7, <3>8, SocketCloses
  <2>2. CASE StartConnLate(t)
    <3>1. conns' = conns /\ sock' = sock
      BY <2>2 DEF StartConnLate, serverVars, tableVars
    <3>2. \A u \in Threads : Socket(u)' = Socket(u)
      BY <1>2 DEF Socket
    <3>3. OwnInv'
      BY <1>1, <1>2, <1>4, <3>1, <3>2, OwnSame DEF Living, Phase
    <3> QED
      BY <1>1, <1>2, <3>1, <3>3 DEF ConnInv, ConnTyped, ChannelInv, Phase, Dying, Open
  <2> QED
    BY <2>1, <2>2
<1>6. Kept
  <2>1. "dropConn" \in PollerLabels /\ "dropConn" \in WithContext
    BY DEF PollerLabels, WithContext
  <2>2. /\ pc[t] \notin CountedAt /\ "dropConn" \notin CountedAt \union Ending
        /\ "dropConn" \notin AfterFailure /\ pc[t] # "idle"
    BY <1>2 DEF CountedAt, Ending, AfterFailure
  <2> QED
    BY <1>1, <1>2, <1>3, <1>5, <2>1, <2>2, HoldingMove
<1>7. SocketInv'
  <2>1. /\ pc[t] \in Handing /\ "dropConn" \in Handing
        /\ {pc[t], "dropConn"} \intersect Failed = {}
    BY <1>2 DEF Handing, Failed
  <2> QED
    BY <1>1, <1>2, <1>5, <2>1, HandingMove
<1>8. ServingInv'
  BY <1>1, <1>2, <1>3, <1>5, ServingMove DEF Serving
<1>9. EndingInv' /\ RunInv'
  BY <1>1, <1>2, <1>3, <1>4, <1>5 DEF ConnInv, EndingInv, BackAt, RunInv
<1> QED
  BY <1>1, <1>2, <1>5, <1>6, <1>7, <1>8, <1>9, FromKept DEF ServerInv, ConnInv
-----------------------------------------------------------------------------
\* Connections end.

\* The thread App goes on.
LEMMA AppKept ==
  ASSUME IInv, NEW to \in AppLabels, pc' = [pc EXCEPT ![App] = to], ctx[App] = 0,
         to \notin {"idle", "acceptEx"}, pc[App] \notin {"idle", "acceptEx"},
         UNCHANGED <<poolVars, ctx, old, listenHandle, channel, ioCount, posted>>,
         sock' \in [Handles -> Kinds], Open' => Open
  PROVE  Kept
<1> USE DEF IInv
<1>1. App \in Threads /\ to \in Labels /\ old[App] = 0
  BY ThreadsFinite DEF Labels, PlaceInv
<1>2. to \notin WithContext \union AfterFailure \union CountedAt \union Ending
  BY DEF AppLabels, WithContext, AfterFailure, CountedAt, Ending
<1>3. pc[App] \notin CountedAt /\ listenHandle' \in Handles \union {0}
  BY DEF PlaceInv, ChannelInv, AppLabels, CountedAt
<1>4. PlaceInv'
  BY <1>1, <1>2, PlaceMove
<1>5. PoolInv'
  BY PoolUnchanged DEF poolVars
<1>6. ChannelInv'
  BY <1>1, <1>2, <1>3, ServerMove
<1> QED
  BY <1>4, <1>5, <1>6 DEF Kept

\* do_cleanup_() on whatever thread, as far as closesocket().
LEMMA EndServer ==
  ASSUME ServerInv, NEW t \in Threads \union {Timer}, NEW c \in Conns, NEW back \in Labels,
         Living(c) \/ Phase(c) = "failed", EndBy(t, c, back),
         t \in Threads => /\ pc[t] \in IF t = App THEN {"each", "serving"}
                                                 ELSE {"idle", "startConn", "message"}
                          /\ BackAt(t, back)',
         t = Timer => \A d \in Conns : Dying(d) => conns[d].by # Timer,
         serves' \in {serves, [serves EXCEPT ![t] = None]},
         Quiet, UNCHANGED <<table, how, stopped>>, batch' \subseteq Conns
  PROVE  ServerInv'
<1>1. IInv /\ SocketInv /\ ConnInv /\ ChannelInv /\ PlaceInv /\ ServingInv /\ OwnInv /\ ConnTyped
  BY DEF ServerInv, IInv, ConnInv
<1>2. /\ conns' = [conns EXCEPT ![c].phase = "closed", ![c].timer = "cancelled",
                                ![c].by = t, ![c].back = back]
      /\ IF Phase(c) = "failed" THEN UNCHANGED sock ELSE Closes(conns[c].handle)
      /\ UNCHANGED sockExVars
      /\ UNCHANGED <<poolVars, acceptHandle, ctx, old, listenHandle, channel, ioCount, posted>>
  BY DEF EndBy, Quiet, objectVars, poolVars
<1>3. Timer \notin Threads /\ App \in Threads /\ App \notin Pollers /\ pc[App] # "idle"
  <2>1. Phase(c) # "none"
    BY DEF Living
  <2> QED
    BY <1>1, <2>1, ThreadsKnown DEF ConnInv, RunInv
<1>4. \A u \in Threads : pc'[u] = IF u = t THEN "ending" ELSE pc[u]
  BY <1>1 DEF EndBy, PlaceInv
<1>5. t \in Threads => pc' = [pc EXCEPT ![t] = "ending"]
  BY <1>1, <1>4 DEF EndBy, PlaceInv
<1>6. t = Timer => pc' = pc
  BY <1>1, <1>3, <1>4 DEF EndBy, PlaceInv
<1>7. /\ ConnTyped'
      /\ \A d \in Conns : /\ Phase(d)' = (IF d = c THEN "closed" ELSE Phase(d))
                          /\ conns'[d].handle = conns[d].handle
                          /\ conns'[d].by = (IF d = c THEN t ELSE conns[d].by)
                          /\ conns'[d].back = (IF d = c THEN back ELSE conns[d].back)
  <2>1. conns' = [conns EXCEPT ![c] = [@ EXCEPT !.phase = "closed", !.timer = "cancelled",
                                                !.by = t, !.back = back]]
    BY <1>1, <1>2 DEF ConnTyped, Connections
  <2>2. [conns[c] EXCEPT !.phase = "closed", !.timer = "cancelled", !.by = t, !.back = back]
          \in Connections
    <3>1. conns[c] \in Connections /\ "closed" \in Phases
      BY <1>1 DEF ConnTyped, Phases
    <3> QED
      BY <3>1 DEF Connections
  <2>3. ConnTyped'
    BY <1>1, <2>1, <2>2 DEF ConnTyped
  <2> QED
    BY <1>1, <2>1, <2>3 DEF ConnTyped, Connections, Phase
<1>8. /\ ~Living(c)' /\ Phase(c) # "none" /\ Dying(c)' /\ ~Dying(c)
      /\ \A d \in Conns \ {c} : (Living(d)' <=> Living(d)) /\ (Dying(d)' <=> Dying(d))
  BY <1>7 DEF Living, Dying
<1>9. /\ OwnInv' /\ sock' \in [Handles -> Kinds] /\ Open' = Open
      /\ \A h \in Handles : sock'[h] = "accept" <=> sock[h] = "accept"
      /\ \A h \in Handles : sock'[h] = "listen" <=> sock[h] = "listen"
  <2>1. \A u \in Threads : pc'[u] = "insert" <=> pc[u] = "insert"
    BY <1>4
  <2>2. CASE Phase(c) = "failed"
    <3>1. sock' = sock /\ \A u \in Threads : Socket(u)' = Socket(u)
      BY <1>2, <2>2 DEF Socket
    <3>2. \A d \in Conns : Living(d)' <=> Living(d)
      BY <1>8, <2>2 DEF Living
    <3>3. OwnInv'
      BY <1>1, <1>7, <2>1, <3>1, <3>2, OwnSame
    <3> QED
      BY <1>1, <1>2, <3>1, <3>3 DEF ChannelInv, Open
  <2>3. CASE Phase(c) # "failed"
    BY <1>2, <1>7, <1>8, <2>1, <2>3, SocketCloses
  <2> QED
    BY <2>2, <2>3
<1>10. t \in Threads => old[t] = 0 /\ (pc[t] = "startConn" <=> ctx[t] # 0)
  BY <1>1, <1>3 DEF PlaceInv, NoFailure, WithContext
<1>11. Kept
  <2>1. CASE t = Timer
    BY <1>1, <1>2, <1>6, <1>9, <2>1, NoMove
  <2>2. CASE t = App
    <3>1. "ending" \in AppLabels
      BY DEF AppLabels
    <3> QED
      BY <1>1, <1>2, <1>3, <1>5, <1>9, <1>10, <2>2, <3>1, AppKept
  <2>3. CASE t \in Pollers
    <3>1. /\ "ending" \in PollerLabels /\ pc[t] \in {"idle", "startConn", "message"}
          /\ t \in Threads
      BY <1>3, <2>3 DEF PollerLabels, Threads
    <3>2. /\ pc[t] \notin CountedAt /\ "ending" \notin CountedAt \union Ending
          /\ "ending" \notin AfterFailure
      BY <3>1 DEF CountedAt, Ending, AfterFailure
    <3> QED
      BY <1>1, <1>2, <1>3, <1>5, <1>9, <1>10, <2>3, <3>1, <3>2, HoldingMove
  <2> QED
    BY <2>1, <2>2, <2>3 DEF Threads
<1>12. SocketInv'
  <2>1. CASE t = Timer
    <3>1. pc' = [pc EXCEPT ![App] = pc[App]] /\ pc' = pc
      BY <1>1, <1>6, <2>1 DEF PlaceInv
    <3>2. Live' = Live
      BY <1>2, <3>1 DEF Live, HeldBy
    <3> QED
      BY <1>1, <1>2, <1>9, <3>2, SocketsSame
  <2>2. CASE t \in Threads
    <3>1. /\ "ending" \in Handing /\ (pc[t] \in Handing \/ ctx[t] = 0)
          /\ {pc[t], "ending"} \intersect Failed = {}
      BY <1>10, <2>2 DEF Handing, Failed
    <3> QED
      BY <1>1, <1>2, <1>5, <1>9, <2>2, <3>1, HandingMove
  <2> QED
    BY <2>1, <2>2
<1>13. ServingInv'
  <2>1. \A d \in Conns : /\ Phase(d)' = "none" => Phase(d) = "none"
                         /\ conns'[d].handle = conns[d].handle
    BY <1>7
  <2>2. /\ serves' \in [Threads -> Conns \union {None}]
        /\ \A u \in Threads : serves'[u] # None => serves'[u] = serves[u]
        /\ \A u \in Threads : u # t => serves'[u] = serves[u]
    BY <1>1 DEF ServingInv
  <2>3. \A u \in Threads : Socket(u)' = Socket(u)
    BY <1>2 DEF Socket
  <2> QED
    <3>0. \A d \in Conns : Phase(d)' = conns'[d].phase
      BY DEF Phase
    <3>1. ASSUME NEW u \in Threads, serves'[u] # None
          PROVE  /\ u \in Pollers /\ pc'[u] \in Serving \union {"ending"}
                 /\ conns'[serves'[u]].phase # "none"
                 /\ ctx'[u] # 0 => conns'[serves'[u]].handle = Socket(u)'
      <4>1. serves'[u] = serves[u] /\ serves[u] \in Conns /\ ctx' = ctx
        BY <1>1, <1>2, <2>2, <3>1 DEF ServingInv
      <4>2. /\ u \in Pollers /\ pc[u] \in Serving \union {"ending"} /\ Phase(serves[u]) # "none"
            /\ ctx[u] # 0 => conns[serves[u]].handle = Socket(u)
        BY <1>1, <3>1, <4>1 DEF ServingInv
      <4> QED
        BY <1>4, <2>1, <2>3, <3>0, <4>1, <4>2
    <3>2. \A u \in Threads : pc'[u] \in Serving => serves'[u] # None
      BY <1>1, <1>4, <2>2 DEF ServingInv, Serving
    <3> QED
      BY <2>2, <3>1, <3>2 DEF ServingInv, Phase
<1>14. EndingInv'
  <2>1. EndingInv /\ \A d \in Conns : Dying(d) => conns[d].by # t
    BY <1>1 DEF ConnInv, EndingInv
  <2>2. \A u \in Threads : u # t => serves'[u] = serves[u]
    BY <1>1 DEF ServingInv
  <2>3. ASSUME NEW d \in Conns, NEW u \in Threads, Dying(d)', conns'[d].by = u
        PROVE  pc'[u] = "ending" /\ BackAt(u, conns[d].back)'
    <3>1. CASE d = c
      BY <1>4, <1>7, <2>3, <3>1 DEF BackAt
    <3>2. CASE d # c
      <4>1. Dying(d) /\ conns[d].by = u /\ conns'[d].back = conns[d].back
        BY <1>7, <1>8, <2>3, <3>2
      <4>2. u # t /\ pc[u] = "ending" /\ BackAt(u, conns[d].back)
        BY <2>1, <4>1 DEF EndingInv
      <4> QED
        BY <1>2, <1>4, <2>2, <4>1, <4>2 DEF BackAt
    <3> QED
      BY <3>1, <3>2
  <2>4. \A d, e \in Conns : Dying(d)' /\ Dying(e)' /\ conns'[d].by = conns'[e].by => d = e
    BY <1>7, <1>8, <2>1 DEF EndingInv
  <2> QED
    BY <2>3, <2>4 DEF EndingInv
<1>15. RunInv'
  BY <1>1, <1>2, <1>3, <1>4, <1>9 DEF ConnInv, RunInv
<1> QED
  BY <1>1, <1>2, <1>7, <1>9, <1>11, <1>12, <1>13, <1>14, <1>15, FromKept DEF ServerInv, ConnInv

\* Connections go on to other phases and no thread moves.
LEMMA PhasesServer ==
  ASSUME ServerInv, ConnTyped',
         UNCHANGED <<poolVars, acceptHandle, pc, ctx, old, listenHandle, channel, ioCount, posted>>,
         UNCHANGED sockExVars, UNCHANGED <<sock, serves>>,
         \A c \in Conns : /\ Living(c)' <=> Living(c)
                          /\ Dying(c)' <=> Dying(c)
                          /\ Phase(c)' = "none" <=> Phase(c) = "none"
                          /\ conns'[c].handle = conns[c].handle
                          /\ conns'[c].by = conns[c].by /\ conns'[c].back = conns[c].back
  PROVE  ServerInv'
<1>1. IInv /\ SocketInv /\ ConnInv /\ ChannelInv /\ PlaceInv /\ ServingInv /\ OwnInv
  BY DEF ServerInv, IInv, ConnInv
<1>2. Kept
  BY <1>1, NoMove DEF ChannelInv, Open
<1>3. SocketInv'
  <2>1. Live' = Live
    BY DEF Live, HeldBy
  <2> QED
    BY <1>1, <2>1, SocketsSame
<1>4. \A u \in Threads : Socket(u)' = Socket(u)
  BY DEF Socket
<1>5. ServingInv'
  BY <1>1, <1>4 DEF ServingInv
<1>6. OwnInv'
  BY <1>1, <1>4, OwnSame
<1>7. EndingInv' /\ RunInv'
  BY <1>1 DEF ConnInv, EndingInv, BackAt, RunInv, Open
<1> QED
  BY <1>1, <1>2, <1>3, <1>5, <1>6, <1>7, FromKept DEF ServerInv, ConnInv

LEMMA EraseServer ==
  ASSUME ServerInv, NEW c \in Conns, Erase(c)
  PROVE  ServerInv'
<1>1. ConnTyped /\ "erased" \in Phases /\ Becomes(c, "erased") /\ Phase(c) = "closed"
  BY DEF ServerInv, ConnInv, Erase, Phases
<1>2. /\ UNCHANGED <<poolVars, acceptHandle, pc, ctx, old, listenHandle, channel, ioCount, posted>>
      /\ UNCHANGED sockExVars /\ UNCHANGED <<sock, serves>> /\ UNCHANGED <<how, batch, stopped>>
  BY DEF Erase, acceptorVars, objectVars, poolVars, threadVars, kernelVars, endVars
<1>3. table' \in [Handles -> Conns \union {None}] /\ batch' \subseteq Conns
  BY <1>1, <1>2 DEF Erase, EraseEntry, ConnTyped
<1>4. /\ ConnTyped'
      /\ \A d \in Conns : /\ Phase(d)' = (IF d = c THEN "erased" ELSE Phase(d))
                          /\ conns'[d].handle = conns[d].handle
                          /\ conns'[d].by = conns[d].by /\ conns'[d].back = conns[d].back
  BY <1>1, <1>2, <1>3, PhaseSet
<1>5. \A d \in Conns : /\ Living(d)' <=> Living(d)
                       /\ Dying(d)' <=> Dying(d)
                       /\ Phase(d)' = "none" <=> Phase(d) = "none"
  BY <1>1, <1>4 DEF Living, Dying
<1> QED
  BY <1>2, <1>4, <1>5, PhasesServer

LEMMA LateSuccessServer ==
  ASSUME ServerInv, LateSuccess
  PROVE  ServerInv'
<1>1. PICK c \in Conns : Phase(c) = "cancelled" /\ Becomes(c, "stuck")
  BY DEF LateSuccess
<1>2. ConnTyped /\ "stuck" \in Phases
  BY DEF ServerInv, ConnInv, Phases
<1>3. /\ UNCHANGED <<poolVars, acceptHandle, pc, ctx, old, listenHandle, channel, ioCount, posted>>
      /\ UNCHANGED sockExVars /\ UNCHANGED <<sock, serves>> /\ UNCHANGED <<how, batch, stopped>>
      /\ table' = table
  BY DEF LateSuccess, acceptorVars, objectVars, poolVars, threadVars, kernelVars, endVars
<1>4. table' \in [Handles -> Conns \union {None}] /\ batch' \subseteq Conns
  BY <1>2, <1>3 DEF ConnTyped
<1>5. /\ ConnTyped'
      /\ \A d \in Conns : /\ Phase(d)' = (IF d = c THEN "stuck" ELSE Phase(d))
                          /\ conns'[d].handle = conns[d].handle
                          /\ conns'[d].by = conns[d].by /\ conns'[d].back = conns[d].back
  BY <1>1, <1>2, <1>3, <1>4, PhaseSet
<1>6. \A d \in Conns : /\ Living(d)' <=> Living(d)
                       /\ Dying(d)' <=> Dying(d)
                       /\ Phase(d)' = "none" <=> Phase(d) = "none"
  BY <1>1, <1>5 DEF Living, Dying
<1> QED
  BY <1>3, <1>5, <1>6, PhasesServer

\* What leaves the owners of sockets and the threads that end connections as they are.
OwnersSame ==
  \A c \in Conns : /\ Living(c)' <=> Living(c)
                   /\ Dying(c)' <=> Dying(c)
                   /\ Phase(c)' = "none" <=> Phase(c) = "none"
                   /\ conns'[c].handle = conns[c].handle
                   /\ conns'[c].by = conns[c].by /\ conns'[c].back = conns[c].back

LEMMA CancelSame ==
  ASSUME ConnTyped, NEW c \in Conns, Phase(c) \in {"up", "busy"}, Cancel(c),
         UNCHANGED <<how, stopped>>, batch' \subseteq Conns
  PROVE  ConnTyped' /\ OwnersSame
<1>1. /\ "cancelled" \in Phases /\ table' \in [Handles -> Conns \union {None}]
      /\ conns' = [conns EXCEPT ![c].phase = "cancelled", ![c].timer = "cancelled"]
  BY DEF Phases, ConnTyped, Cancel
<1>2. /\ ConnTyped'
      /\ \A d \in Conns : /\ Phase(d)' = (IF d = c THEN "cancelled" ELSE Phase(d))
                          /\ conns'[d].handle = conns[d].handle
                          /\ conns'[d].by = conns[d].by /\ conns'[d].back = conns[d].back
  BY <1>1, PhaseSet
<1> QED
  BY <1>2 DEF OwnersSame, Living, Dying

LEMMA CancelServer ==
  ASSUME ServerInv, NEW c \in Conns, Phase(c) \in {"up", "busy"}, Cancel(c),
         UNCHANGED <<sock, threadVars>>,
         Quiet, UNCHANGED <<serves, how, stopped>>, batch' \subseteq Conns
  PROVE  ServerInv'
<1>1. /\ UNCHANGED <<poolVars, acceptHandle, pc, ctx, old, listenHandle, channel, ioCount, posted>>
      /\ UNCHANGED sockExVars /\ UNCHANGED <<sock, serves>> /\ ConnTyped
  BY DEF Quiet, objectVars, poolVars, threadVars, ServerInv, ConnInv
<1> QED
  BY <1>1, CancelSame, PhasesServer DEF OwnersSame

\* cleanup_() on a thread that is not handling an operation of the connection.
LEMMA CleanupServer ==
  ASSUME ServerInv, NEW t \in Threads \union {Timer}, NEW c \in Conns, NEW back \in Labels,
         Cleanup(t, c, back),
         t \in Threads => /\ pc[t] \in IF t = App THEN {"each", "serving"}
                                                 ELSE {"idle", "startConn", "message"}
                          /\ BackAt(t, back)',
         t = Timer => \A d \in Conns : Dying(d) => conns[d].by # Timer,
         Quiet, UNCHANGED <<serves, how, stopped>>, batch' \subseteq Conns
  PROVE  ServerInv'
<1>1. CASE /\ Phase(c) \in {"new", "busy", "failed"} /\ EndBy(t, c, back) /\ UNCHANGED table
  <2>1. Living(c) \/ Phase(c) = "failed"
    BY <1>1 DEF Living
  <2> QED
    BY <1>1, <2>1, EndServer
<1>2. CASE Phase(c) \in {"up", "busy"} /\ Cancel(c) /\ UNCHANGED <<sock, threadVars>>
  BY <1>2, CancelServer
<1> QED
  BY <1>1, <1>2 DEF Cleanup

\* close(), of whatever connection.
LEMMA CloseConnServer ==
  ASSUME ServerInv, NEW t \in Threads, NEW c \in Conns, NEW back \in Labels,
         CloseConn(t, c, back),
         pc[t] \in IF t = App THEN {"each", "serving"} ELSE {"idle", "startConn", "message"},
         BackAt(t, back),
         Quiet, UNCHANGED <<serves, how, stopped>>, batch' \subseteq Conns
  PROVE  ServerInv'
<1>1. t # Timer /\ ConnTyped
  BY ThreadsKnown DEF ServerInv, ConnInv
<1>2. CASE Cleanup(t, c, back)
  <2>1. ctx' = ctx
    BY <1>2 DEF Cleanup, EndBy, threadVars
  <2>2. BackAt(t, back)'
    BY <2>1 DEF BackAt
  <2> QED
    BY <1>1, <1>2, <2>2, CleanupServer
<1>3. CASE UNCHANGED <<conns, table, sock, threadVars>>
  <2>1. /\ UNCHANGED <<poolVars, acceptHandle, pc, ctx, old, listenHandle, channel, ioCount, posted>>
        /\ UNCHANGED sockExVars /\ UNCHANGED <<sock, serves>> /\ UNCHANGED <<conns, table>>
    BY <1>3 DEF Quiet, objectVars, poolVars, threadVars
  <2>2. ConnTyped'
    BY <1>1, <2>1 DEF ConnTyped
  <2> QED
    BY <2>1, <2>2, PhasesServer DEF Living, Dying, Phase
<1> QED
  BY <1>2, <1>3 DEF CloseConn

\* shutdown() of a connection.
LEMMA DrainServer ==
  ASSUME ServerInv, NEW c \in Conns, Drain(c),
         UNCHANGED acceptorVars, UNCHANGED <<table, serves, how, stopped>>, batch' \subseteq Conns
  PROVE  ServerInv'
<1>1. /\ UNCHANGED <<poolVars, acceptHandle, pc, ctx, old, listenHandle, channel, ioCount, posted>>
      /\ UNCHANGED sockExVars /\ UNCHANGED <<sock, serves>>
      /\ ConnTyped /\ Phase(c) \in Phases /\ table' \in [Handles -> Conns \union {None}]
  BY DEF acceptorVars, objectVars, poolVars, threadVars, kernelVars, ServerInv, ConnInv, ConnTyped,
     Connections, Phase
<1>2. CASE conns' = [conns EXCEPT ![c].down = TRUE, ![c].timer = "armed"]
  <2>1. /\ ConnTyped'
        /\ \A d \in Conns : /\ Phase(d)' = (IF d = c THEN Phase(c) ELSE Phase(d))
                            /\ conns'[d].handle = conns[d].handle
                            /\ conns'[d].by = conns[d].by /\ conns'[d].back = conns[d].back
    BY <1>1, <1>2, PhaseSet
  <2>2. OwnersSame
    BY <2>1 DEF OwnersSame, Living, Dying
  <2> QED
    BY <1>1, <2>1, <2>2, PhasesServer DEF OwnersSame
<1>3. CASE UNCHANGED conns
  <2>1. ConnTyped'
    BY <1>1, <1>3 DEF ConnTyped
  <2> QED
    BY <1>1, <1>3, <2>1, PhasesServer DEF Living, Dying, Phase
<1> QED
  BY <1>2, <1>3 DEF Drain

-----------------------------------------------------------------------------
\* Messages.

\* A poll takes up a connection or lays it down.
LEMMA ServesServer ==
  ASSUME ServerInv, NEW t \in Pollers, NEW to \in {"idle", "message"},
         NEW x \in Conns \union {None}, pc[t] \in {"idle", "message"}, pc[App] # "idle",
         Go(t, to), Quiet, sock' = sock, serves' = [serves EXCEPT ![t] = x],
         x # None <=> to = "message", x # None => Phase(x) # "none",
         ConnTyped', OwnersSame
  PROVE  ServerInv'
<1>1. IInv /\ SocketInv /\ ConnInv /\ ChannelInv /\ PlaceInv /\ ServingInv /\ OwnInv
  BY DEF ServerInv, IInv, ConnInv
<1>2. /\ pc' = [pc EXCEPT ![t] = to] /\ UNCHANGED sockExVars
      /\ UNCHANGED <<poolVars, acceptHandle, ctx, old, listenHandle, channel, ioCount, posted>>
  BY DEF Go, Quiet, objectVars, poolVars
<1>3. t \in Threads /\ t # App /\ App \in Threads /\ ctx[t] = 0 /\ old[t] = 0
  BY <1>1, ThreadsKnown DEF PlaceInv, WithContext, NoFailure
<1>4. \A u \in Threads : /\ pc'[u] = (IF u = t THEN to ELSE pc[u])
                         /\ serves'[u] = (IF u = t THEN x ELSE serves[u])
                         /\ Socket(u)' = Socket(u)
  BY <1>1, <1>2 DEF PlaceInv, ServingInv, Socket
<1>5. sock' \in [Handles -> Kinds] /\ Open' = Open
  BY <1>1, <1>2 DEF ChannelInv, Open
<1>6. Kept
  <2>1. to \in PollerLabels /\ to \notin WithContext
    BY DEF PollerLabels, WithContext
  <2>2. /\ pc[t] \notin CountedAt /\ to \notin CountedAt \union Ending /\ to \notin AfterFailure
    BY DEF CountedAt, Ending, AfterFailure
  <2> QED
    BY <1>1, <1>2, <1>3, <1>5, <2>1, <2>2, HoldingMove
<1>7. SocketInv'
  <2>1. {pc[t], to} \intersect Failed = {}
    BY DEF Failed
  <2> QED
    BY <1>1, <1>2, <1>3, <2>1, HandingMove
<1>8. ServingInv'
  <2>1. serves' \in [Threads -> Conns \union {None}]
    BY <1>1 DEF ServingInv
  <2> QED
    BY <1>1, <1>2, <1>3, <1>4, <2>1 DEF ServingInv, Serving, OwnersSame
<1>9. OwnInv'
  BY <1>1, <1>4, OwnSame DEF OwnersSame
<1>10. EndingInv' /\ RunInv'
  <2>1. \A d \in Conns, u \in Threads : Dying(d) /\ conns[d].by = u => u # t
    BY <1>1 DEF ConnInv, EndingInv
  <2>2. EndingInv'
    BY <1>1, <1>2, <1>4, <2>1 DEF ConnInv, EndingInv, BackAt, OwnersSame
  <2>3. RunInv'
    BY <1>1, <1>2, <1>3, <1>4, <1>5 DEF ConnInv, RunInv
  <2> QED
    BY <2>2, <2>3
<1> QED
  BY <1>1, <1>2, <1>6, <1>7, <1>8, <1>9, <1>10, FromKept DEF ServerInv, ConnInv

LEMMA MessageArrivesServer ==
  ASSUME ServerInv, NEW t \in Threads, MessageArrives(t)
  PROVE  ServerInv'
<1>1. PICK c \in Conns :
        Phase(c) = "up" /\ Becomes(c, "busy") /\ serves' = [serves EXCEPT ![t] = c]
  BY DEF MessageArrives
<1>2. /\ t \in Pollers /\ pc[t] = "idle" /\ Go(t, "message") /\ Quiet
      /\ UNCHANGED <<sock, table, how, batch, stopped>>
  BY DEF MessageArrives, Dequeues, At, endVars
<1>3. ConnTyped /\ ConnInv
  BY DEF ServerInv, ConnInv
<1>4. /\ "busy" \in Phases /\ batch' \subseteq Conns
      /\ table' \in [Handles -> Conns \union {None}] /\ c # None /\ pc[App] # "idle"
  BY <1>1, <1>2, <1>3 DEF Phases, ConnTyped, Conns, None, ConnInv, RunInv
<1>5. /\ ConnTyped'
      /\ \A d \in Conns : /\ Phase(d)' = (IF d = c THEN "busy" ELSE Phase(d))
                          /\ conns'[d].handle = conns[d].handle
                          /\ conns'[d].by = conns[d].by /\ conns'[d].back = conns[d].back
  BY <1>1, <1>2, <1>3, <1>4, PhaseSet
<1>6. OwnersSame
  BY <1>1, <1>5 DEF OwnersSame, Living, Dying
<1> QED
  BY <1>1, <1>2, <1>4, <1>5, <1>6, ServesServer

LEMMA EndMessageServer ==
  ASSUME ServerInv, NEW t \in Threads, EndMessage(t)
  PROVE  ServerInv'
<1>1. /\ pc[t] = "message" /\ serves' = [serves EXCEPT ![t] = None] /\ Quiet
      /\ UNCHANGED <<table, how, batch, stopped>>
  BY DEF EndMessage, At, endVars
<1>2. ConnTyped /\ ServingInv /\ PlaceInv /\ ChannelInv
  BY DEF ServerInv, ConnInv, IInv
<1>3. /\ t \in Pollers /\ t # App /\ t # Timer /\ serves[t] \in Conns /\ ctx[t] = 0
      /\ batch' \subseteq Conns /\ pc[App] # "idle"
      /\ table' \in [Handles -> Conns \union {None}]
  BY <1>1, <1>2, ThreadsKnown, Started
     DEF ServingInv, Serving, ConnTyped, PlaceInv, AppLabels, WithContext, Threads
<1>4. CASE ReadsOn(t) \/ EndedMeanwhile(t) \/ (/\ Phase(serves[t]) = "busy"
                                              /\ Cancel(serves[t]) /\ Go(t, "idle") /\ UNCHANGED sock)
  <2>1. Go(t, "idle") /\ sock' = sock
    BY <1>4 DEF ReadsOn, EndedMeanwhile
  <2>2. ConnTyped' /\ OwnersSame
    <3>1. CASE ReadsOn(t)
      <4>1. "up" \in Phases /\ Becomes(serves[t], "up") /\ Phase(serves[t]) = "busy"
        BY <3>1 DEF ReadsOn, Phases
      <4>2. /\ ConnTyped'
            /\ \A d \in Conns : /\ Phase(d)' = (IF d = serves[t] THEN "up" ELSE Phase(d))
                                /\ conns'[d].handle = conns[d].handle
                                /\ conns'[d].by = conns[d].by /\ conns'[d].back = conns[d].back
        BY <1>1, <1>2, <1>3, <4>1, PhaseSet
      <4> QED
        BY <4>1, <4>2 DEF OwnersSame, Living, Dying
    <3>2. CASE EndedMeanwhile(t)
      <4>1. conns' = conns
        BY <3>2 DEF EndedMeanwhile
      <4> QED
        BY <1>1, <1>2, <1>3, <4>1 DEF OwnersSame, Living, Dying, Phase, ConnTyped
    <3>3. CASE Phase(serves[t]) = "busy" /\ Cancel(serves[t])
      BY <1>1, <1>2, <1>3, <3>3, CancelSame
    <3> QED
      BY <1>4, <3>1, <3>2, <3>3
  <2> QED
    BY <1>1, <1>3, <2>1, <2>2, ServesServer DEF Conns, None
<1>5. CASE Phase(serves[t]) = "busy" /\ EndBy(t, serves[t], "idle")
  <2>1. Living(serves[t]) /\ "idle" \in Labels /\ ctx' = ctx
    BY <1>5 DEF Living, Labels, AppLabels, EndBy
  <2>2. BackAt(t, "idle")'
    <3>1. serves'[t] = None
      BY <1>1, <1>2, <1>3 DEF ServingInv, Threads
    <3> QED
      BY <1>3, <2>1, <3>1 DEF BackAt
  <2> QED
    BY <1>1, <1>3, <1>5, <2>1, <2>2, EndServer
<1> QED
  BY <1>4, <1>5 DEF EndMessage, EndsAfter

\* do_cleanup_() returns, and the thread goes back to what it was doing.
LEMMA TellServer ==
  ASSUME ServerInv, NEW c \in Conns, Tell(c)
  PROVE  ServerInv'
<1>1. IInv /\ SocketInv /\ ConnInv /\ ChannelInv /\ PlaceInv /\ ServingInv /\ OwnInv /\ ConnTyped
  BY DEF ServerInv, IInv, ConnInv
<1> DEFINE t == conns[c].by
           to == conns[c].back
<1>2. /\ UNCHANGED <<poolVars, acceptHandle, ctx, old, listenHandle, channel, ioCount, posted>>
      /\ UNCHANGED sockExVars /\ UNCHANGED <<sock, serves, table>> /\ UNCHANGED <<how, batch, stopped>>
      /\ Becomes(c, "told") /\ Phase(c) = "erased" /\ t \in Threads \union {Timer}
  BY <1>1 DEF Tell, Quiet, objectVars, poolVars, endVars, ConnTyped, Connections
<1>3. /\ ConnTyped'
      /\ \A d \in Conns : /\ Phase(d)' = (IF d = c THEN "told" ELSE Phase(d))
                          /\ conns'[d].handle = conns[d].handle
                          /\ conns'[d].by = conns[d].by /\ conns'[d].back = conns[d].back
  <2>1. /\ "told" \in Phases /\ table' \in [Handles -> Conns \union {None}]
        /\ batch' \subseteq Conns
    BY <1>1, <1>2 DEF Phases, ConnTyped
  <2> QED
    BY <1>1, <1>2, <2>1, PhaseSet
<1>4. /\ \A d \in Conns : /\ Living(d)' <=> Living(d)
                          /\ Phase(d)' = "none" <=> Phase(d) = "none"
                          /\ Dying(d)' <=> Dying(d) /\ d # c
      /\ Dying(c)
  BY <1>2, <1>3 DEF Living, Dying
<1>5. App \in Threads /\ App \notin Pollers /\ Timer \notin Threads /\ pc[App] # "idle"
  BY <1>1, <1>2, ThreadsKnown DEF ConnInv, RunInv
<1>6. t \in Threads => pc[t] = "ending" /\ old[t] = 0 /\ BackAt(t, to)
  BY <1>1, <1>4 DEF ConnInv, EndingInv, PlaceInv, NoFailure
<1>7. \A u \in Threads : pc'[u] = IF u = t THEN to ELSE pc[u]
  BY DEF Tell
<1>8. t \in Threads => pc' = [pc EXCEPT ![t] = to]
  BY <1>1, <1>7 DEF Tell, PlaceInv
<1>9. t = Timer => pc' = pc
  BY <1>1, <1>5 DEF Tell, PlaceInv
<1>10. sock' \in [Handles -> Kinds] /\ Open' = Open
  BY <1>1, <1>2 DEF ChannelInv, Open
<1>11. serves[App] = None
  BY <1>1, <1>5 DEF ServingInv
<1>12. t \in Threads =>
         /\ to \in {"each", "serving", "startConn", "message", "idle"}
         /\ t = App => ctx[t] = 0 /\ to \in {"each", "serving"}
         /\ t # App => to \in {"startConn", "message", "idle"}
         /\ ctx[t] # 0 <=> to = "startConn"
         /\ serves[t] # None <=> to \in {"startConn", "message"}
  BY <1>6, <1>11 DEF BackAt
<1> HIDE DEF t, to
<1>13. Kept
  <2>1. CASE t = Timer
    BY <1>1, <1>2, <1>9, <1>10, <2>1, NoMove
  <2>2. CASE t = App
    <3>1. to \in AppLabels /\ to \notin {"idle", "acceptEx"} /\ ctx[App] = 0
      BY <1>5, <1>12, <2>2 DEF AppLabels
    <3> QED
      BY <1>1, <1>2, <1>5, <1>6, <1>8, <1>10, <2>2, <3>1, AppKept
  <2>3. CASE t \in Pollers
    <3>1. to \in PollerLabels /\ t \in Threads /\ (ctx[t] # 0 <=> to \in WithContext)
      BY <1>5, <1>6, <1>12, <2>3 DEF PollerLabels, Threads, WithContext
    <3>2. /\ pc[t] \notin CountedAt /\ to \notin CountedAt \union Ending
          /\ to \notin AfterFailure /\ pc[t] # "idle"
      BY <1>6, <1>12, <3>1 DEF CountedAt, Ending, AfterFailure
    <3> QED
      BY <1>1, <1>2, <1>6, <1>8, <1>10, <2>3, <3>1, <3>2, HoldingMove
  <2> QED
    BY <1>2, <2>1, <2>2, <2>3 DEF Threads
<1>14. SocketInv'
  <2>1. CASE t = Timer
    <3>1. Live' = Live
      BY <1>2, <1>9, <2>1 DEF Live, HeldBy
    <3> QED
      BY <1>1, <1>2, <3>1, SocketsSame
  <2>2. CASE t \in Threads
    <3>1. /\ pc[t] \in Handing /\ (to \in Handing \/ ctx[t] = 0)
          /\ {pc[t], to} \intersect Failed = {}
      BY <1>6, <1>11, <1>12, <2>2 DEF Handing, Failed
    <3> QED
      BY <1>1, <1>2, <1>8, <2>2, <3>1, HandingMove
  <2> QED
    BY <1>2, <2>1, <2>2
<1>15. \A u \in Threads : Socket(u)' = Socket(u)
  BY <1>2 DEF Socket
<1>16. ServingInv'
  <2>1. CASE t = Timer
    BY <1>1, <1>2, <1>3, <1>4, <1>9, <1>15, <2>1 DEF ServingInv
  <2>2. CASE t \in Threads
    <3>1. serves[t] # None => to \in Serving \union {"ending"}
      BY <1>12, <2>2 DEF Serving
    <3>2. to \in Serving => serves[t] # None
      BY <1>12, <2>2 DEF Serving
    <3> QED
      BY <1>1, <1>2, <1>3, <1>4, <1>8, <2>2, <3>1, <3>2, ServingMove
  <2> QED
    BY <1>2, <2>1, <2>2
<1>17. OwnInv'
  <2>1. \A u \in Threads : pc'[u] = "insert" <=> pc[u] = "insert"
    BY <1>6, <1>7, <1>12
  <2> QED
    BY <1>1, <1>2, <1>3, <1>4, <1>15, <2>1, OwnSame
<1>18. EndingInv'
  <2>1. \A d \in Conns : Dying(d)' => Dying(d) /\ conns[d].by # t
    BY <1>1, <1>4 DEF ConnInv, EndingInv, t
  <2> QED
    BY <1>1, <1>2, <1>3, <1>7, <2>1 DEF ConnInv, EndingInv, BackAt
<1>19. RunInv'
  BY <1>1, <1>2, <1>5, <1>7, <1>10, <1>12 DEF ConnInv, RunInv
<1> QED
  BY <1>1, <1>2, <1>3, <1>13, <1>14, <1>16, <1>17, <1>18, <1>19, FromKept DEF ServerInv, ConnInv

LEMMA UserClosesServer ==
  ASSUME ServerInv, NEW t \in Threads, UserCloses(t)
  PROVE  ServerInv'
<1>1. PICK c \in Conns : UserMay("close", t, c) /\ CloseConn(t, c, pc[t])
  BY DEF UserCloses
<1>2. Quiet /\ UNCHANGED <<serves, how, batch, stopped>>
  BY DEF UserCloses, endVars
<1>3. ServingInv /\ PlaceInv /\ ConnTyped
  BY DEF ServerInv, ConnInv, IInv
<1>4. pc[t] \in {"startConn", "message"} \/ (t = App /\ pc[t] = "serving")
  BY <1>1 DEF UserMay, InCallback, At
<1>5. /\ pc[t] \in IF t = App THEN {"each", "serving"} ELSE {"idle", "startConn", "message"}
      /\ BackAt(t, pc[t]) /\ pc[t] \in Labels /\ batch' \subseteq Conns
  <2>1. CASE t = App
    BY <1>2, <1>3, <1>4, <2>1, ThreadsKnown
       DEF BackAt, ServingInv, PlaceInv, WithContext, AppLabels, Labels, ConnTyped
  <2>2. CASE t # App
    BY <1>2, <1>3, <1>4, <2>2
       DEF BackAt, ServingInv, Serving, PlaceInv, WithContext, PollerLabels, Labels, ConnTyped
  <2> QED
    BY <2>1, <2>2
<1> QED
  BY <1>1, <1>2, <1>5, CloseConnServer

LEMMA UserDrainsServer ==
  ASSUME ServerInv, NEW t \in Threads, UserDrains(t)
  PROVE  ServerInv'
<1>1. PICK c \in Conns : Drain(c)
  BY DEF UserDrains
<1>2. /\ UNCHANGED acceptorVars /\ UNCHANGED <<table, serves, how, stopped>>
      /\ batch' \subseteq Conns
  BY DEF UserDrains, endVars, ServerInv, ConnInv, ConnTyped
<1> QED
  BY <1>1, <1>2, DrainServer

LEMMA ReadEndsServer ==
  ASSUME ServerInv, NEW t \in Threads, ReadEnds(t)
  PROVE  ServerInv'
<1>1. /\ t \in Pollers /\ pc[t] = "idle" /\ Quiet
      /\ UNCHANGED <<serves, how, stopped>> /\ UNCHANGED batch
  BY DEF ReadEnds, Dequeues, At, endVars
<1>2. PICK c \in Conns :
        \/ Phase(c) \in {"up", "busy", "cancelled"} /\ EndBy(t, c, "idle") /\ UNCHANGED table
        \/ Phase(c) = "up" /\ Cancel(c) /\ UNCHANGED <<sock, threadVars>>
  BY DEF ReadEnds
<1>3. /\ t # App /\ t # Timer /\ Living(c) /\ batch' \subseteq Conns
      /\ ServingInv /\ PlaceInv /\ "idle" \in Labels
  BY <1>1, <1>2, ThreadsKnown DEF ServerInv, ConnInv, IInv, ConnTyped, Living, Labels, AppLabels
<1>4. CASE EndBy(t, c, "idle") /\ UNCHANGED table
  <2>1. ctx' = ctx /\ ctx[t] = 0 /\ serves[t] = None
    BY <1>1, <1>3, <1>4 DEF EndBy, PlaceInv, WithContext, ServingInv, Serving
  <2>2. BackAt(t, "idle")'
    BY <1>1, <1>3, <2>1 DEF BackAt
  <2> QED
    BY <1>1, <1>3, <1>4, <2>2, EndServer
<1> QED
  BY <1>1, <1>2, <1>3, <1>4, CancelServer

LEMMA TimerFiresServer ==
  ASSUME ServerInv, TimerFires
  PROVE  ServerInv'
<1>1. PICK c \in Conns :
        \/ Cleanup(Timer, c, "idle")
        \/ /\ Phase(c) = "failed" /\ conns' = [conns EXCEPT ![c].timer = "cancelled"]
           /\ UNCHANGED <<table, sock, threadVars>>
  BY DEF TimerFires
<1>2. /\ \A d \in Conns : Dying(d) => conns[d].by # Timer
      /\ Quiet /\ UNCHANGED <<serves, how, stopped>> /\ UNCHANGED batch
  BY DEF TimerFires, Dying, endVars
<1>3. /\ Timer \notin Threads /\ batch' \subseteq Conns /\ "idle" \in Labels
      /\ ConnTyped /\ Phase(c) \in Phases
  BY <1>2, ThreadsKnown DEF ServerInv, ConnInv, ConnTyped, Connections, Phase, Labels, AppLabels
<1>4. CASE /\ Phase(c) = "failed" /\ conns' = [conns EXCEPT ![c].timer = "cancelled"]
           /\ UNCHANGED <<table, sock, threadVars>>
  <2>1. /\ UNCHANGED <<poolVars, acceptHandle, pc, ctx, old, listenHandle, channel, ioCount, posted>>
        /\ UNCHANGED sockExVars /\ UNCHANGED <<sock, serves>>
        /\ table' \in [Handles -> Conns \union {None}]
    BY <1>2, <1>3, <1>4 DEF Quiet, objectVars, poolVars, threadVars, ConnTyped
  <2>2. /\ ConnTyped'
        /\ \A d \in Conns : /\ Phase(d)' = (IF d = c THEN Phase(c) ELSE Phase(d))
                            /\ conns'[d].handle = conns[d].handle
                            /\ conns'[d].by = conns[d].by /\ conns'[d].back = conns[d].back
    BY <1>2, <1>3, <1>4, <2>1, PhaseSet
  <2>3. OwnersSame
    BY <2>2 DEF OwnersSame, Living, Dying
  <2> QED
    BY <2>1, <2>2, <2>3, PhasesServer DEF OwnersSame
<1> QED
  BY <1>1, <1>2, <1>3, <1>4, CleanupServer

-----------------------------------------------------------------------------
\* The thread App.

\* It goes on with nothing in hand, and gives or takes no socket but the listening one.
LEMMA AppServer ==
  ASSUME ServerInv, Kept, UNCHANGED sockExVars, NEW to, pc' = [pc EXCEPT ![App] = to],
         pc[App] \notin Failed \union Handing, to \notin Failed \union Handing, to # "idle",
         UNCHANGED <<ctx, old, posted, acceptHandle>>, UNCHANGED <<conns, serves>>, ConnTyped',
         \A h \in Handles : sock'[h] = "conn" <=> sock[h] = "conn",
         \A h \in Handles : sock'[h] = "accept" <=> sock[h] = "accept",
         listenHandle' # 0 => Open'
  PROVE  ServerInv'
<1>1. IInv /\ SocketInv /\ ConnInv /\ PlaceInv /\ PoolInv
  BY DEF ServerInv, IInv
<1>2. SocketInv'
  BY <1>1, AppLive, SocketsSame
<1>3. \A u \in Threads : pc'[u] = IF u = App THEN to ELSE pc[u]
  BY <1>1 DEF PlaceInv
<1>4. /\ \A u \in Threads : pc[u] \in Handing =>
           pc'[u] = pc[u] /\ ctx'[u] = ctx[u] /\ (ctx[u] # 0 => Socket(u)' = Socket(u))
      /\ \A u \in Threads : pc[u] = "insert" => ctx[u] # 0
      /\ \A u \in Threads : pc'[u] \in Handing => pc[u] \in Handing
      /\ pc'[App] # "idle"
  BY <1>1, <1>3, ThreadsKnown DEF Socket, PlaceInv, WithContext
<1>5. ConnInv'
  BY <1>1, <1>4, ConnsKept
<1> QED
  BY <1>1, <1>2, <1>5, FromKept DEF ServerInv

\* It goes on with nothing else but the table and what is its own.
LEMMA AppOnServer ==
  ASSUME ServerInv, NEW to \in {"each", "wait", "clear", "collect", "stopPolls", "down"},
         pc[App] \in {"collect", "each", "wait", "clear", "stopPolls"}, Go(App, to), Quiet,
         UNCHANGED <<sock, conns, serves>>, ConnTyped'
  PROVE  ServerInv'
<1>1. IInv /\ ConnInv /\ PlaceInv /\ ChannelInv
  BY DEF ServerInv, IInv
<1>2. /\ UNCHANGED <<poolVars, acceptHandle, ctx, old, listenHandle, channel, ioCount, posted>>
      /\ UNCHANGED sockExVars /\ pc' = [pc EXCEPT ![App] = to]
  BY DEF Go, Quiet, objectVars, poolVars
<1>3. to \in AppLabels /\ ctx[App] = 0
  BY <1>1, ThreadsFinite DEF AppLabels, PlaceInv, WithContext
<1>4. sock' \in [Handles -> Kinds] /\ Open' = Open
  BY <1>1, <1>2 DEF ChannelInv, Open
<1>5. Kept
  BY <1>1, <1>2, <1>3, <1>4, AppKept
<1>6. pc[App] \notin Failed \union Handing /\ to \notin Failed \union Handing
  BY DEF Failed, Handing
<1>7. listenHandle' # 0 => Open'
  BY <1>1, <1>2, <1>4 DEF ConnInv, RunInv
<1> QED
  BY <1>2, <1>5, <1>6, <1>7, AppServer

LEMMA DrainEachServer ==
  ASSUME ServerInv, DrainEach
  PROVE  ServerInv'
<1>1. PICK c \in batch : batch' = batch \ {c} /\ Drain(c)
  BY DEF DrainEach
<1>2. c \in Conns /\ batch' \subseteq Conns
  BY <1>1 DEF ServerInv, ConnInv, ConnTyped
<1> QED
  BY <1>1, <1>2, DrainServer DEF DrainEach

LEMMA CloseEachServer ==
  ASSUME ServerInv, CloseEach
  PROVE  ServerInv'
<1>1. PICK c \in batch : batch' = batch \ {c} /\ CloseConn(App, c, "each")
  BY DEF CloseEach
<1>2. /\ pc[App] = "each" /\ Quiet /\ UNCHANGED <<serves, how, stopped>> /\ App \in Threads
  BY ThreadsKnown DEF CloseEach, At
<1>3. c \in Conns /\ batch' \subseteq Conns /\ "each" \in Labels
  BY <1>1 DEF ServerInv, ConnInv, ConnTyped, Labels, AppLabels
<1>4. BackAt(App, "each")
  BY <1>2, ThreadsKnown
     DEF ServerInv, ConnInv, IInv, ServingInv, PlaceInv, WithContext, BackAt
<1> QED
  BY <1>1, <1>2, <1>3, <1>4, CloseConnServer

\* start(), and shutdown() of the acceptor.
LEMMA ListenServer ==
  ASSUME ServerInv, UNCHANGED <<conns, serves>>, ConnTyped',
         Start \/ StartLoop \/ Shutdown("collect") \/ CloseListen("collect")
  PROVE  ServerInv'
<1>1. IInv /\ ConnInv /\ PlaceInv /\ ChannelInv
  BY DEF ServerInv, IInv
<1>2. Kept
  BY <1>1, StartKeeps, StartLoopKeeps, ShutdownKeeps, CloseListenKeeps DEF Afterwards
<1>3. /\ UNCHANGED sockExVars /\ UNCHANGED <<ctx, old, posted, acceptHandle>>
      /\ pc[App] \in {"idle", "start", "serving", "closeListen"}
  BY DEF Start, StartLoop, Shutdown, CloseListen, Go, At, poolVars, kernelVars
<1>4. PICK to \in {"start", "accept", "serving", "closeListen", "collect"} :
        pc' = [pc EXCEPT ![App] = to]
  BY DEF Start, StartLoop, Shutdown, CloseListen, Go
<1>5. pc[App] \notin Failed \union Handing /\ to \notin Failed \union Handing /\ to # "idle"
  BY <1>3, <1>4 DEF Failed, Handing
<1>6. /\ \A h \in Handles : sock'[h] = "conn" <=> sock[h] = "conn"
      /\ \A h \in Handles : sock'[h] = "accept" <=> sock[h] = "accept"
      /\ listenHandle' # 0 => Open'
  <2>1. CASE Start
    <3>1. PICK h \in Handles : /\ sock[h] = "free" /\ sock' = [sock EXCEPT ![h] = "listen"]
                               /\ listenHandle' = h
      BY <2>1 DEF Start, Unused
    <3> QED
      BY <1>1, <3>1 DEF Open, ChannelInv
  <2>2. CASE StartLoop \/ Shutdown("collect")
    <3>1. sock' = sock /\ listenHandle' = listenHandle
      BY <2>2 DEF StartLoop, Shutdown, objectVars, kernelVars
    <3> QED
      BY <1>1, <3>1 DEF Open, ConnInv, RunInv
  <2>3. CASE CloseListen("collect")
    <3>1. sock' = [sock EXCEPT ![listenHandle] = "free"] /\ listenHandle' = 0
      BY <2>3 DEF CloseListen
    <3>2. listenHandle # 0 => sock[listenHandle] = "listen"
      BY <1>1 DEF ConnInv, RunInv, Open
    <3> QED
      BY <1>1, <3>1, <3>2, AcceptorAssumption DEF ChannelInv
  <2> QED
    BY <2>1, <2>2, <2>3
<1> QED
  BY <1>2, <1>3, <1>4, <1>5, <1>6, AppServer

\* The places of the server in AppStep and the end of shutdown().
LEMMA AppStepServer ==
  ASSUME ServerInv, AppStep \/ ServerStops \/ WaitOver(TRUE) \/ (Start /\ UNCHANGED serverVars)
  PROVE  ServerInv'
<1>1. ConnTyped
  BY DEF ServerInv, ConnInv
<1> USE DEF serverVars, tableVars, endVars
<1>2. CASE (Start \/ StartLoop \/ CloseListen("collect")) /\ UNCHANGED serverVars
  <2>1. UNCHANGED <<conns, serves>> /\ ConnTyped'
    BY <1>1, <1>2 DEF ConnTyped
  <2> QED
    BY <1>2, <2>1, ListenServer
<1>3. CASE ServerStops
  <2>1. Shutdown("collect") /\ UNCHANGED <<conns, serves>> /\ ConnTyped'
    BY <1>1, <1>3 DEF ServerStops, ConnTyped
  <2> QED
    BY <2>1, ListenServer
<1>4. CASE Collect
  <2>1. batch' \subseteq Conns
    BY <1>1, <1>4 DEF Collect, Entries, ConnTyped
  <2>2. /\ pc[App] = "collect" /\ Go(App, "each") /\ Quiet /\ UNCHANGED <<sock, conns, serves>>
        /\ ConnTyped'
    BY <1>1, <1>4, <2>1 DEF Collect, At, ConnTyped
  <2> QED
    BY <2>2, AppOnServer
<1>5. CASE AllDone
  <2>1. /\ pc[App] = "each" /\ Quiet /\ UNCHANGED <<sock, conns, serves>> /\ ConnTyped'
        /\ \E to \in {"wait", "clear"} : Go(App, to)
    BY <1>1, <1>5 DEF AllDone, At, ConnTyped
  <2> QED
    BY <2>1, AppOnServer
<1>6. ASSUME NEW late \in BOOLEAN, WaitOver(late) PROVE ServerInv'
  <2>1. /\ pc[App] = "wait" /\ Go(App, "collect") /\ Quiet /\ UNCHANGED <<sock, conns, serves>>
        /\ ConnTyped'
    BY <1>1, <1>6 DEF WaitOver, At, ConnTyped
  <2> QED
    BY <2>1, AppOnServer
<1>7. CASE Clear
  <2>1. /\ pc[App] = "clear" /\ Go(App, "stopPolls") /\ Quiet /\ UNCHANGED <<sock, conns, serves>>
        /\ ConnTyped'
    BY <1>1, <1>7 DEF Clear, At, ConnTyped
  <2> QED
    BY <2>1, AppOnServer
<1>8. CASE StopPolls
  <2>1. /\ pc[App] = "stopPolls" /\ Go(App, "down") /\ Quiet /\ UNCHANGED <<sock, conns, serves>>
        /\ ConnTyped'
    BY <1>1, <1>8 DEF StopPolls, At, ConnTyped
  <2> QED
    BY <2>1, AppOnServer
<1> QED
  BY <1>2, <1>3, <1>4, <1>5, <1>6, <1>7, <1>8, DrainEachServer, CloseEachServer DEF AppStep

\* Clients connect, and others use SockExFunc.
LEMMA OutsideServer ==
  ASSUME ServerInv, UNCHANGED serverVars, Connect \/ SockEx \/ UNCHANGED acceptorVars
  PROVE  ServerInv'
<1>1. IInv /\ SocketInv /\ ConnInv /\ ConnTyped
  BY DEF ServerInv, ConnInv
<1>2. /\ UNCHANGED <<objectVars, poolVars, threadVars, sock, posted>>
      /\ UNCHANGED <<conns, serves, table, how, batch, stopped>>
  BY DEF Connect, SockEx, acceptorVars, kernelVars, serverVars, tableVars, endVars
<1>3. IInv'
  <2>1. Kept
    BY <1>1, <1>2, StutterKeeps
  <2>2. SockExInv'
    <3>1. CASE SockEx
      BY <1>1, <3>1, SockExKeeps DEF IInv
    <3>2. CASE UNCHANGED sockExVars
      BY <1>1, <3>2 DEF IInv, SockExInv, sockExVars
    <3> QED
      BY <3>1, <3>2 DEF Connect, acceptorVars
  <2> QED
    BY <2>1, <2>2 DEF IInv, Kept
<1>4. SocketInv'
  BY <1>1, <1>2 DEF SocketInv, Live, HeldBy, poolVars, threadVars
<1>5. ConnInv'
  BY <1>1, <1>2 DEF ConnInv, ConnTyped, ServingInv, OwnInv, EndingInv, BackAt, RunInv, Open, Living,
     Dying, Phase, Socket, objectVars, poolVars, threadVars
<1> QED
  BY <1>3, <1>4, <1>5 DEF ServerInv

LEMMA InitServer == Init => ServerInv
<1> SUFFICES ASSUME Init PROVE ServerInv
  OBVIOUS
<1>1. AcceptorInit /\ IInv
  BY InitInv DEF Init
<1>2. SocketInv
  BY <1>1, InitCalls DEF CallsInv
<1>3. \A c \in Conns : Phase(c) = "none" /\ ~Living(c) /\ ~Dying(c)
  BY DEF Init, Unmade, Phase, Living, Dying
<1>4. \A t \in Threads : pc[t] = "idle" /\ ctx[t] = 0 /\ serves[t] = None
  BY <1>1 DEF AcceptorInit, Init
<1>5. ConnTyped
  <2>1. App \in Threads /\ Unmade \in Connections
    BY ThreadsKnown DEF Unmade, Connections, Phases, Labels, AppLabels
  <2> QED
    BY <2>1 DEF Init, ConnTyped
<1>6. ServingInv
  BY <1>4 DEF Init, ServingInv, Serving
<1>7. OwnInv
  BY <1>1, <1>3, <1>4 DEF OwnInv, AcceptorInit
<1>8. EndingInv /\ RunInv
  BY <1>1, <1>3 DEF EndingInv, RunInv, AcceptorInit
<1> QED
  BY <1>1, <1>2, <1>5, <1>6, <1>7, <1>8 DEF ServerInv, ConnInv

LEMMA NextServer ==
  ASSUME ServerInv, [Next]_vars
  PROVE  ServerInv'
<1>1. ASSUME NEW t \in Threads, ConnStep(t) PROVE ServerInv'
  BY <1>1, RefuseServer, AdmitServer, InsertServer, StartConnServer, StartConnFailsServer,
     EndMessageServer, AcceptorServer DEF ConnStep
<1>2. ASSUME NEW t \in Threads,
             \/ AcceptPacket(t) \/ ReadEnds(t) \/ MessageArrives(t)
             \/ UserCloses(t) \/ UserDrains(t)
      PROVE  ServerInv'
  BY <1>2, AcceptorServer, ReadEndsServer, MessageArrivesServer, UserClosesServer,
     UserDrainsServer DEF AcceptPacket
<1>3. ASSUME NEW c \in Conns, Erase(c) \/ Tell(c) PROVE ServerInv'
  BY <1>3, EraseServer, TellServer
<1>4. LateSuccess \/ TimerFires => ServerInv'
  BY LateSuccessServer, TimerFiresServer
<1>5. AppStep \/ ServerStops \/ WaitOver(TRUE) \/ (Start /\ UNCHANGED serverVars) => ServerInv'
  BY AppStepServer
<1>6. (Connect \/ SockEx) /\ UNCHANGED serverVars => ServerInv'
  BY OutsideServer
<1>7. UNCHANGED vars => ServerInv'
  BY OutsideServer DEF vars
<1> QED
  BY <1>1, <1>2, <1>3, <1>4, <1>5, <1>6, <1>7 DEF Next

\* The invariants of the acceptor hold inside the server too, beside those of connections.
THEOREM ServerInvariance == Spec => []ServerInv
BY InitServer, NextServer, PTL DEF Spec

\* A connection that lives has a socket of its own, and an accepted socket is open only for
\* a living connection or one about to be made, for any number of polls.
THEOREM SocketsKeptApart == Spec => []SocketsOwned
<1>1. ServerInv => SocketsOwned
  <2> SUFFICES ASSUME ServerInv PROVE SocketsOwned
    OBVIOUS
  <2>1. OwnInv /\ PlaceInv
    BY DEF ServerInv, ConnInv, IInv
  <2>2. \A t \in Threads : pc[t] = "insert" => t \in Pollers
    BY <2>1 DEF PlaceInv, AppLabels, Threads
  <2> QED
    BY <2>1, <2>2 DEF OwnInv, SocketsOwned
<1> QED
  BY <1>1, ServerInvariance, PTL

\* The limit on connections holds, but for the threads that are about to insert one.
THEOREM LimitHolds == Spec => []LimitKept
<1>1. ServerInv => GoesBack
  <2> SUFFICES ASSUME ServerInv, NEW c \in Conns, Phase(c) = "erased", conns[c].by \in Threads
               PROVE  conns[c].back # "insert" /\ (conns[c].by = App => conns[c].back \notin Foreign)
    BY DEF GoesBack
  <2>1. Dying(c) /\ EndingInv
    BY DEF Dying, ServerInv, ConnInv
  <2> QED
    BY <2>1 DEF EndingInv, BackAt, Foreign
<1>2. LimitInv /\ GoesBack /\ [Next]_vars => LimitInv'
  BY LimitNext
<1>3. LimitInv => LimitKept
  <2> SUFFICES ASSUME LimitInv PROVE LimitKept
    OBVIOUS
  <2>1. Count = Cardinality(Used)
    BY DEF Count, Used
  <2> QED
    BY <2>1, InsertingPoll, ThreadsKnown, ServerAssumption DEF LimitInv, LimitKept
<1> QED
  BY LimitInit, <1>1, <1>2, <1>3, ServerInvariance, PTL DEF Spec
-----------------------------------------------------------------------------
\* Types: the counters of the acceptor move as in Acceptor.tla.

LEMMA CountsQuiet ==
  ASSUME CountsInv, UNCHANGED <<shut, toIssue, clients, historyVars>>
  PROVE  CountsInv'
BY DEF CountsInv, historyVars

LEMMA NextCounts ==
  ASSUME CountsInv, [Next]_vars
  PROVE  CountsInv'
<1> USE DEF Go, GoWith, Handed, Quiet, Closes, EndBy, At, objectVars, kernelVars, threadVars
<1>1. ASSUME NEW t \in Threads, ConnStep(t) PROVE CountsInv'
  <2>1. CASE Refuse(t) \/ Admit(t) \/ Insert(t) \/ StartConn(t)
    BY <2>1, CountsQuiet DEF Refuse, Admit, Insert, StartConn
  <2>2. CASE StartConnFails(t) \/ StartConnLate(t) \/ DropConn(t)
    BY <2>2, CountsQuiet DEF StartConnFails, StartConnLate, DropConn
  <2>3. CASE EndMessage(t)
    BY <2>3, CountsQuiet DEF EndMessage, ReadsOn, EndsAfter, EndedMeanwhile
  <2> QED
    BY <1>1, <2>1, <2>2, <2>3, AcceptStepCounts DEF ConnStep
<1>2. ASSUME NEW t \in Threads, AcceptPacket(t) PROVE CountsInv'
  BY <1>2, AcceptStepCounts DEF AcceptPacket
<1>3. ASSUME NEW t \in Threads,
             UserCloses(t) \/ UserDrains(t) \/ ReadEnds(t) \/ MessageArrives(t)
      PROVE  CountsInv'
  <2>1. UNCHANGED toIssue
    BY <1>3 DEF UserCloses, UserDrains, ReadEnds, MessageArrives, CloseConn, Cleanup, acceptorVars
  <2> QED
    BY <1>3, <2>1, CountsQuiet DEF UserCloses, UserDrains, ReadEnds, MessageArrives, acceptorVars
<1>4. ASSUME NEW c \in Conns, Erase(c) \/ Tell(c) PROVE CountsInv'
  BY <1>4, CountsQuiet DEF Erase, Tell, acceptorVars
<1>5. LateSuccess \/ TimerFires => CountsInv'
  BY CountsQuiet DEF LateSuccess, TimerFires, Cleanup, acceptorVars
<1>6. DrainEach \/ CloseEach => CountsInv'
  BY CountsQuiet DEF DrainEach, CloseEach, CloseConn, Cleanup, acceptorVars
<1>7. Collect \/ AllDone \/ Clear \/ StopPolls \/ (\E late \in BOOLEAN : WaitOver(late))
        => CountsInv'
  BY CountsQuiet DEF Collect, AllDone, Clear, StopPolls, WaitOver
<1>8. Start \/ StartLoop \/ Shutdown("collect") \/ CloseListen("collect") => CountsInv'
  BY OutsideCounts
<1>9. Connect \/ SockEx \/ UNCHANGED acceptorVars => CountsInv'
  BY OutsideCounts
<1>10. AppStep => CountsInv'
  BY <1>6, <1>7, <1>8 DEF AppStep
<1>11. ServerStops \/ WaitOver(TRUE) => CountsInv'
  BY <1>7, <1>8 DEF ServerStops
<1> QED
  BY <1>1, <1>2, <1>3, <1>4, <1>5, <1>8, <1>9, <1>10, <1>11 DEF Next, vars

\* Every variable of the server and of its acceptor keeps its type.
THEOREM ServerTypes == Spec => []ServerTypeOK
<1>1. Init => CountsInv
  BY InitCounts DEF Init
<1>2. CountsInv /\ [Next]_vars => CountsInv'
  BY NextCounts
<1>3. ServerInv /\ CountsInv => ServerTypeOK
  BY TypeFollows DEF ServerInv, ConnInv, ConnTyped, ServingInv, ServerTypeOK,
     Connections, Phases
<1> QED
  BY <1>1, <1>2, <1>3, ServerInvariance, PTL DEF Spec
-----------------------------------------------------------------------------
\* Mode kAllOneThread with callbacks that only close their connections: one thread polls and
\* ends what runs, so that a socket number is not used again before the entry of its former
\* owner is erased, and the table has every connection that lives.

OnePoller == \A t, u \in Pollers : t = u
OnlyClose == UserOps \subseteq {"close"}

\* App has not finished start(), and has called shutdown() or close().
Before == {"idle", "start", "accept", "socket", "acceptEx"}
Stopping == {"closeListen", "collect", "each", "ending", "wait", "clear", "stopPolls", "down"}

StageInv ==
  /\ pc[App] \in Stopping <=> shut
  /\ pc[App] \in Before => \A c \in Conns : Phase(c) = "none"
  /\ pc[App] \in Before => \A t \in Pollers : pc[t] = "idle"
  /\ \A c \in Conns : conns[c].timer = "armed" => shut
  /\ batch # {} => shut
  /\ \A c \in Conns : Dying(c) /\ conns[c].by = App => conns[c].back = "each"

\* An entry is under the number of its connection, which has not been erased.
EntryInv ==
  \A h \in Handles : table[h] # None =>
    conns[table[h]].handle = h /\ Phase(table[h]) \notin {"none", "erased", "told"}

\* The number of c's socket is not in use.
Freed(c) == conns[c].handle \in Handles /\ sock[conns[c].handle] = "free"

\* A thread keeps the number of the connection in its hands unused until it has cleared the
\* entry or gone on.
Ended == {"failed", "closed", "erased", "told"}
NewInv ==
  /\ \A c \in Conns : Phase(c) = "new" => \E t \in Pollers : serves[t] = c /\ pc[t] = "startConn"
  /\ \A c \in Conns : Phase(c) = "busy" => \E t \in Pollers : serves[t] = c /\ pc[t] = "message"
  /\ \A t \in Threads : serves[t] # None =>
       \/ Phase(serves[t]) \in {"new", "busy", "cancelled", "stuck"}
       \/ Phase(serves[t]) \in Ended /\ Freed(serves[t])
  /\ \A t \in Threads : pc[t] \in {"startConn", "dropConn", "ending"} /\ serves[t] # None =>
       Phase(serves[t]) \in Ended \union {"new"}
  /\ \A t \in Threads : pc[t] = "dropConn" => Phase(serves[t]) # "new"

\* When no socket is made any more, the number of a connection that could not be started
\* stays unused for those that still find it in their copy of the table or by its timer.
FailedInv ==
  \A c \in Conns : Phase(c) = "failed" =>
    /\ c \in Entries => \E t \in Pollers : serves[t] = c /\ pc[t] = "dropConn"
    /\ c \in batch \/ conns[c].timer = "armed" =>
         Freed(c) /\ shut /\ \A t \in Pollers : pc[t] # "socket"

\* So does the thread that ends a connection: it is the one that polls, or that one makes
\* no more sockets.
ClosedInv ==
  \A c \in Conns : Phase(c) = "closed" =>
    Freed(c) /\ \A t \in Pollers : conns[c].by = t \/ (shut /\ pc[t] # "socket")

TableInv ==
  pc[App] \notin {"stopPolls", "down"} =>
    \A c \in Conns : Living(c) => table[conns[c].handle] = c

\* After the last copy of the table one connection is made at most.
AfterCopy == how = "close" /\ pc[App] \in {"each", "ending", "clear", "stopPolls", "down"}
Entering == {t \in Pollers : pc[t] \in {"onConn", "insert"}}
LateConns == {c \in Conns : Phase(c) \in {"new", "up", "busy"}} \ batch
FewInv ==
  /\ AfterCopy => /\ \A c, d \in LateConns : c = d
                  /\ LateConns # {} => Entering = {} /\ Pollers # {}
  /\ pc[App] \in {"clear", "stopPolls", "down"} => how = "close" /\ batch = {}
  /\ pc[App] = "ending" => how = "close"

SoloInv ==
  StageInv /\ EntryInv /\ NewInv /\ FailedInv /\ ClosedInv /\ TableInv /\ FewInv

\* Each part when no connection is new.
LEMMA StageOn ==
  ASSUME StageInv, pc[App] \notin Before, pc'[App] \notin Before,
         pc'[App] \in Stopping <=> shut', shut => shut', batch' = batch \/ shut',
         \A c \in Conns : conns'[c].timer = "armed" => conns[c].timer = "armed" \/ shut,
         \A c \in Conns : Dying(c)' /\ conns'[c].by = App =>
           \/ conns'[c].back = "each"
           \/ Dying(c) /\ conns[c].by = App /\ conns'[c].back = conns[c].back
  PROVE  StageInv'
BY DEF StageInv

LEMMA EntryLess ==
  ASSUME EntryInv, ConnTyped,
         \A h \in Handles : table'[h] \in {table[h], None},
         \A c \in Conns : conns'[c].handle = conns[c].handle,
         \A c \in Conns : Phase(c)' \in {"none", "erased", "told"} =>
           \/ Phase(c) \in {"none", "erased", "told"}
           \/ conns[c].handle \in Handles => table'[conns[c].handle] = None
  PROVE  EntryInv'
<1> SUFFICES ASSUME NEW h \in Handles, table'[h] # None
             PROVE  /\ conns'[table'[h]].handle = h
                    /\ conns'[table'[h]].phase \notin {"none", "erased", "told"}
  BY DEF EntryInv, Phase
<1>1. PICK c \in Conns : table[h] = c /\ table'[h] = c
  BY DEF ConnTyped
<1>2. c # None /\ conns[c].handle = h /\ Phase(c) \notin {"none", "erased", "told"}
  BY <1>1 DEF EntryInv
<1>3. Phase(c)' \notin {"none", "erased", "told"}
  BY <1>1, <1>2
<1> QED
  BY <1>1, <1>2, <1>3 DEF Phase

LEMMA TableLess ==
  ASSUME TableInv, pc'[App] \notin {"stopPolls", "down"} => pc[App] \notin {"stopPolls", "down"},
         \A c \in Conns : Living(c)' =>
           /\ Living(c) /\ conns'[c].handle = conns[c].handle
           /\ table'[conns[c].handle] = table[conns[c].handle]
  PROVE  TableInv'
BY DEF TableInv

LEMMA FewLess ==
  ASSUME FewInv, UNCHANGED how, pc'[App] = pc[App] \/ {pc[App], pc'[App]} \subseteq {"each", "ending"},
         {pc[App], pc'[App]} \subseteq {"each", "ending"} => how = "close" \/ pc'[App] = "each",
         batch' = batch \/ pc[App] \in {"each", "ending"},
         AfterCopy => LateConns' \subseteq LateConns /\ Entering' \subseteq Entering
  PROVE  FewInv'
<1>1. AfterCopy' => AfterCopy
  BY DEF AfterCopy
<1>2. AfterCopy' => /\ \A c, d \in LateConns' : c = d
                    /\ LateConns' # {} => Entering' = {} /\ Pollers # {}
  BY <1>1 DEF FewInv
<1>3. pc'[App] \in {"clear", "stopPolls", "down"} => how' = "close" /\ batch' = {}
  BY DEF FewInv
<1>4. pc'[App] = "ending" => how' = "close"
  BY DEF FewInv
<1> QED
  BY <1>2, <1>3, <1>4 DEF FewInv

\* A thread that polls goes on, or something happens outside.
LEMMA SoloOn ==
  ASSUME OnePoller, ServerInv, ServingInv', SoloInv,
         UNCHANGED <<conns, table, serves, how, batch, shut>>, pc'[App] = pc[App],
         pc[App] \in Before => \A t \in Pollers : pc'[t] = pc[t],
         \A h \in Handles : sock[h] = "free" /\ sock'[h] # "free" => \E t \in Pollers : pc[t] = "socket",
         \A t \in Pollers : serves[t] # None =>
           \/ pc'[t] = pc[t]
           \/ pc[t] = "startConn" /\ pc'[t] = "dropConn" /\ Phase(serves[t]) # "new",
         \A t \in Threads : pc'[t] = "dropConn" /\ pc[t] # "dropConn" => Phase(serves[t]) # "new",
         \A t \in Pollers : pc'[t] = "socket" => pc[t] = "socket" \/ ~shut,
         \A t \in Pollers : pc'[t] \in {"onConn", "insert"} => pc[t] \in {"onConn", "insert"} \/ ~shut
  PROVE  SoloInv'
<1>1. /\ StageInv /\ EntryInv /\ NewInv /\ FailedInv /\ ClosedInv /\ TableInv /\ FewInv
      /\ ServingInv /\ ConnTyped
  BY DEF SoloInv, ServerInv, ConnInv
<1>2. \A c \in Conns :
        Phase(c)' = Phase(c) /\ (Living(c)' <=> Living(c)) /\ (Dying(c)' <=> Dying(c))
  BY DEF Phase, Living, Dying
<1>3. StageInv'
  BY <1>1, <1>2 DEF StageInv
<1>4. EntryInv'
  BY <1>1, <1>2 DEF EntryInv, Phase
<1>5. \A c \in Conns : Freed(c) /\ ~Freed(c)' => \E t \in Pollers : pc[t] = "socket"
  BY DEF Freed
<1>6. NewInv'
  <2>1. \A t \in Threads : serves[t] # None => t \in Pollers /\ pc[t] # "socket" /\ serves[t] \in Conns
    BY <1>1 DEF ServingInv, Serving
  <2>2. \A t \in Threads : serves[t] # None => \A c \in Conns : c = serves[t] /\ Freed(c) => Freed(c)'
    BY <1>5, <2>1 DEF OnePoller
  <2>3. \A c \in Conns : Phase(c) = "new" => \E t \in Pollers : serves'[t] = c /\ pc'[t] = "startConn"
    <3> SUFFICES ASSUME NEW c \in Conns, Phase(c) = "new"
                 PROVE  \E t \in Pollers : serves'[t] = c /\ pc'[t] = "startConn"
      OBVIOUS
    <3>1. PICK t \in Pollers : serves[t] = c /\ pc[t] = "startConn"
      BY <1>1 DEF NewInv
    <3>2. c # None
      BY DEF Conns, None
    <3> QED
      BY <3>1, <3>2
  <2>4. \A c \in Conns : Phase(c) = "busy" => \E t \in Pollers : serves'[t] = c /\ pc'[t] = "message"
    <3> SUFFICES ASSUME NEW c \in Conns, Phase(c) = "busy"
                 PROVE  \E t \in Pollers : serves'[t] = c /\ pc'[t] = "message"
      OBVIOUS
    <3>1. PICK t \in Pollers : serves[t] = c /\ pc[t] = "message"
      BY <1>1 DEF NewInv
    <3>2. c # None
      BY DEF Conns, None
    <3> QED
      BY <3>1, <3>2
  <2>5. \A t \in Threads : serves'[t] # None =>
          \/ conns'[serves'[t]].phase \in {"new", "busy", "cancelled", "stuck"}
          \/ /\ conns'[serves'[t]].phase \in Ended
             /\ conns'[serves'[t]].handle \in Handles /\ sock'[conns'[serves'[t]].handle] = "free"
    BY <1>1, <2>1, <2>2 DEF NewInv, Phase, Freed
  <2>6. \A t \in Threads : pc'[t] \in {"startConn", "dropConn", "ending"} /\ serves'[t] # None =>
          conns'[serves'[t]].phase \in Ended \union {"new"}
    BY <1>1, <2>1 DEF NewInv, Phase
  <2>7. \A t \in Threads : pc'[t] = "dropConn" => conns'[serves'[t]].phase # "new"
    BY <1>1 DEF NewInv, Phase
  <2> QED
    BY <1>2, <2>3, <2>4, <2>5, <2>6, <2>7 DEF NewInv, Phase, Freed
<1>7. ClosedInv'
  <2> SUFFICES ASSUME NEW c \in Conns, Phase(c) = "closed"
               PROVE  Freed(c)' /\ \A t \in Pollers : conns'[c].by = t \/ (shut' /\ pc'[t] # "socket")
    BY <1>2 DEF ClosedInv
  <2>1. Freed(c) /\ \A t \in Pollers : conns[c].by = t \/ (shut /\ pc[t] # "socket")
    BY <1>1 DEF ClosedInv
  <2>2. \A t \in Pollers : conns[c].by = t => pc[t] # "socket"
    BY ThreadsKnown DEF ServerInv, ConnInv, EndingInv, Dying, Threads
  <2>3. \A t \in Pollers : pc[t] # "socket"
    BY <2>1, <2>2
  <2> QED
    BY <1>5, <2>1, <2>3
<1>8. TableInv'
  BY <1>1, <1>2, TableLess
<1>9. FewInv'
  <2>1. AfterCopy => shut
    BY <1>1 DEF AfterCopy, StageInv, Stopping
  <2>2. AfterCopy => Entering' \subseteq Entering
    BY <2>1 DEF Entering
  <2>3. LateConns' = LateConns
    BY <1>2 DEF LateConns
  <2> QED
    BY <1>1, <2>2, <2>3, FewLess DEF FewInv
<1>10. FailedInv'
  <2> SUFFICES ASSUME NEW c \in Conns, Phase(c) = "failed"
               PROVE  /\ c \in Entries => \E t \in Pollers : serves'[t] = c /\ pc'[t] = "dropConn"
                      /\ c \in batch \/ conns[c].timer = "armed" =>
                           Freed(c)' /\ shut /\ \A t \in Pollers : pc'[t] # "socket"
    BY <1>2 DEF FailedInv, Entries
  <2>1. c # None
    BY DEF Conns, None
  <2>2. ASSUME c \in Entries
        PROVE  \E t \in Pollers : serves'[t] = c /\ pc'[t] = "dropConn"
    <3>1. PICK t \in Pollers : serves[t] = c /\ pc[t] = "dropConn"
      BY <1>1, <2>2 DEF FailedInv
    <3> QED
      BY <2>1, <3>1
  <2>3. ASSUME c \in batch \/ conns[c].timer = "armed"
        PROVE  Freed(c)' /\ shut /\ \A t \in Pollers : pc'[t] # "socket"
    <3>1. Freed(c) /\ shut /\ \A t \in Pollers : pc[t] # "socket"
      BY <1>1, <2>3 DEF FailedInv
    <3> QED
      BY <1>5, <3>1
  <2> QED
    BY <2>2, <2>3
<1> QED
  BY <1>3, <1>4, <1>6, <1>7, <1>8, <1>9, <1>10 DEF SoloInv

\* App goes on in start(): there is no connection.
LEMMA SoloBefore ==
  ASSUME ServerInv, SoloInv, pc[App] \in Before,
         NEW to \in Before \union {"serving"}, pc' = [pc EXCEPT ![App] = to],
         UNCHANGED <<conns, table, serves, batch, shut>>
  PROVE  SoloInv'
<1>1. StageInv /\ EntryInv /\ ServingInv /\ ConnTyped /\ PlaceInv
  BY DEF SoloInv, ServerInv, ConnInv, IInv
<1>2. App \in Threads /\ App \notin Pollers /\ Pollers \subseteq Threads
  BY ThreadsKnown
<1>3. \A t \in Threads : pc'[t] = IF t = App THEN to ELSE pc[t]
  BY <1>1 DEF PlaceInv
<1>4. /\ \A c \in Conns : Phase(c) = "none" /\ Phase(c)' = "none" /\ ~Living(c)'
      /\ \A t \in Threads : serves[t] = None
      /\ \A t \in Pollers : pc'[t] = "idle"
      /\ ~shut /\ pc'[App] \in Before \union {"serving"}
      /\ \A c \in Conns : ~Dying(c)'
  BY <1>1, <1>2, <1>3 DEF StageInv, ServingInv, Phase, Living, Dying, Before, Stopping
<1>5. StageInv'
  BY <1>1, <1>4 DEF StageInv, Before, Stopping
<1>6. EntryInv'
  BY <1>1 DEF EntryInv, Phase
<1>7. NewInv' /\ FailedInv' /\ ClosedInv' /\ TableInv'
  <2>1. \A t \in Threads : pc'[t] # "dropConn"
    BY <1>2, <1>3, <1>4 DEF Threads, Before
  <2> QED
    BY <1>4, <2>1 DEF NewInv, FailedInv, ClosedInv, TableInv, Phase
<1>8. FewInv'
  BY <1>4 DEF FewInv, AfterCopy, Before
<1> QED
  BY <1>5, <1>6, <1>7, <1>8 DEF SoloInv

\* App goes on in shutdown() or close().
LEMMA SoloApp ==
  ASSUME OnePoller, ServerInv, SoloInv, pc[App] \notin Before,
         NEW to \in Stopping, pc' = [pc EXCEPT ![App] = to], shut',
         UNCHANGED <<conns, serves>>,
         \A h \in Handles : sock[h] = "free" => sock'[h] = "free",
         \A h \in Handles : table'[h] \in {table[h], None},
         batch' \subseteq batch \union Entries, TableInv', FewInv'
  PROVE  SoloInv'
<1>1. /\ StageInv /\ EntryInv /\ NewInv /\ FailedInv /\ ClosedInv
      /\ ServingInv /\ ConnTyped /\ PlaceInv
  BY DEF SoloInv, ServerInv, ConnInv, IInv
<1>2. App \in Threads /\ App \notin Pollers /\ Pollers \subseteq Threads
  BY ThreadsKnown
<1>3. \A t \in Threads : pc'[t] = IF t = App THEN to ELSE pc[t]
  BY <1>1 DEF PlaceInv
<1>4. \A c \in Conns : /\ Phase(c)' = Phase(c) /\ (Dying(c)' <=> Dying(c))
                       /\ Freed(c) => Freed(c)'
  BY DEF Phase, Dying, Freed
<1>5. StageInv'
  BY <1>1, <1>2, <1>3, <1>4 DEF StageInv, Before, Stopping
<1>6. EntryInv'
  BY <1>1, <1>4, EntryLess
<1>7. NewInv'
  <2>1. \A t \in Threads : serves[t] # None => serves[t] \in Conns /\ t \in Pollers
    BY <1>1 DEF ServingInv
  <2>2. \A t \in Threads : pc'[t] # pc[t] => t = App /\ serves[t] = None /\ pc'[t] # "dropConn"
    BY <1>2, <1>3, <2>1 DEF Stopping
  <2>3. \A c \in Conns : Phase(c) = "new" => \E t \in Pollers : serves[t] = c /\ pc'[t] = "startConn"
    BY <1>1, <1>2, <1>3 DEF NewInv
  <2>4. \A c \in Conns : Phase(c) = "busy" => \E t \in Pollers : serves[t] = c /\ pc'[t] = "message"
    BY <1>1, <1>2, <1>3 DEF NewInv
  <2>5. \A t \in Threads : serves[t] # None =>
          \/ Phase(serves[t]) \in {"new", "busy", "cancelled", "stuck"}
          \/ Phase(serves[t]) \in Ended /\ serves[t] \in Conns /\ Freed(serves[t])
    BY <1>1, <2>1 DEF NewInv
  <2>6. \A t \in Threads : pc'[t] \in {"startConn", "dropConn", "ending"} /\ serves[t] # None =>
          Phase(serves[t]) \in Ended \union {"new"}
    BY <1>1, <2>2 DEF NewInv
  <2>7. \A t \in Threads : pc'[t] = "dropConn" => Phase(serves[t]) # "new"
    BY <1>1, <2>2 DEF NewInv
  <2> QED
    BY <1>4, <2>3, <2>4, <2>5, <2>6, <2>7 DEF NewInv, Phase, Freed
<1>8. ClosedInv'
  BY <1>1, <1>2, <1>3, <1>4 DEF ClosedInv
<1>9. FailedInv'
  <2> SUFFICES ASSUME NEW c \in Conns, Phase(c) = "failed"
               PROVE  /\ c \in Entries' => \E t \in Pollers : serves[t] = c /\ pc'[t] = "dropConn"
                      /\ c \in batch' \/ conns[c].timer = "armed" =>
                           Freed(c)' /\ \A t \in Pollers : pc'[t] # "socket"
    BY <1>4 DEF FailedInv
  <2>1. c \in Entries' => c \in Entries
    BY DEF Entries
  <2>2. c \in Entries => \E t \in Pollers : serves[t] = c /\ pc[t] = "dropConn" /\ pc'[t] = pc[t]
    BY <1>1, <1>2, <1>3 DEF FailedInv
  <2>3. c \in Entries => Freed(c) /\ \A t \in Pollers : pc[t] # "socket"
    <3> SUFFICES ASSUME NEW t \in Pollers, serves[t] = c, pc[t] = "dropConn"
                 PROVE  Freed(c) /\ \A u \in Pollers : pc[u] # "socket"
      BY <2>2
    <3>1. c # None /\ t \in Threads
      BY <1>2 DEF Conns, None
    <3> QED
      BY <1>1, <3>1 DEF NewInv, OnePoller
  <2>4. c \in batch \/ conns[c].timer = "armed" => Freed(c) /\ \A t \in Pollers : pc[t] # "socket"
    BY <1>1 DEF FailedInv
  <2> QED
    BY <1>2, <1>3, <1>4, <2>1, <2>2, <2>3, <2>4
<1> QED
  BY <1>5, <1>6, <1>7, <1>8, <1>9 DEF SoloInv

\* Connections go on to other phases and no thread moves.
LEMMA SoloPhases ==
  ASSUME ServerInv, SoloInv, UNCHANGED <<pc, sock, serves, shut, how>>,
         \A c \in Conns :
           /\ conns'[c].handle = conns[c].handle
           /\ conns'[c].by = conns[c].by /\ conns'[c].back = conns[c].back
           /\ conns'[c].timer = "armed" => conns[c].timer = "armed" \/ (shut /\ Phase(c)' # "failed")
           /\ \A p \in {"none", "new"} : Phase(c)' = p <=> Phase(c) = p
           /\ \A p \in {"up", "busy", "closed", "failed"} : Phase(c)' = p => Phase(c) = p
           /\ Phase(c) \in Ended => Phase(c)' \in Ended
           /\ Phase(c) \in {"busy", "cancelled", "stuck"} => Phase(c)' \in {"busy", "cancelled", "stuck"}
           /\ Dying(c)' => Dying(c)
           /\ Phase(c)' \in {"erased", "told"} =>
                \/ Phase(c) \in {"erased", "told"}
                \/ conns[c].handle \in Handles => table'[conns[c].handle] = None
           /\ Living(c)' => Living(c) /\ table'[conns[c].handle] = table[conns[c].handle],
         \A h \in Handles : table'[h] \in {table[h], None},
         batch' = batch \/ (batch' \subseteq batch /\ pc[App] = "each"),
         AfterCopy => \A c \in batch \ batch' : Phase(c)' \notin {"new", "up", "busy"}
  PROVE  SoloInv'
<1>1. /\ StageInv /\ EntryInv /\ NewInv /\ FailedInv /\ ClosedInv /\ TableInv /\ FewInv
      /\ ServingInv /\ ConnTyped
  BY DEF SoloInv, ServerInv, ConnInv
<1>2. StageInv'
  BY <1>1 DEF StageInv
<1>3. EntryInv'
  BY <1>1, EntryLess
<1>4. NewInv'
  <2>1. \A t \in Threads : serves[t] # None => serves[t] \in Conns
    BY <1>1 DEF ServingInv
  <2>2. \A t \in Threads : serves[t] # None =>
          \/ serves[t] \in Conns /\ Phase(serves[t])' \in {"new", "busy", "cancelled", "stuck"}
          \/ serves[t] \in Conns /\ Phase(serves[t])' \in Ended /\ Freed(serves[t])'
    BY <1>1, <2>1 DEF NewInv, Freed
  <2>3. \A t \in Threads : pc[t] \in {"startConn", "dropConn", "ending"} /\ serves[t] # None =>
          Phase(serves[t])' \in Ended \union {"new"}
    BY <1>1, <2>1 DEF NewInv
  <2>4. \A t \in Threads : pc[t] = "dropConn" => Phase(serves[t])' # "new"
    BY <1>1, <2>1 DEF NewInv, ServingInv, Serving
  <2>5. \A c \in Conns :
          /\ Phase(c)' = "new" => \E t \in Pollers : serves[t] = c /\ pc[t] = "startConn"
          /\ Phase(c)' = "busy" => \E t \in Pollers : serves[t] = c /\ pc[t] = "message"
    BY <1>1 DEF NewInv
  <2> QED
    BY <2>2, <2>3, <2>4, <2>5 DEF NewInv, Phase, Freed
<1>5. ClosedInv'
  BY <1>1 DEF ClosedInv, Freed
<1>6. TableInv'
  BY <1>1, TableLess
<1>7. FewInv'
  <2>1. AfterCopy => LateConns' \subseteq LateConns
    BY DEF LateConns
  <2>2. Entering' = Entering
    BY DEF Entering
  <2> QED
    BY <1>1, <2>1, <2>2, FewLess DEF FewInv
<1>8. FailedInv'
  <2> SUFFICES ASSUME NEW c \in Conns, Phase(c)' = "failed"
               PROVE  /\ c \in Entries' => \E t \in Pollers : serves[t] = c /\ pc[t] = "dropConn"
                      /\ c \in batch' \/ conns'[c].timer = "armed" =>
                           Freed(c)' /\ shut /\ \A t \in Pollers : pc[t] # "socket"
    BY DEF FailedInv
  <2>1. Phase(c) = "failed" /\ (c \in Entries' => c \in Entries)
    BY DEF Entries
  <2>2. c \in batch' \/ conns'[c].timer = "armed" => c \in batch \/ conns[c].timer = "armed"
    OBVIOUS
  <2> QED
    BY <1>1, <2>1, <2>2 DEF FailedInv, Freed
<1> QED
  BY <1>2, <1>3, <1>4, <1>5, <1>6, <1>7, <1>8 DEF SoloInv

\* The thread that polls has finished with its connection.
LEMMA SoloFinish ==
  ASSUME OnePoller, ServerInv, SoloInv, NEW t \in Pollers, pc[t] \in {"startConn", "dropConn"},
         pc' = [pc EXCEPT ![t] = "accept"], serves' = [serves EXCEPT ![t] = None],
         UNCHANGED <<sock, shut, how, batch>>,
         \A c \in Conns :
           /\ conns'[c].handle = conns[c].handle /\ conns'[c].timer = conns[c].timer
           /\ conns'[c].by = conns[c].by /\ conns'[c].back = conns[c].back
           /\ Phase(c)' = (IF c = serves[t] /\ pc[t] = "startConn" THEN "up" ELSE Phase(c))
           /\ Living(c)' => Living(c) /\ table'[conns[c].handle] = table[conns[c].handle],
         pc[t] = "startConn" => Phase(serves[t]) = "new",
         pc[t] = "dropConn" => serves[t] \notin Entries',
         \A h \in Handles : table'[h] \in {table[h], None}
  PROVE  SoloInv'
<1>1. /\ StageInv /\ EntryInv /\ NewInv /\ FailedInv /\ ClosedInv /\ TableInv /\ FewInv
      /\ ServingInv /\ ConnTyped /\ PlaceInv
  BY DEF SoloInv, ServerInv, ConnInv, IInv
<1>2. App \in Threads /\ App # t /\ Pollers \subseteq Threads /\ Threads = Pollers \union {App}
  BY ThreadsKnown DEF Threads
<1>3. /\ \A u \in Threads : pc'[u] = IF u = t THEN "accept" ELSE pc[u]
      /\ \A u \in Threads : serves'[u] = None
  BY <1>1, <1>2 DEF PlaceInv, ServingInv, OnePoller
<1>4. pc'[App] = pc[App] /\ pc[App] \notin Before
  BY <1>1, <1>2, <1>3 DEF StageInv
<1>5. StageInv'
  <2>1. \A c \in Conns : Dying(c)' => Dying(c)
    BY DEF Dying
  <2> QED
    BY <1>1, <1>4, <2>1, StageOn DEF StageInv
<1>6. EntryInv'
  BY <1>1, EntryLess
<1>7. NewInv'
  <2>1. \A u \in Threads : pc'[u] # "dropConn"
    BY <1>1, <1>2, <1>3 DEF PlaceInv, AppLabels, OnePoller
  <2>2. \A c \in Conns : Phase(c)' # "new"
    <3> SUFFICES ASSUME NEW c \in Conns, Phase(c)' = "new" PROVE FALSE
      OBVIOUS
    <3>1. Phase(c) = "new" /\ ~(c = serves[t] /\ pc[t] = "startConn")
      OBVIOUS
    <3>2. serves[t] = c /\ pc[t] = "startConn"
      BY <1>1, <3>1 DEF NewInv, OnePoller
    <3> QED
      BY <3>1, <3>2
  <2>3. \A c \in Conns : Phase(c)' # "busy"
    <3> SUFFICES ASSUME NEW c \in Conns, Phase(c)' = "busy" PROVE FALSE
      OBVIOUS
    <3>1. pc[t] = "message"
      BY <1>1 DEF NewInv, OnePoller
    <3> QED
      BY <3>1
  <2> QED
    BY <1>3, <2>1, <2>2, <2>3 DEF NewInv
<1>8. ClosedInv'
  BY <1>1, <1>2, <1>3 DEF ClosedInv, Freed
<1>9. TableInv'
  BY <1>1, <1>4, TableLess
<1>10. FewInv'
  <2>1. Entering' \subseteq Entering
    BY <1>2, <1>3 DEF Entering
  <2>2. LateConns' \subseteq LateConns
    BY DEF LateConns
  <2> QED
    BY <1>1, <1>4, <2>1, <2>2, FewLess DEF FewInv
<1>11. FailedInv'
  <2> SUFFICES ASSUME NEW c \in Conns, Phase(c)' = "failed"
               PROVE  /\ c \notin Entries'
                      /\ c \in batch \/ conns[c].timer = "armed" =>
                           Freed(c)' /\ shut /\ \A u \in Pollers : pc'[u] # "socket"
    BY DEF FailedInv
  <2>1. Phase(c) = "failed"
    OBVIOUS
  <2>2. c \notin Entries'
    <3>1. c \in Entries' => c \in Entries
      BY DEF Entries
    <3>2. c \in Entries => c = serves[t] /\ pc[t] = "dropConn"
      BY <1>1, <2>1 DEF FailedInv, OnePoller
    <3> QED
      BY <3>1, <3>2
  <2> QED
    BY <1>1, <1>2, <1>3, <2>1, <2>2 DEF FailedInv, Freed
<1> QED
  BY <1>5, <1>6, <1>7, <1>8, <1>9, <1>10, <1>11 DEF SoloInv

\* A thread ends a connection: the one that polls its own or one whose read has ended,
\* another one that has nothing outstanding.
LEMMA SoloEnd ==
  ASSUME OnePoller, ServerInv, ServingInv', SoloInv, NEW t \in Threads \union {Timer},
         NEW c \in Conns, NEW back, EndBy(t, c, back), Living(c) \/ Phase(c) = "failed",
         t \in Pollers \/ (shut /\ Phase(c) \in {"new", "busy", "failed"}),
         t \in Pollers => /\ pc[t] \in {"idle", "startConn", "message"}
                          /\ serves[t] # None => serves[t] = c,
         Phase(c) = "failed" => Freed(c) /\ (t \in Pollers \/ \A u \in Pollers : pc[u] # "socket"),
         t = App => pc[App] = "each" /\ how = "close" /\ back = "each",
         serves' = serves \/ (t \in Pollers /\ serves' = [serves EXCEPT ![t] = None]),
         UNCHANGED <<table, shut, how>>,
         batch' = batch \/ (t = App /\ batch' = batch \ {c})
  PROVE  SoloInv'
<1>1. /\ StageInv /\ EntryInv /\ NewInv /\ FailedInv /\ ClosedInv /\ TableInv /\ FewInv
      /\ ServingInv /\ ConnTyped /\ PlaceInv /\ OwnInv /\ ChannelInv /\ EndingInv
  BY DEF SoloInv, ServerInv, ConnInv, IInv
<1>2. App \in Threads /\ Pollers \subseteq Threads /\ Threads = Pollers \union {App} /\ Timer \notin Threads
      /\ App \notin Pollers
  BY ThreadsKnown DEF Threads
<1>3. /\ \A u \in Threads : pc'[u] = IF u = t THEN "ending" ELSE pc[u]
      /\ conns' = [conns EXCEPT ![c].phase = "closed", ![c].timer = "cancelled",
                                ![c].by = t, ![c].back = back]
  BY <1>1 DEF EndBy, PlaceInv
<1>4. conns[c].handle \in Handles /\ Phase(c) # "none" /\ pc[App] \notin Before /\ c # None
  BY <1>1 DEF OwnInv, StageInv, Living, Freed, Conns, None
<1>5. \A h \in Handles : sock'[h] = IF h = conns[c].handle THEN "free" ELSE sock[h]
  <2>1. CASE Phase(c) = "failed"
    BY <1>1, <1>4, <2>1 DEF EndBy, Freed
  <2>2. CASE Phase(c) # "failed"
    BY <1>1, <2>2 DEF EndBy, Closes, ChannelInv
  <2> QED
    BY <2>1, <2>2
<1>6. \A d \in Conns :
        /\ Phase(d)' = (IF d = c THEN "closed" ELSE Phase(d))
        /\ conns'[d].handle = conns[d].handle
        /\ conns'[d].by = (IF d = c THEN t ELSE conns[d].by)
        /\ conns'[d].back = (IF d = c THEN back ELSE conns[d].back)
        /\ conns'[d].timer = (IF d = c THEN "cancelled" ELSE conns[d].timer)
  BY <1>1, <1>3 DEF ConnTyped, Connections, Phase
<1>7. \A d \in Conns : /\ Freed(d) \/ d = c => Freed(d)'
                       /\ Living(d)' => Living(d)
                       /\ Dying(d)' => Dying(d) \/ d = c
  BY <1>4, <1>5, <1>6 DEF Freed, Living, Dying
<1>8. StageInv'
  <2>1. pc'[App] = pc[App] \/ (t = App /\ pc[App] = "each" /\ pc'[App] = "ending")
    BY <1>2, <1>3
  <2>2. pc'[App] \notin Before /\ (pc'[App] \in Stopping <=> shut')
    BY <1>1, <1>4, <2>1 DEF StageInv, Before, Stopping
  <2>3. \A d \in Conns : conns'[d].timer = "armed" => conns[d].timer = "armed"
    BY <1>6
  <2>4. batch' = batch \/ shut'
    BY <1>1, <2>2 DEF StageInv, Stopping
  <2>5. \A d \in Conns : Dying(d)' /\ conns'[d].by = App =>
          \/ conns'[d].back = "each"
          \/ Dying(d) /\ conns[d].by = App /\ conns'[d].back = conns[d].back
    BY <1>6, <1>7
  <2> QED
    BY <1>1, <1>4, <2>2, <2>3, <2>4, <2>5, StageOn
<1>9. EntryInv'
  BY <1>1, <1>6, EntryLess
<1>10. \A u \in Pollers : /\ Phase(c) = "new" => serves[u] = c /\ pc[u] = "startConn"
                          /\ Phase(c) = "busy" => serves[u] = c /\ pc[u] = "message"
  BY <1>1 DEF NewInv, OnePoller
<1>11. NewInv'
  <2>1. \A u \in Threads : /\ serves'[u] # None =>
                                serves'[u] = serves[u] /\ serves[u] \in Conns /\ u \in Pollers
                           /\ u # t => serves'[u] = serves[u]
    BY <1>1 DEF ServingInv
  <2>2. ASSUME NEW d \in Conns, NEW u \in Pollers, d # c, serves[u] = d
        PROVE  serves'[u] = d /\ pc'[u] = pc[u]
    <3>1. u # t
      BY <2>2 DEF Conns, None
    <3> QED
      BY <1>2, <1>3, <2>1, <2>2, <3>1
  <2>3. \A d \in Conns :
          /\ Phase(d)' = "new" => \E u \in Pollers : serves'[u] = d /\ pc'[u] = "startConn"
          /\ Phase(d)' = "busy" => \E u \in Pollers : serves'[u] = d /\ pc'[u] = "message"
    <3> SUFFICES ASSUME NEW d \in Conns, d # c
                 PROVE  /\ Phase(d) = "new" => \E u \in Pollers : serves'[u] = d /\ pc'[u] = "startConn"
                        /\ Phase(d) = "busy" => \E u \in Pollers : serves'[u] = d /\ pc'[u] = "message"
      BY <1>6
    <3>1. /\ Phase(d) = "new" => \E u \in Pollers : serves[u] = d /\ pc[u] = "startConn"
          /\ Phase(d) = "busy" => \E u \in Pollers : serves[u] = d /\ pc[u] = "message"
      BY <1>1 DEF NewInv
    <3> QED
      BY <2>2, <3>1
  <2>4. \A u \in Threads : serves'[u] # None =>
          \/ Phase(serves[u])' \in {"new", "busy", "cancelled", "stuck"}
          \/ Phase(serves[u])' \in Ended /\ Freed(serves[u])'
    <3>1. \A d \in Conns : \/ Phase(d) \in {"new", "busy", "cancelled", "stuck"}
                           \/ Phase(d) \in Ended /\ Freed(d)
                        => \/ Phase(d)' \in {"new", "busy", "cancelled", "stuck"}
                           \/ Phase(d)' \in Ended /\ Freed(d)'
      BY <1>6, <1>7 DEF Ended
    <3> QED
      BY <1>1, <2>1, <3>1 DEF NewInv
  <2>5. \A u \in Threads : pc'[u] \in {"startConn", "dropConn", "ending"} /\ serves'[u] # None =>
          Phase(serves[u])' \in Ended \union {"new"}
    <3> SUFFICES ASSUME NEW u \in Threads, pc'[u] \in {"startConn", "dropConn", "ending"},
                        serves'[u] # None, serves[u] # c
                 PROVE  Phase(serves[u])' \in Ended \union {"new"}
      BY <1>6, <2>1 DEF Ended
    <3>1. u # t /\ serves[u] \in Conns /\ pc'[u] = pc[u]
      BY <1>3, <2>1
    <3> QED
      BY <1>1, <1>6, <2>1, <3>1 DEF NewInv
  <2>6. \A u \in Threads : pc'[u] = "dropConn" => serves'[u] # None /\ Phase(serves[u])' # "new"
    <3> SUFFICES ASSUME NEW u \in Threads, pc'[u] = "dropConn"
                 PROVE  serves'[u] # None /\ Phase(serves[u])' # "new"
      OBVIOUS
    <3>1. serves'[u] # None
      BY DEF ServingInv, Serving
    <3>2. pc[u] = "dropConn"
      BY <1>3
    <3> QED
      BY <1>1, <1>6, <2>1, <3>1, <3>2 DEF NewInv
  <2> QED
    BY <2>1, <2>3, <2>4, <2>5, <2>6 DEF NewInv, Phase, Freed
<1>12. ClosedInv'
  <2> SUFFICES ASSUME NEW d \in Conns, Phase(d)' = "closed"
               PROVE  Freed(d)' /\ \A u \in Pollers : conns'[d].by = u \/ (shut' /\ pc'[u] # "socket")
    BY DEF ClosedInv
  <2>1. CASE d = c
    <3>1. CASE t \in Pollers
      BY <1>6, <1>7, <2>1, <3>1 DEF OnePoller
    <3>2. CASE t \notin Pollers
      <4>1. Phase(c) \in {"new", "busy", "failed"} /\ shut'
        BY <3>2
      <4>2. \A u \in Pollers : pc[u] # "socket" /\ pc'[u] = pc[u]
        BY <1>2, <1>3, <1>10, <3>2, <4>1
      <4> QED
        BY <1>7, <2>1, <4>1, <4>2
    <3> QED
      BY <3>1, <3>2
  <2>2. CASE d # c
    <3>1. Phase(d) = "closed" /\ conns'[d].by = conns[d].by
      BY <1>6, <2>2
    <3>2. \A u \in Pollers : pc'[u] = "socket" => pc[u] = "socket"
      BY <1>2, <1>3
    <3> QED
      BY <1>1, <1>7, <3>1, <3>2 DEF ClosedInv
  <2> QED
    BY <2>1, <2>2
<1>13. TableInv'
  BY <1>1, <1>2, <1>3, <1>6, <1>7, TableLess
<1>14. FewInv'
  <2>1. Entering' \subseteq Entering
    BY <1>2, <1>3 DEF Entering
  <2>2. LateConns' \subseteq LateConns
    BY <1>6 DEF LateConns
  <2>3. pc'[App] = pc[App] \/ (t = App /\ pc[App] = "each" /\ pc'[App] = "ending")
    BY <1>2, <1>3
  <2>4. /\ {pc[App], pc'[App]} \subseteq {"each", "ending"} => how = "close" \/ pc'[App] = "each"
        /\ pc'[App] = pc[App] \/ {pc[App], pc'[App]} \subseteq {"each", "ending"}
        /\ batch' = batch \/ pc[App] \in {"each", "ending"}
    BY <1>1, <1>2, <2>3 DEF FewInv
  <2> QED
    BY <1>1, <2>1, <2>2, <2>4, FewLess
<1>15. FailedInv'
  <2> SUFFICES ASSUME NEW d \in Conns, Phase(d)' = "failed"
               PROVE  /\ d \in Entries' => \E u \in Pollers : serves'[u] = d /\ pc'[u] = "dropConn"
                      /\ d \in batch' \/ conns'[d].timer = "armed" =>
                           Freed(d)' /\ shut' /\ \A u \in Pollers : pc'[u] # "socket"
    BY DEF FailedInv
  <2>1. d # c /\ Phase(d) = "failed" /\ conns'[d].timer = conns[d].timer
    BY <1>6
  <2>2. d \in Entries => \E u \in Pollers : serves'[u] = d /\ pc'[u] = "dropConn"
    <3> SUFFICES ASSUME NEW u \in Pollers, serves[u] = d, pc[u] = "dropConn"
                 PROVE  serves'[u] = d /\ pc'[u] = "dropConn"
      BY <1>1, <2>1 DEF FailedInv
    <3>1. u # t
      OBVIOUS
    <3> QED
      BY <1>1, <1>2, <1>3, <3>1 DEF ServingInv
  <2>3. d \in batch' => d \in batch
    OBVIOUS
  <2>4. \A u \in Pollers : pc'[u] = "socket" => pc[u] = "socket"
    BY <1>2, <1>3
  <2>5. Entries' = Entries
    BY DEF Entries
  <2> QED
    BY <1>1, <1>7, <2>1, <2>2, <2>3, <2>4, <2>5 DEF FailedInv
<1> QED
  BY <1>8, <1>9, <1>11, <1>12, <1>13, <1>14, <1>15 DEF SoloInv

\* The acceptor makes sockets in go_accepting_() only, and none after shutdown().
LEMMA AcceptShape ==
  ASSUME IInv, SocketInv, NEW t \in Threads, AcceptStep(t) \/ DispatchAccept(t) \/ DispatchError(t)
  PROVE  /\ UNCHANGED shut
         /\ \A h \in Handles : sock[h] = "free" /\ sock'[h] # "free" => pc[t] = "socket"
         /\ pc'[t] = "socket" => pc[t] = "socket" \/ ~shut
         /\ pc'[t] = "onConn" => pc[t] = "onConn" \/ ~shut
         /\ t = App => pc[t] \in {"accept", "socket", "acceptEx"}
                       /\ pc'[t] \in {"start", "accept", "socket", "acceptEx"}
<1>1. UNCHANGED shut
  BY DEF AcceptStep, GoAccepting, NewSocket, NoSocket, Accepting, AcceptRefused,
     AcceptedTooLate, UpdateFails, Accepted, OnError, OnLast, ResetChannel, ReleaseFailed,
     NullChannel, DispatchAccept, DispatchError, objectVars
<1>2. pc \in [Threads -> Labels] /\ sock \in [Handles -> Kinds] /\ (t = App => pc[t] \in AppLabels)
  BY DEF IInv, PlaceInv, ChannelInv
<1>3. \A h \in Handles : sock[h] = "free" /\ sock'[h] # "free" => pc[t] = "socket"
  <2>1. CASE NewSocket(t)
    BY <2>1 DEF NewSocket, At
  <2>2. CASE OnError(t)
    <3>1. old[t] \in Live
      <4>1. pc[t] \in {"onReset", "onAborted"}
        BY <2>2 DEF OnError, At
      <4>2. old[t] # 0
        BY <4>1 DEF IInv, PlaceInv, AfterFailure
      <4> QED
        BY <4>1, <4>2 DEF Live, HeldBy, Failed
    <3>2. acceptHandle[old[t]] \in Handles /\ sock[acceptHandle[old[t]]] = "accept"
      BY <3>1 DEF SocketInv
    <3> QED
      BY <1>2, <2>2, <3>2 DEF OnError
  <2>3. CASE UNCHANGED sock \/ \E c : CloseAccepted(c)
    BY <1>2, <2>3 DEF CloseAccepted
  <2>4. NewSocket(t) \/ OnError(t) \/ UNCHANGED sock \/ \E c : CloseAccepted(c)
    BY DEF AcceptStep, GoAccepting, NoSocket, Accepting, AcceptRefused,
       AcceptedTooLate, UpdateFails, Accepted, OnLast, ResetChannel, ReleaseFailed,
       NullChannel, DispatchAccept, DispatchError, kernelVars
  <2> QED
    BY <2>1, <2>2, <2>3, <2>4
<1>4. CASE GoAccepting(t)
  <2>1. /\ pc[t] = "accept"
        /\ \/ pc' = [pc EXCEPT ![t] = "socket"] /\ ~shut
           \/ \E to \in {"start", "release", "idle"} :
                pc' = [pc EXCEPT ![t] = to] /\ (t = App => to = "start")
    BY <1>4 DEF GoAccepting, Listening, Go, At, Return, GoWith
  <2> QED
    BY <1>1, <1>2, <1>3, <2>1
<1>5. CASE NewSocket(t) \/ NoSocket(t) \/ Accepting(t) \/ AcceptRefused(t)
  <2>1. pc[t] \in {"socket", "acceptEx"}
        /\ \E to \in {"acceptEx", "start", "release", "idle"} :
             pc' = [pc EXCEPT ![t] = to] /\ (t = App => to \in {"start", "acceptEx"})
    BY <1>5 DEF NewSocket, NoSocket, Accepting, AcceptRefused, At, Return, GoWith
  <2> QED
    BY <1>1, <1>2, <1>3, <2>1
<1>6. CASE AcceptedTooLate(t) \/ UpdateFails(t) \/ Accepted(t)
  <2>1. pc[t] = "onAccept"
        /\ \E to \in {"start", "accept", "release", "idle", "onConn"} :
             pc' = [pc EXCEPT ![t] = to] /\ (to = "onConn" => ~shut)
    BY <1>6 DEF AcceptedTooLate, UpdateFails, Accepted, At, Return, Go, GoWith
  <2>2. t # App
    BY <1>2, <2>1 DEF AppLabels
  <2> QED
    BY <1>1, <1>2, <1>3, <2>1, <2>2
<1>7. CASE OnError(t) \/ OnLast(t) \/ ResetChannel(t) \/ ReleaseFailed(t)
  <2>1. pc[t] \in {"onReset", "onAborted", "onLast", "resetChannel", "release"}
        /\ \E to \in {"accept", "onLast", "resetChannel", "release", "idle"} :
             pc' = [pc EXCEPT ![t] = to]
    BY <1>7 DEF OnError, OnLast, ResetChannel, ReleaseFailed, AfterError, At, Go
  <2>2. t # App
    BY <1>2, <2>1 DEF AppLabels
  <2> QED
    BY <1>1, <1>2, <1>3, <2>1, <2>2
<1>8. CASE NullChannel(t)
  <2>1. pc' = pc /\ pc[t] \in {"socket", "acceptEx", "onAccept", "onReset", "onAborted", "onLast"}
    BY <1>8 DEF NullChannel, At, threadVars
  <2> QED
    BY <1>1, <1>2, <1>3, <2>1 DEF AppLabels
<1>9. CASE DispatchAccept(t) \/ DispatchError(t)
  <2>1. t # App /\ \E to \in {"onAccept", "onReset", "onAborted"} : pc' = [pc EXCEPT ![t] = to]
    BY <1>9, AcceptorAssumption DEF DispatchAccept, DispatchError, Dequeues, GoWith
  <2> QED
    BY <1>1, <1>2, <1>3, <2>1
<1> QED
  BY <1>4, <1>5, <1>6, <1>7, <1>8, <1>9 DEF AcceptStep

LEMMA AcceptorSolo ==
  ASSUME OnePoller, ServerInv, SoloInv, NEW t \in Threads,
         AcceptStep(t) \/ DispatchAccept(t) \/ DispatchError(t), UNCHANGED serverVars
  PROVE  SoloInv'
<1>1. IInv /\ SocketInv /\ PlaceInv /\ ChannelInv /\ ServingInv /\ StageInv
  BY DEF ServerInv, IInv, ConnInv, SoloInv
<1>2. UNCHANGED <<conns, table, serves, how, batch>>
  BY DEF serverVars, tableVars, endVars
<1>3. PICK to : /\ pc' = [pc EXCEPT ![t] = to] /\ pc[t] \notin Handing /\ to \notin Handing
  BY <1>1, AcceptPlaces
<1>4. \A u \in Threads : pc'[u] = IF u = t THEN to ELSE pc[u]
  BY <1>1, <1>3 DEF PlaceInv
<1>5. CASE t = App
  <2>1. pc[App] \in Before /\ to \in Before \union {"serving"} /\ UNCHANGED shut
    <3>1. "start" \in Before /\ "accept" \in Before /\ "socket" \in Before /\ "acceptEx" \in Before
      BY DEF Before
    <3> QED
      BY <1>1, <1>4, <1>5, <3>1, AcceptShape
  <2> QED
    BY <1>2, <1>3, <1>5, <2>1, SoloBefore
<1>6. CASE t # App
  <2>1. t \in Pollers /\ pc'[App] = pc[App] /\ Pollers \subseteq Threads
    BY <1>4, <1>6, ThreadsKnown DEF Threads
  <2>2. pc[App] \notin Before
    <3>1. CASE pc[t] # "idle"
      BY <1>1, <2>1, <3>1 DEF StageInv
    <3>2. CASE pc[t] = "idle"
      <4>1. DispatchAccept(t) \/ DispatchError(t)
        BY <3>2 DEF AcceptStep, GoAccepting, NewSocket, NoSocket, Accepting, AcceptRefused,
           AcceptedTooLate, UpdateFails, Accepted, OnError, OnLast, ResetChannel,
           ReleaseFailed, NullChannel, At
      <4>2. Dequeues(t) /\ posted # {}
        BY <4>1 DEF DispatchAccept, DispatchError
      <4> QED
        BY <1>1, <4>2 DEF Dequeues, ChannelInv, Before
    <3> QED
      BY <3>1, <3>2
  <2>3. /\ UNCHANGED shut
        /\ \A h \in Handles : sock[h] = "free" /\ sock'[h] # "free" => \E u \in Pollers : pc[u] = "socket"
        /\ \A u \in Pollers : pc'[u] = "socket" => pc[u] = "socket" \/ ~shut
        /\ pc'[t] = "onConn" => pc[t] = "onConn" \/ ~shut
    BY <1>1, <1>4, <2>1, AcceptShape
  <2>4. \A u \in Pollers : pc'[u] \in {"onConn", "insert"} => pc[u] \in {"onConn", "insert"} \/ ~shut
    BY <1>3, <1>4, <2>1, <2>3 DEF Handing
  <2>5. \A u \in Pollers : serves[u] # None => u # t
    BY <1>1, <1>3, <2>1 DEF ServingInv, Serving, Handing
  <2>6. \A u \in Threads : pc'[u] = "dropConn" => pc[u] = "dropConn"
    BY <1>3, <1>4 DEF Handing
  <2>7. ServingInv'
    BY AcceptorServer DEF ServerInv, ConnInv
  <2> QED
    BY <1>2, <1>4, <2>1, <2>2, <2>3, <2>4, <2>5, <2>6, <2>7, SoloOn
<1> QED
  BY <1>5, <1>6

\* on_new_connection_(), as long as there is no connection yet, or one that has ended.
LEMMA HandSolo ==
  ASSUME OnePoller, ServerInv, SoloInv, NEW t \in Threads, Refuse(t) \/ Admit(t) \/ StartConnLate(t)
  PROVE  SoloInv'
<1>1. IInv /\ SocketInv /\ PlaceInv /\ ChannelInv /\ ServingInv /\ StageInv
  BY DEF ServerInv, IInv, ConnInv, SoloInv
<1>2. /\ UNCHANGED <<conns, table, serves, how, batch, shut>>
      /\ \E to \in {"accept", "insert", "dropConn"} :
           /\ pc' = [pc EXCEPT ![t] = to]
           /\ pc[t] = IF to = "dropConn" THEN "startConn" ELSE "onConn"
           /\ to = "dropConn" => Phase(serves[t]) # "new"
  BY DEF Refuse, Admit, StartConnLate, Handed, GoWith, Go, At, Quiet, objectVars, serverVars,
     tableVars, endVars
<1>3. PICK to \in {"accept", "insert", "dropConn"} :
           /\ pc' = [pc EXCEPT ![t] = to]
           /\ pc[t] = IF to = "dropConn" THEN "startConn" ELSE "onConn"
           /\ to = "dropConn" => Phase(serves[t]) # "new"
  BY <1>2
<1>4. \A u \in Threads : pc'[u] = IF u = t THEN to ELSE pc[u]
  BY <1>1, <1>3 DEF PlaceInv
<1>5. t \in Pollers /\ Pollers \subseteq Threads /\ App \in Threads /\ App # t
  BY <1>1, <1>3, ThreadsKnown DEF PlaceInv, AppLabels, Threads
<1>6. pc[App] \notin Before
  BY <1>1, <1>3, <1>5 DEF StageInv
<1>7. \A h \in Handles : sock[h] = "free" => sock'[h] = "free"
  <2>1. CASE Refuse(t)
    BY <1>1, <2>1 DEF Refuse, Closes, ChannelInv
  <2>2. CASE Admit(t)
    <3>1. pc[t] = "onConn" /\ ctx[t] # 0
      BY <1>1, <2>2 DEF Admit, At, PlaceInv, WithContext
    <3>2. ctx[t] \in Live
      BY <3>1 DEF Live, HeldBy, Handing
    <3>3. Socket(t) \in Handles /\ sock[Socket(t)] = "accept"
      BY <1>1, <3>2 DEF SocketInv, Socket
    <3> QED
      BY <1>1, <2>2, <3>3 DEF Admit, ChannelInv
  <2>3. CASE StartConnLate(t)
    BY <2>3 DEF StartConnLate
  <2> QED
    BY <2>1, <2>2, <2>3
<1>8. \A u \in Pollers : serves[u] # None =>
        \/ pc'[u] = pc[u]
        \/ pc[u] = "startConn" /\ pc'[u] = "dropConn" /\ Phase(serves[u]) # "new"
  BY <1>1, <1>3, <1>4, <1>5 DEF ServingInv, Serving
<1>9. \A u \in Threads : pc'[u] = "dropConn" /\ pc[u] # "dropConn" => Phase(serves[u]) # "new"
  BY <1>3, <1>4
<1>10. \A u \in Pollers : /\ pc'[u] = "socket" => pc[u] = "socket"
                          /\ pc'[u] \in {"onConn", "insert"} => pc[u] \in {"onConn", "insert"}
  BY <1>3, <1>4, <1>5
<1>11. ServingInv'
  BY RefuseServer, AdmitServer, StartConnFailsServer DEF ServerInv, ConnInv
<1> QED
  BY <1>2, <1>4, <1>5, <1>6, <1>7, <1>8, <1>9, <1>10, <1>11, SoloOn

\* on_new_connection_() puts the connection into the table.
LEMMA InsertSolo ==
  ASSUME OnePoller, ServerInv, SoloInv, NEW t \in Threads, Insert(t)
  PROVE  SoloInv'
<1>1. /\ StageInv /\ EntryInv /\ NewInv /\ FailedInv /\ ClosedInv /\ TableInv /\ FewInv
      /\ ServingInv /\ ConnTyped /\ PlaceInv /\ OwnInv
  BY DEF SoloInv, ServerInv, ConnInv, IInv
<1>2. PICK c \in Conns :
        /\ Phase(c) = "none"
        /\ conns' = [conns EXCEPT ![c].phase = "new", ![c].handle = Socket(t)]
        /\ table' = [table EXCEPT ![Socket(t)] = c]
        /\ serves' = [serves EXCEPT ![t] = c]
  BY DEF Insert
<1>3. /\ pc[t] = "insert" /\ pc' = [pc EXCEPT ![t] = "startConn"]
      /\ UNCHANGED <<sock, how, batch, shut>>
  BY DEF Insert, At, Go, Quiet, objectVars, endVars
<1>4. /\ t \in Pollers /\ App # t /\ App \in Threads /\ Pollers \subseteq Threads
      /\ Threads = Pollers \union {App}
  BY <1>1, <1>3, ThreadsKnown DEF PlaceInv, AppLabels, Threads
<1>5. /\ \A u \in Threads : pc'[u] = IF u = t THEN "startConn" ELSE pc[u]
      /\ \A u \in Threads : serves'[u] = IF u = t THEN c ELSE serves[u]
      /\ \A u \in Pollers : u = t
  BY <1>1, <1>2, <1>3, <1>4 DEF PlaceInv, ServingInv, OnePoller
<1>6. Socket(t) \in Handles /\ \A d \in Conns : Living(d) => conns[d].handle # Socket(t)
  BY <1>1, <1>3 DEF OwnInv
<1>7. \A d \in Conns : /\ Phase(d)' = (IF d = c THEN "new" ELSE Phase(d))
                       /\ conns'[d].handle = (IF d = c THEN Socket(t) ELSE conns[d].handle)
                       /\ conns'[d].by = conns[d].by /\ conns'[d].timer = conns[d].timer
                       /\ conns'[d].back = conns[d].back
  BY <1>1, <1>2 DEF ConnTyped, Connections, Phase
<1>8. \A h \in Handles : table'[h] = IF h = Socket(t) THEN c ELSE table[h]
  BY <1>1, <1>2 DEF ConnTyped
<1>9. pc'[App] = pc[App] /\ pc[App] \notin Before
  BY <1>1, <1>3, <1>4, <1>5 DEF StageInv
<1>10. StageInv'
  <2>1. \A d \in Conns : Dying(d)' => Dying(d)
    BY <1>7 DEF Dying
  <2> QED
    BY <1>1, <1>3, <1>7, <1>9, <2>1, StageOn DEF StageInv
<1>11. EntryInv'
  <2> SUFFICES ASSUME NEW h \in Handles, table'[h] # None
               PROVE  /\ conns'[table'[h]].handle = h
                      /\ conns'[table'[h]].phase \notin {"none", "erased", "told"}
    BY DEF EntryInv, Phase
  <2>1. CASE h = Socket(t)
    BY <1>7, <1>8, <2>1 DEF Phase
  <2>2. CASE h # Socket(t)
    <3>1. table'[h] = table[h] /\ table[h] \in Conns
      BY <1>1, <1>8, <2>2 DEF ConnTyped
    <3>2. conns[table[h]].handle = h /\ Phase(table[h]) \notin {"none", "erased", "told"}
      BY <1>1, <3>1, <2>2 DEF EntryInv
    <3>3. table[h] # c
      BY <1>2, <3>2
    <3> QED
      BY <1>7, <3>1, <3>2, <3>3 DEF Phase
  <2> QED
    BY <2>1, <2>2
<1>12. NewInv'
  <2>1. \A u \in Threads : u # t => serves[u] = None
    BY <1>1, <1>5 DEF ServingInv
  <2>2. \A d \in Conns : Phase(d) \notin {"new", "busy"}
    <3> SUFFICES ASSUME NEW d \in Conns, Phase(d) \in {"new", "busy"} PROVE FALSE
      OBVIOUS
    <3>1. PICK u \in Pollers : pc[u] \in {"startConn", "message"}
      BY <1>1 DEF NewInv
    <3> QED
      BY <1>3, <1>5, <3>1
  <2>3. /\ \A d \in Conns : Phase(d)' = "new" => \E u \in Pollers : serves'[u] = d /\ pc'[u] = "startConn"
        /\ \A d \in Conns : Phase(d)' # "busy"
    BY <1>4, <1>5, <1>7, <2>2
  <2>4. \A u \in Threads : serves'[u] # None => conns'[serves'[u]].phase = "new"
    BY <1>5, <1>7, <2>1 DEF Phase
  <2>5. \A u \in Threads : pc'[u] # "dropConn"
    BY <1>1, <1>4, <1>5 DEF PlaceInv, AppLabels
  <2> QED
    BY <2>3, <2>4, <2>5 DEF NewInv, Phase
<1>13. ClosedInv'
  <2> SUFFICES ASSUME NEW d \in Conns, Phase(d)' = "closed"
               PROVE  Freed(d)' /\ \A u \in Pollers : conns'[d].by = u \/ (shut' /\ pc'[u] # "socket")
    BY DEF ClosedInv
  <2>1. d # c /\ Phase(d) = "closed"
    BY <1>7
  <2> QED
    BY <1>1, <1>3, <1>5, <1>7, <2>1 DEF ClosedInv, Freed
<1>14. TableInv'
  <2> SUFFICES ASSUME pc'[App] \notin {"stopPolls", "down"}, NEW d \in Conns, Living(d)'
               PROVE  table'[conns'[d].handle] = d
    BY DEF TableInv
  <2>1. CASE d = c
    BY <1>6, <1>7, <1>8, <2>1
  <2>2. CASE d # c
    <3>1. Living(d)
      BY <1>7, <2>2 DEF Living
    <3>2. conns[d].handle \in Handles /\ conns[d].handle # Socket(t)
          /\ table[conns[d].handle] = d
      BY <1>1, <1>6, <1>9, <3>1 DEF OwnInv, TableInv
    <3> QED
      BY <1>7, <1>8, <2>2, <3>2
  <2> QED
    BY <2>1, <2>2
<1>15. FewInv'
  <2>1. AfterCopy' => AfterCopy
    BY <1>3, <1>9 DEF AfterCopy
  <2>2. AfterCopy => LateConns = {}
    BY <1>1, <1>3, <1>4 DEF FewInv, Entering
  <2>3. AfterCopy => LateConns' \subseteq {c}
    BY <1>3, <1>7, <2>2 DEF LateConns
  <2>4. Entering' = {}
    BY <1>4, <1>5 DEF Entering
  <2>5. AfterCopy' => /\ \A d, e \in LateConns' : d = e
                      /\ LateConns' # {} => Entering' = {} /\ Pollers # {}
    BY <1>4, <2>1, <2>3, <2>4
  <2> QED
    BY <1>1, <1>3, <1>9, <2>5 DEF FewInv
<1>16. FailedInv'
  <2> SUFFICES ASSUME NEW d \in Conns, Phase(d)' = "failed"
               PROVE  /\ d \notin Entries'
                      /\ d \in batch \/ conns'[d].timer = "armed" =>
                           Freed(d)' /\ shut /\ \A u \in Pollers : pc'[u] # "socket"
    BY <1>3 DEF FailedInv
  <2>1. d # c /\ Phase(d) = "failed"
    BY <1>7
  <2>2. d \notin Entries
    BY <1>1, <1>3, <1>5, <2>1 DEF FailedInv
  <2>3. d \notin Entries'
    BY <1>8, <2>1, <2>2 DEF Entries
  <2> QED
    BY <1>1, <1>3, <1>5, <1>7, <2>1, <2>3 DEF FailedInv, Freed
<1> QED
  BY <1>10, <1>11, <1>12, <1>13, <1>14, <1>15, <1>16 DEF SoloInv

\* on_new_connection_() returns: the connection runs, or its entry is cleared.
LEMMA StartSolo ==
  ASSUME OnePoller, ServerInv, SoloInv, NEW t \in Threads, StartConn(t) \/ DropConn(t)
  PROVE  SoloInv'
<1>1. NewInv /\ EntryInv /\ ServingInv /\ ConnTyped /\ PlaceInv /\ OwnInv
  BY DEF SoloInv, ServerInv, ConnInv, IInv
<1>2. /\ pc[t] \in {"startConn", "dropConn"} /\ pc' = [pc EXCEPT ![t] = "accept"]
      /\ serves' = [serves EXCEPT ![t] = None]
      /\ UNCHANGED <<sock, shut, how, batch>>
  BY DEF StartConn, DropConn, Handed, GoWith, At, objectVars, kernelVars, endVars
<1>3. t \in Pollers /\ serves[t] \in Conns /\ serves[t] # None /\ conns[serves[t]].handle = Socket(t)
  <2>1. t \in Pollers /\ ctx[t] # 0
    BY <1>1, <1>2, ThreadsKnown DEF PlaceInv, AppLabels, WithContext, Threads
  <2> QED
    BY <1>1, <1>2, <2>1 DEF ServingInv, Serving
<1>4. CASE StartConn(t)
  <2>1. /\ pc[t] = "startConn" /\ Phase(serves[t]) = "new" /\ table' = table
        /\ conns' = [conns EXCEPT ![serves[t]].phase = "up", ![serves[t]].down = FALSE]
    BY <1>4 DEF StartConn, At
  <2>2. \A c \in Conns :
           /\ conns'[c].handle = conns[c].handle /\ conns'[c].timer = conns[c].timer
           /\ conns'[c].by = conns[c].by /\ conns'[c].back = conns[c].back
           /\ Phase(c)' = (IF c = serves[t] /\ pc[t] = "startConn" THEN "up" ELSE Phase(c))
    BY <1>1, <1>3, <2>1 DEF ConnTyped, Connections, Phase
  <2>3. \A c \in Conns : Living(c)' => Living(c) /\ table'[conns[c].handle] = table[conns[c].handle]
    BY <2>1, <2>2 DEF Living
  <2> QED
    BY <1>2, <1>3, <2>1, <2>2, <2>3, SoloFinish
<1>5. CASE DropConn(t)
  <2>1. pc[t] = "dropConn" /\ conns' = conns /\ table' = [table EXCEPT ![Socket(t)] = None]
    BY <1>5 DEF DropConn, At, EraseEntry
  <2>2. Freed(serves[t])
    <3>1. Phase(serves[t]) \in Ended
      BY <1>1, <1>3, <2>1, ThreadsKnown DEF NewInv
    <3> QED
      BY <1>1, <1>3, <3>1, ThreadsKnown DEF NewInv, Ended
  <2>3. \A c \in Conns : Living(c) => conns[c].handle # Socket(t)
    BY <1>1, <1>3, <2>2 DEF OwnInv, Freed
  <2>4. \A c \in Conns : Living(c)' => Living(c) /\ table'[conns[c].handle] = table[conns[c].handle]
    BY <1>1, <2>1, <2>3 DEF Living, Phase, ConnTyped
  <2>5. \A h \in Handles : table'[h] \in {table[h], None}
    BY <1>1, <2>1 DEF ConnTyped
  <2>6. serves[t] \notin Entries'
    <3> SUFFICES ASSUME NEW h \in Handles, table'[h] = serves[t] PROVE FALSE
      BY DEF Entries
    <3>1. table[h] = serves[t] /\ h # Socket(t)
      BY <1>1, <1>3, <2>1 DEF ConnTyped
    <3> QED
      BY <1>1, <1>3, <3>1 DEF EntryInv
  <2> QED
    BY <1>2, <1>3, <2>1, <2>4, <2>5, <2>6, SoloFinish DEF Phase
<1> QED
  BY <1>4, <1>5

\* start() fails.
LEMMA StartFailsSolo ==
  ASSUME OnePoller, ServerInv, SoloInv, NEW t \in Threads, StartConnFails(t)
  PROVE  SoloInv'
<1>1. /\ StageInv /\ EntryInv /\ NewInv /\ FailedInv /\ ClosedInv /\ TableInv /\ FewInv
      /\ ServingInv /\ ConnTyped /\ PlaceInv /\ OwnInv /\ ChannelInv
  BY DEF SoloInv, ServerInv, ConnInv, IInv
<1>2. /\ pc[t] = "startConn" /\ pc' = [pc EXCEPT ![t] = "dropConn"]
      /\ Phase(serves[t]) = "new" /\ Becomes(serves[t], "failed") /\ Closes(conns[serves[t]].handle)
      /\ UNCHANGED <<table, serves, how, batch, shut>>
  BY DEF StartConnFails, At, Go, Quiet, objectVars, endVars
<1>3. /\ t \in Pollers /\ App # t /\ App \in Threads /\ Pollers \subseteq Threads
      /\ Threads = Pollers \union {App} /\ serves[t] \in Conns /\ serves[t] # None
  BY <1>1, <1>2, ThreadsKnown DEF PlaceInv, AppLabels, ServingInv, Serving, Threads
<1>4. PICK c \in Conns : c = serves[t]
  BY <1>3
<1>5. /\ \A u \in Threads : pc'[u] = IF u = t THEN "dropConn" ELSE pc[u]
      /\ \A u \in Pollers : u = t
      /\ \A u \in Threads : serves[u] # None => u = t
  BY <1>1, <1>2, <1>3 DEF PlaceInv, ServingInv, OnePoller
<1>6. \A d \in Conns : /\ Phase(d)' = (IF d = c THEN "failed" ELSE Phase(d))
                       /\ conns'[d].handle = conns[d].handle
                       /\ conns'[d].by = conns[d].by /\ conns'[d].back = conns[d].back
                       /\ conns'[d].timer = conns[d].timer
  BY <1>1, <1>2, <1>4 DEF Becomes, ConnTyped, Connections, Phase
<1>7. conns[c].handle \in Handles /\ Phase(c) = "new"
  BY <1>1, <1>2, <1>4 DEF OwnInv, Living
<1>8. \A d \in Conns : Freed(d) \/ d = c => Freed(d)'
  BY <1>1, <1>2, <1>4, <1>6, <1>7 DEF Freed, Closes, ChannelInv
<1>9. pc'[App] = pc[App] /\ pc[App] \notin Before
  BY <1>1, <1>2, <1>3, <1>5 DEF StageInv
<1>10. StageInv'
  <2>1. \A d \in Conns : Dying(d)' => Dying(d)
    BY <1>6 DEF Dying
  <2> QED
    BY <1>1, <1>2, <1>6, <1>9, <2>1, StageOn DEF StageInv
<1>11. EntryInv'
  BY <1>1, <1>2, <1>6, EntryLess
<1>12. NewInv'
  <2>1. \A d \in Conns : Phase(d)' # "new"
    <3> SUFFICES ASSUME NEW d \in Conns, Phase(d)' = "new" PROVE FALSE
      OBVIOUS
    <3>1. Phase(d) = "new" /\ d # c
      BY <1>6
    <3>2. serves[t] = d
      BY <1>1, <1>5, <3>1 DEF NewInv
    <3> QED
      BY <1>4, <3>1, <3>2
  <2>2. \A d \in Conns : Phase(d)' # "busy"
    <3> SUFFICES ASSUME NEW d \in Conns, Phase(d)' = "busy" PROVE FALSE
      OBVIOUS
    <3>1. pc[t] = "message"
      BY <1>1, <1>5, <1>6 DEF NewInv
    <3> QED
      BY <1>2, <3>1
  <2>3. \A u \in Threads : serves'[u] # None => serves'[u] = c
    BY <1>2, <1>4, <1>5
  <2>4. \A u \in Threads : pc'[u] = "dropConn" => u = t
    BY <1>1, <1>3, <1>5 DEF PlaceInv, AppLabels
  <2>5. /\ conns'[c].phase = "failed" /\ "failed" \in Ended
        /\ conns'[c].handle \in Handles /\ sock'[conns'[c].handle] = "free"
    BY <1>6, <1>8 DEF Phase, Freed, Ended
  <2>6. \A u \in Threads : pc'[u] = "dropConn" => conns'[serves'[u]].phase # "new"
    BY <1>2, <1>4, <2>4, <2>5
  <2> QED
    BY <2>1, <2>2, <2>3, <2>5, <2>6 DEF NewInv, Phase, Freed
<1>13. ClosedInv'
  <2> SUFFICES ASSUME NEW d \in Conns, Phase(d)' = "closed"
               PROVE  Freed(d)' /\ \A u \in Pollers : conns'[d].by = u \/ (shut' /\ pc'[u] # "socket")
    BY DEF ClosedInv
  <2>1. d # c /\ Phase(d) = "closed"
    BY <1>6
  <2> QED
    BY <1>1, <1>2, <1>3, <1>5, <1>6, <1>8, <2>1 DEF ClosedInv
<1>14. TableInv'
  <2>1. \A d \in Conns : Living(d)' => Living(d)
    BY <1>6 DEF Living
  <2> QED
    BY <1>1, <1>2, <1>6, <1>9, <2>1, TableLess
<1>15. FewInv'
  <2>1. Entering' \subseteq Entering /\ LateConns' \subseteq LateConns
    BY <1>2, <1>3, <1>5, <1>6 DEF Entering, LateConns
  <2> QED
    BY <1>1, <1>2, <1>9, <2>1, FewLess DEF FewInv
<1>16. FailedInv'
  <2> SUFFICES ASSUME NEW d \in Conns, Phase(d)' = "failed"
               PROVE  /\ d \in Entries => \E u \in Pollers : serves'[u] = d /\ pc'[u] = "dropConn"
                      /\ d \in batch \/ conns'[d].timer = "armed" =>
                           Freed(d)' /\ shut /\ \A u \in Pollers : pc'[u] # "socket"
    BY <1>2 DEF FailedInv, Entries
  <2>1. CASE d = c
    <3>1. serves'[t] = d /\ pc'[t] = "dropConn"
      BY <1>2, <1>3, <1>4, <1>5, <2>1
    <3>2. d \in batch \/ conns'[d].timer = "armed" => shut
      BY <1>1, <1>6 DEF StageInv
    <3> QED
      BY <1>3, <1>5, <1>8, <2>1, <3>1, <3>2
  <2>2. CASE d # c
    <3>1. d \notin Entries
      BY <1>1, <1>2, <1>5, <1>6, <2>2 DEF FailedInv
    <3> QED
      BY <1>1, <1>3, <1>5, <1>6, <1>8, <2>2, <3>1 DEF FailedInv
  <2> QED
    BY <2>1, <2>2
<1> QED
  BY <1>10, <1>11, <1>12, <1>13, <1>14, <1>15, <1>16 DEF SoloInv

\* What is outstanding is cancelled.
LEMMA CancelSolo ==
  ASSUME ServerInv, SoloInv, NEW c \in Conns, Phase(c) \in {"up", "busy"}, Cancel(c),
         UNCHANGED <<pc, sock, serves, shut, how>>,
         batch' = batch \/ (batch' = batch \ {c} /\ pc[App] = "each")
  PROVE  SoloInv'
<1>1. ConnTyped
  BY DEF ServerInv, ConnInv
<1>2. \A d \in Conns :
        /\ conns'[d].handle = conns[d].handle
        /\ conns'[d].by = conns[d].by /\ conns'[d].back = conns[d].back
        /\ conns'[d].timer = (IF d = c THEN "cancelled" ELSE conns[d].timer)
        /\ Phase(d)' = (IF d = c THEN "cancelled" ELSE Phase(d))
  BY <1>1 DEF Cancel, ConnTyped, Connections, Phase
<1>3. \A d \in Conns : (Living(d)' => Living(d)) /\ (Dying(d)' => Dying(d))
  BY <1>2 DEF Living, Dying
<1>4. table' = table /\ \A d \in batch \ batch' : Phase(d)' \notin {"new", "up", "busy"}
  BY <1>2 DEF Cancel
<1>5. \A d \in Conns :
        /\ conns'[d].timer = "armed" => conns[d].timer = "armed"
        /\ \A p \in {"none", "new"} : Phase(d)' = p <=> Phase(d) = p
        /\ \A p \in {"up", "busy", "closed", "failed"} : Phase(d)' = p => Phase(d) = p
        /\ Phase(d) \in Ended => Phase(d)' \in Ended
        /\ Phase(d) \in {"busy", "cancelled", "stuck"} => Phase(d)' \in {"busy", "cancelled", "stuck"}
        /\ Phase(d)' \in {"erased", "told"} => Phase(d) \in {"erased", "told"}
  BY <1>2 DEF Ended
<1> QED
  BY <1>2, <1>3, <1>4, <1>5, SoloPhases

\* cleanup_() by a thread that is not handling an operation of the connection.
LEMMA CleanupSolo ==
  ASSUME OnePoller, ServerInv, ServingInv', SoloInv, NEW t \in Threads \union {Timer},
         NEW c \in Conns, NEW back, Cleanup(t, c, back), Quiet,
         t \in Pollers \/ shut,
         t \in Pollers => pc[t] \in {"startConn", "message"} /\ serves[t] = c,
         Phase(c) = "failed" => Freed(c) /\ (t \in Pollers \/ \A u \in Pollers : pc[u] # "socket"),
         t = App => pc[App] = "each" /\ how = "close" /\ back = "each",
         UNCHANGED <<serves, how>>,
         batch' = batch \/ (t = App /\ batch' = batch \ {c})
  PROVE  SoloInv'
<1>1. shut' = shut
  BY DEF Quiet, objectVars
<1>2. CASE Phase(c) \in {"new", "busy", "failed"} /\ EndBy(t, c, back) /\ UNCHANGED table
  <2>1. Living(c) \/ Phase(c) = "failed"
    BY <1>2 DEF Living
  <2> QED
    BY <1>1, <1>2, <2>1, SoloEnd
<1>3. CASE Phase(c) \in {"up", "busy"} /\ Cancel(c) /\ UNCHANGED <<sock, threadVars>>
  <2>1. batch' = batch \/ (batch' = batch \ {c} /\ pc[App] = "each")
    OBVIOUS
  <2> QED
    BY <1>1, <1>3, <2>1, CancelSolo DEF threadVars
<1> QED
  BY <1>2, <1>3 DEF Cleanup

\* A callback closes the connection it was called for.
LEMMA UserClosesSolo ==
  ASSUME OnePoller, OnlyClose, ServerInv, SoloInv, NEW t \in Threads, UserCloses(t)
  PROVE  SoloInv'
<1>1. /\ pc[t] \in {"startConn", "message"} /\ serves[t] \in Conns /\ CloseConn(t, serves[t], pc[t])
      /\ Closable(serves[t]) /\ Quiet /\ UNCHANGED <<serves, how, batch, stopped>>
  BY DEF UserCloses, UserMay, OnlyClose, InCallback, At, endVars
<1>2. /\ PlaceInv /\ ServingInv /\ NewInv
  BY DEF ServerInv, IInv, ConnInv, SoloInv
<1>3. t # App /\ t \in Pollers /\ serves[t] # None
  BY <1>1, <1>2, ThreadsKnown DEF PlaceInv, AppLabels, ServingInv, Serving, Threads
<1>4. Phase(serves[t]) = "failed" => Freed(serves[t])
  BY <1>2, <1>3 DEF NewInv
<1>5. ServingInv'
  BY UserClosesServer DEF ServerInv, ConnInv
<1> QED
  BY <1>1, <1>3, <1>4, <1>5, CleanupSolo DEF CloseConn

LEMMA ReadEndsSolo ==
  ASSUME OnePoller, ServerInv, SoloInv, NEW t \in Threads, ReadEnds(t)
  PROVE  SoloInv'
<1>1. /\ t \in Pollers /\ pc[t] = "idle" /\ t # App
      /\ UNCHANGED <<serves, how, stopped>> /\ UNCHANGED batch /\ UNCHANGED shut
  BY ThreadsKnown DEF ReadEnds, Dequeues, At, endVars, Quiet, objectVars
<1>2. PICK c \in Conns :
        \/ Phase(c) \in {"up", "busy", "cancelled"} /\ EndBy(t, c, "idle") /\ UNCHANGED table
        \/ Phase(c) = "up" /\ Cancel(c) /\ UNCHANGED <<sock, threadVars>>
  BY DEF ReadEnds
<1>3. serves[t] = None
  BY <1>1 DEF ServerInv, ConnInv, ServingInv, Serving
<1>4. ServingInv'
  BY ReadEndsServer DEF ServerInv, ConnInv
<1>5. CASE Phase(c) \in {"up", "busy", "cancelled"} /\ EndBy(t, c, "idle") /\ UNCHANGED table
  BY <1>1, <1>3, <1>4, <1>5, SoloEnd DEF Living
<1>6. CASE Phase(c) = "up" /\ Cancel(c) /\ UNCHANGED <<sock, threadVars>>
  BY <1>1, <1>6, CancelSolo DEF threadVars
<1> QED
  BY <1>2, <1>5, <1>6

\* A thread goes into on_message_func_ or has come back from it.
LEMMA SoloMessage ==
  ASSUME OnePoller, ServerInv, SoloInv, NEW t \in Pollers, NEW c \in Conns,
         NEW to \in {"idle", "message"}, pc[t] = (IF to = "message" THEN "idle" ELSE "message"),
         pc' = [pc EXCEPT ![t] = to],
         serves' = [serves EXCEPT ![t] = IF to = "message" THEN c ELSE None],
         UNCHANGED <<table, sock, shut, how, batch>>, Phase(c) # "none",
         \A d \in Conns :
           /\ conns'[d].handle = conns[d].handle
           /\ conns'[d].by = conns[d].by /\ conns'[d].back = conns[d].back
           /\ conns'[d].timer = "armed" => conns[d].timer = "armed"
           /\ d # c => Phase(d)' = Phase(d),
         IF to = "message" THEN Phase(c) = "up" /\ Phase(c)' = "busy"
           ELSE /\ serves[t] = c
                /\ \/ Phase(c) = "busy" /\ Phase(c)' \in {"up", "cancelled"}
                   \/ Phase(c) # "busy" /\ Phase(c)' = Phase(c)
  PROVE  SoloInv'
<1>1. /\ StageInv /\ EntryInv /\ NewInv /\ FailedInv /\ ClosedInv /\ TableInv /\ FewInv
      /\ ServingInv /\ ConnTyped /\ PlaceInv
  BY DEF SoloInv, ServerInv, ConnInv, IInv
<1>2. App \in Threads /\ App # t /\ Pollers \subseteq Threads /\ Threads = Pollers \union {App}
  BY ThreadsKnown DEF Threads
<1>3. /\ \A u \in Threads : pc'[u] = IF u = t THEN to ELSE pc[u]
      /\ \A u \in Threads : serves'[u] # None => u = t /\ to = "message" /\ serves'[u] = c
      /\ \A u \in Pollers : u = t
  BY <1>1, <1>2 DEF PlaceInv, ServingInv, OnePoller
<1>4. pc'[App] = pc[App] /\ pc[App] \notin Before
  BY <1>1, <1>2, <1>3 DEF StageInv
<1>5. /\ \A d \in Conns : Phase(d)' = Phase(d) \/ (d = c /\ Phase(d)' \in {"up", "busy", "cancelled"})
      /\ \A d \in Conns : (Living(d)' => Living(d)) /\ (Dying(d)' => Dying(d)) /\ (Freed(d) => Freed(d)')
  BY DEF Living, Dying, Freed
<1>6. StageInv'
  BY <1>1, <1>4, <1>5, StageOn DEF StageInv
<1>7. EntryInv'
  BY <1>1, <1>5, EntryLess
<1>8. \A d \in Conns : Phase(d)' # "new" /\ (Phase(d)' = "busy" => d = c /\ to = "message")
  <2> SUFFICES ASSUME NEW d \in Conns
               PROVE  Phase(d)' # "new" /\ (Phase(d)' = "busy" => d = c /\ to = "message")
    OBVIOUS
  <2>1. Phase(d) # "new"
    BY <1>1, <1>3 DEF NewInv
  <2>2. Phase(d) = "busy" => serves[t] = d /\ pc[t] = "message"
    BY <1>1, <1>3 DEF NewInv
  <2>3. pc[t] = "idle" => serves[t] = None
    BY <1>1, <1>2 DEF ServingInv, Serving
  <2> QED
    BY <1>5, <2>1, <2>2, <2>3 DEF Conns, None
<1>9. NewInv'
  <2>1. \A u \in Threads : pc'[u] # "dropConn" /\ (serves'[u] # None => pc'[u] = "message")
    BY <1>1, <1>2, <1>3 DEF PlaceInv, AppLabels
  <2>2. \A d \in Conns : Phase(d)' = "busy" => \E u \in Pollers : serves'[u] = d /\ pc'[u] = "message"
    <3>1. to = "message" => serves'[t] = c /\ pc'[t] = "message"
      BY <1>1, <1>2 DEF PlaceInv, ServingInv
    <3> QED
      BY <1>8, <3>1
  <2>3. \A u \in Threads : serves'[u] # None => conns'[serves'[u]].phase = "busy"
    BY <1>3 DEF Phase
  <2> QED
    BY <1>8, <2>1, <2>2, <2>3 DEF NewInv, Phase
<1>10. ClosedInv'
  BY <1>1, <1>3, <1>5 DEF ClosedInv
<1>11. TableInv'
  BY <1>1, <1>4, <1>5, TableLess
<1>12. FewInv'
  <2>1. Entering' \subseteq Entering
    BY <1>2, <1>3 DEF Entering
  <2>2. LateConns' \subseteq LateConns
    BY DEF LateConns
  <2> QED
    BY <1>1, <1>4, <2>1, <2>2, FewLess DEF FewInv
<1>13. FailedInv'
  <2> SUFFICES ASSUME NEW d \in Conns, Phase(d) = "failed"
               PROVE  /\ d \notin Entries
                      /\ d \in batch \/ conns[d].timer = "armed" =>
                           Freed(d)' /\ shut /\ \A u \in Pollers : pc'[u] # "socket"
    BY <1>5 DEF FailedInv, Entries
  <2>1. d \notin Entries
    BY <1>1, <1>3 DEF FailedInv
  <2> QED
    BY <1>1, <1>2, <1>3, <1>5, <2>1 DEF FailedInv
<1> QED
  BY <1>6, <1>7, <1>9, <1>10, <1>11, <1>12, <1>13 DEF SoloInv

LEMMA MessageArrivesSolo ==
  ASSUME OnePoller, ServerInv, SoloInv, NEW t \in Threads, MessageArrives(t)
  PROVE  SoloInv'
<1>1. /\ t \in Pollers /\ pc[t] = "idle" /\ pc' = [pc EXCEPT ![t] = "message"]
      /\ UNCHANGED <<table, sock, shut, how, batch>>
  BY DEF MessageArrives, Dequeues, Go, At, Quiet, objectVars, endVars
<1>2. PICK c \in Conns :
        Phase(c) = "up" /\ Becomes(c, "busy") /\ serves' = [serves EXCEPT ![t] = c]
  BY DEF MessageArrives
<1>3. \A d \in Conns :
        /\ conns'[d].handle = conns[d].handle /\ conns'[d].timer = conns[d].timer
        /\ conns'[d].by = conns[d].by /\ conns'[d].back = conns[d].back
        /\ Phase(d)' = (IF d = c THEN "busy" ELSE Phase(d))
  BY <1>2 DEF ServerInv, ConnInv, ConnTyped, Connections, Becomes, Phase
<1> QED
  BY <1>1, <1>2, <1>3, SoloMessage

LEMMA EndMessageSolo ==
  ASSUME OnePoller, ServerInv, SoloInv, NEW t \in Threads, EndMessage(t)
  PROVE  SoloInv'
<1>1. /\ pc[t] = "message" /\ serves' = [serves EXCEPT ![t] = None]
      /\ UNCHANGED <<table, shut, how, batch>>
  BY DEF EndMessage, At, Quiet, objectVars, endVars
<1>2. ConnTyped /\ ServingInv /\ PlaceInv
  BY DEF ServerInv, IInv, ConnInv
<1>3. t # App /\ t \in Pollers /\ serves[t] \in Conns /\ Phase(serves[t]) # "none"
  BY <1>1, <1>2, ThreadsKnown DEF PlaceInv, AppLabels, ServingInv, Serving, Threads
<1>4. PICK c \in Conns : c = serves[t]
  BY <1>3
<1>5. CASE ReadsOn(t)
  <2>1. pc' = [pc EXCEPT ![t] = "idle"] /\ sock' = sock /\ Phase(c) = "busy" /\ Becomes(c, "up")
    BY <1>4, <1>5 DEF ReadsOn, Go
  <2>2. \A d \in Conns :
          /\ conns'[d].handle = conns[d].handle /\ conns'[d].timer = conns[d].timer
          /\ conns'[d].by = conns[d].by /\ conns'[d].back = conns[d].back
          /\ Phase(d)' = (IF d = c THEN "up" ELSE Phase(d))
    BY <1>2, <2>1 DEF ConnTyped, Connections, Becomes, Phase
  <2>3. /\ Phase(c)' = "up" /\ \A d \in Conns : d # c => Phase(d)' = Phase(d)
        /\ \A d \in Conns : conns'[d].timer = "armed" => conns[d].timer = "armed"
    BY <2>2
  <2> QED
    BY <1>1, <1>3, <1>4, <2>1, <2>2, <2>3, SoloMessage
<1>6. CASE Phase(c) = "busy" /\ EndBy(t, c, "idle")
  <2>1. ServingInv'
    BY EndMessageServer DEF ServerInv, ConnInv
  <2> QED
    BY <1>1, <1>3, <1>4, <1>6, <2>1, SoloEnd DEF Living
<1>7. CASE Phase(c) = "busy" /\ Cancel(c) /\ Go(t, "idle") /\ UNCHANGED sock
  <2>1. pc' = [pc EXCEPT ![t] = "idle"] /\ sock' = sock
    BY <1>7 DEF Go
  <2>2. \A d \in Conns :
          /\ conns'[d].handle = conns[d].handle
          /\ conns'[d].by = conns[d].by /\ conns'[d].back = conns[d].back
          /\ conns'[d].timer = (IF d = c THEN "cancelled" ELSE conns[d].timer)
          /\ Phase(d)' = (IF d = c THEN "cancelled" ELSE Phase(d))
    BY <1>2, <1>7 DEF Cancel, ConnTyped, Connections, Phase
  <2>3. /\ Phase(c)' = "cancelled" /\ \A d \in Conns : d # c => Phase(d)' = Phase(d)
        /\ \A d \in Conns : conns'[d].timer = "armed" => conns[d].timer = "armed"
    BY <2>2
  <2> QED
    BY <1>1, <1>3, <1>4, <1>7, <2>1, <2>2, <2>3, SoloMessage
<1>8. CASE EndedMeanwhile(t)
  <2>1. pc' = [pc EXCEPT ![t] = "idle"] /\ sock' = sock /\ Phase(c) # "busy" /\ conns' = conns
    BY <1>4, <1>8 DEF EndedMeanwhile, Go
  <2>2. \A d \in Conns : Phase(d)' = Phase(d)
    BY <2>1 DEF Phase
  <2> QED
    BY <1>1, <1>3, <1>4, <2>1, <2>2, SoloMessage
<1> QED
  BY <1>4, <1>5, <1>6, <1>7, <1>8 DEF EndMessage, EndsAfter

LEMMA TimerFiresSolo ==
  ASSUME OnePoller, ServerInv, SoloInv, TimerFires
  PROVE  SoloInv'
<1>1. PICK c \in Conns :
        /\ conns[c].timer = "armed"
        /\ \/ Cleanup(Timer, c, "idle")
           \/ /\ Phase(c) = "failed" /\ conns' = [conns EXCEPT ![c].timer = "cancelled"]
              /\ UNCHANGED <<table, sock, threadVars>>
  BY DEF TimerFires
<1>2. Quiet /\ UNCHANGED <<serves, how>> /\ UNCHANGED batch
  BY DEF TimerFires, endVars
<1>3. /\ Timer \notin Threads /\ App \in Threads /\ Pollers \subseteq Threads /\ shut
      /\ Phase(c) = "failed" => Freed(c) /\ \A u \in Pollers : pc[u] # "socket"
  BY <1>1, ThreadsKnown DEF SoloInv, StageInv, FailedInv
<1>4. CASE Cleanup(Timer, c, "idle")
  <2>1. ServingInv'
    BY TimerFiresServer DEF ServerInv, ConnInv
  <2> QED
    BY <1>2, <1>3, <1>4, <2>1, CleanupSolo
<1>5. CASE /\ Phase(c) = "failed" /\ conns' = [conns EXCEPT ![c].timer = "cancelled"]
           /\ UNCHANGED <<table, sock, threadVars>>
  <2>1. UNCHANGED <<pc, sock, serves, shut, how, batch, table>>
    BY <1>2, <1>5 DEF Quiet, objectVars, threadVars
  <2>2. \A d \in Conns :
          /\ conns'[d].handle = conns[d].handle
          /\ conns'[d].by = conns[d].by /\ conns'[d].back = conns[d].back
          /\ conns'[d].timer = (IF d = c THEN "cancelled" ELSE conns[d].timer)
          /\ Phase(d)' = Phase(d)
    BY <1>5 DEF ServerInv, ConnInv, ConnTyped, Connections, Phase
  <2>3. \A d \in Conns : (Living(d)' <=> Living(d)) /\ (Dying(d)' <=> Dying(d))
    BY <2>2 DEF Living, Dying
  <2> QED
    BY <2>1, <2>2, <2>3, SoloPhases
<1> QED
  BY <1>1, <1>4, <1>5

\* What shutdown() and close() do to one connection of their copy.
LEMMA EachSolo ==
  ASSUME OnePoller, ServerInv, SoloInv, DrainEach \/ CloseEach
  PROVE  SoloInv'
<1>1. /\ pc[App] = "each" /\ shut /\ ConnTyped /\ App \in Threads /\ App \notin Pollers
  BY ThreadsKnown DEF DrainEach, CloseEach, At, SoloInv, StageInv, Stopping, ServerInv, ConnInv
<1>2. CASE DrainEach
  <2>1. PICK c \in batch : batch' = batch \ {c} /\ Drain(c)
    BY <1>2 DEF DrainEach
  <2>2. UNCHANGED <<pc, sock, serves, shut, how>> /\ table' = table /\ ~AfterCopy
    BY <1>2 DEF DrainEach, acceptorVars, objectVars, threadVars, kernelVars, AfterCopy
  <2>3. \/ /\ conns' = [conns EXCEPT ![c].down = TRUE, ![c].timer = "armed"]
           /\ Phase(c) # "failed"
        \/ conns' = conns
    BY <2>1 DEF Drain
  <2>4. \A d \in Conns :
           /\ conns'[d].handle = conns[d].handle
           /\ conns'[d].by = conns[d].by /\ conns'[d].back = conns[d].back
           /\ Phase(d)' = Phase(d) /\ (Living(d)' <=> Living(d)) /\ (Dying(d)' <=> Dying(d))
           /\ Phase(d) = "failed" => conns'[d].timer = conns[d].timer
    BY <1>1, <2>3 DEF ConnTyped, Connections, Phase, Living, Dying
  <2> QED
    BY <1>1, <2>1, <2>2, <2>4, SoloPhases
<1>3. CASE CloseEach
  <2>1. PICK c \in batch : batch' = batch \ {c} /\ CloseConn(App, c, "each")
    BY <1>3 DEF CloseEach
  <2>2. Quiet /\ UNCHANGED <<serves, how>> /\ how = "close" /\ c \in Conns /\ UNCHANGED shut
    BY <1>1, <1>3, <2>1 DEF CloseEach, ConnTyped, Quiet, objectVars
  <2>3. CASE Closable(c)
    <3>1. ServingInv' /\ Cleanup(App, c, "each")
      BY <1>3, <2>1, <2>3, CloseEachServer DEF ServerInv, ConnInv, CloseConn
    <3>2. Phase(c) = "failed" => Freed(c) /\ \A u \in Pollers : pc[u] # "socket"
      BY <2>1, <2>2 DEF SoloInv, FailedInv
    <3> QED
      BY <1>1, <2>1, <2>2, <3>1, <3>2, CleanupSolo
  <2>4. CASE ~Closable(c)
    <3>1. UNCHANGED <<conns, table, sock, threadVars>>
      BY <2>1, <2>4 DEF CloseConn
    <3>2. /\ UNCHANGED pc
          /\ \A d \in Conns : /\ Phase(d)' = Phase(d) /\ (Living(d)' <=> Living(d))
                              /\ Dying(d)' <=> Dying(d)
      BY <3>1 DEF threadVars, Phase, Living, Dying
    <3>3. \A d \in batch \ batch' : Phase(d)' \notin {"new", "up", "busy"}
      BY <2>1, <2>2, <2>4, <3>2 DEF Closable
    <3> QED
      BY <1>1, <2>1, <2>2, <3>1, <3>2, <3>3, SoloPhases
  <2> QED
    BY <2>3, <2>4
<1> QED
  BY <1>2, <1>3

\* A read that should have been cancelled has succeeded, or an entry is erased.
LEMMA PhaseSolo ==
  ASSUME OnePoller, ServerInv, SoloInv, NEW c \in Conns,
         Erase(c) \/ (Phase(c) = "cancelled" /\ Becomes(c, "stuck")
                        /\ UNCHANGED <<acceptorVars, table, serves, endVars>>)
  PROVE  SoloInv'
<1>1. ConnTyped /\ OwnInv /\ ClosedInv
  BY DEF ServerInv, ConnInv, SoloInv
<1>2. UNCHANGED <<pc, sock, serves, shut, how, batch>>
  BY DEF Erase, acceptorVars, objectVars, threadVars, kernelVars, endVars
<1>3. CASE Erase(c)
  <2>1. Becomes(c, "erased") /\ Phase(c) = "closed" /\ table' = [table EXCEPT ![conns[c].handle] = None]
    BY <1>3 DEF Erase, EraseEntry
  <2>2. \A d \in Conns :
           /\ conns'[d].handle = conns[d].handle /\ conns'[d].timer = conns[d].timer
           /\ conns'[d].by = conns[d].by /\ conns'[d].back = conns[d].back
           /\ Phase(d)' = (IF d = c THEN "erased" ELSE Phase(d))
    BY <1>1, <2>1 DEF ConnTyped, Connections, Becomes, Phase
  <2>3. \A h \in Handles : table'[h] = IF h = conns[c].handle THEN None ELSE table[h]
    BY <1>1, <2>1 DEF ConnTyped
  <2>4. Freed(c)
    BY <1>1, <2>1 DEF ClosedInv
  <2>5. \A d \in Conns : Living(d)' => Living(d) /\ table'[conns[d].handle] = table[conns[d].handle]
    BY <1>1, <2>2, <2>3, <2>4 DEF Living, OwnInv, Freed
  <2>6. \A d \in Conns :
           /\ \A p \in {"none", "new"} : Phase(d)' = p <=> Phase(d) = p
           /\ \A p \in {"up", "busy", "closed", "failed"} : Phase(d)' = p => Phase(d) = p
           /\ Phase(d) \in Ended => Phase(d)' \in Ended
           /\ Phase(d) \in {"busy", "cancelled", "stuck"} => Phase(d)' \in {"busy", "cancelled", "stuck"}
           /\ Dying(d)' => Dying(d)
           /\ Phase(d)' \in {"erased", "told"} =>
                \/ Phase(d) \in {"erased", "told"}
                \/ conns[d].handle \in Handles => table'[conns[d].handle] = None
    BY <2>1, <2>2, <2>3 DEF Ended, Dying
  <2> QED
    BY <1>2, <2>2, <2>3, <2>5, <2>6, SoloPhases
<1>4. CASE ~Erase(c)
  <2>1. Becomes(c, "stuck") /\ Phase(c) = "cancelled" /\ table' = table
    BY <1>4
  <2>2. \A d \in Conns :
           /\ conns'[d].handle = conns[d].handle /\ conns'[d].timer = conns[d].timer
           /\ conns'[d].by = conns[d].by /\ conns'[d].back = conns[d].back
           /\ Phase(d)' = (IF d = c THEN "stuck" ELSE Phase(d))
    BY <1>1, <2>1 DEF ConnTyped, Connections, Becomes, Phase
  <2>3. \A d \in Conns : Living(d)' => Living(d)
    BY <2>1, <2>2 DEF Living
  <2>4. \A d \in Conns :
           /\ \A p \in {"none", "new"} : Phase(d)' = p <=> Phase(d) = p
           /\ \A p \in {"up", "busy", "closed", "failed"} : Phase(d)' = p => Phase(d) = p
           /\ Phase(d) \in Ended => Phase(d)' \in Ended
           /\ Phase(d) \in {"busy", "cancelled", "stuck"} => Phase(d)' \in {"busy", "cancelled", "stuck"}
           /\ Dying(d)' => Dying(d)
           /\ Phase(d)' \in {"erased", "told"} => Phase(d) \in {"erased", "told"}
    BY <2>1, <2>2 DEF Ended, Dying
  <2> QED
    BY <1>2, <2>1, <2>2, <2>3, <2>4, SoloPhases
<1> QED
  BY <1>3, <1>4

\* do_cleanup_() returns.
LEMMA TellSolo ==
  ASSUME OnePoller, ServerInv, SoloInv, NEW c \in Conns, Tell(c)
  PROVE  SoloInv'
<1>1. /\ StageInv /\ EntryInv /\ NewInv /\ FailedInv /\ ClosedInv /\ TableInv /\ FewInv
      /\ ServingInv /\ ConnTyped /\ PlaceInv /\ EndingInv
  BY DEF SoloInv, ServerInv, ConnInv, IInv
<1>2. /\ UNCHANGED <<sock, serves, table, shut, how, batch>>
      /\ Becomes(c, "told") /\ Phase(c) = "erased"
  BY DEF Tell, Quiet, objectVars, endVars
<1>3. /\ Threads = Pollers \union {App} /\ App \notin Pollers
  BY ThreadsKnown DEF Threads
<1>4. \A d \in Conns :
        /\ conns'[d].handle = conns[d].handle /\ conns'[d].timer = conns[d].timer
        /\ conns'[d].by = conns[d].by /\ conns'[d].back = conns[d].back
        /\ Phase(d)' = (IF d = c THEN "told" ELSE Phase(d))
  BY <1>1, <1>2 DEF ConnTyped, Connections, Becomes, Phase
<1>5. \A u \in Threads :
        \/ pc'[u] = pc[u]
        \/ /\ pc[u] = "ending"
           /\ pc'[u] \in (IF u = App THEN {"each"} ELSE {"startConn", "message", "idle"})
  <2> SUFFICES ASSUME NEW u \in Threads, u = conns[c].by
               PROVE  /\ pc[u] = "ending"
                      /\ conns[c].back \in (IF u = App THEN {"each"} ELSE {"startConn", "message", "idle"})
    BY DEF Tell
  <2>1. Dying(c)
    BY <1>2 DEF Dying
  <2> QED
    BY <1>1, <2>1 DEF EndingInv, BackAt, StageInv
<1>6. \A d \in Conns : /\ Living(d)' <=> Living(d)
                       /\ Freed(d)' <=> Freed(d)
                       /\ Dying(d)' => Dying(d)
  BY <1>2, <1>4 DEF Living, Freed, Dying
<1>7. pc[App] \notin Before /\ (pc'[App] = pc[App] \/ (pc[App] = "ending" /\ pc'[App] = "each"))
  BY <1>1, <1>2, <1>3, <1>5 DEF StageInv
<1>8. StageInv'
  <2>1. pc'[App] \notin Before /\ (pc'[App] \in Stopping <=> shut')
    BY <1>1, <1>2, <1>7 DEF StageInv, Before, Stopping
  <2> QED
    BY <1>1, <1>2, <1>4, <1>6, <1>7, <2>1, StageOn
<1>9. EntryInv'
  BY <1>1, <1>2, <1>4, EntryLess
<1>10. NewInv'
  <2>1. \A u \in Threads : serves[u] # None => serves[u] \in Conns
    BY <1>1 DEF ServingInv
  <2>2. \A d \in Conns :
          /\ Phase(d)' = "new" => \E u \in Pollers : serves[u] = d /\ pc'[u] = "startConn"
          /\ Phase(d)' = "busy" => \E u \in Pollers : serves[u] = d /\ pc'[u] = "message"
    <3> SUFFICES ASSUME NEW d \in Conns
                 PROVE  /\ Phase(d)' = "new" => \E u \in Pollers : serves[u] = d /\ pc'[u] = "startConn"
                        /\ Phase(d)' = "busy" => \E u \in Pollers : serves[u] = d /\ pc'[u] = "message"
      OBVIOUS
    <3>1. /\ Phase(d)' = "new" => \E u \in Pollers : serves[u] = d /\ pc[u] = "startConn"
          /\ Phase(d)' = "busy" => \E u \in Pollers : serves[u] = d /\ pc[u] = "message"
      BY <1>1, <1>4 DEF NewInv
    <3> QED
      BY <1>3, <1>5, <3>1
  <2>3. \A u \in Threads : serves[u] # None =>
          \/ Phase(serves[u])' \in {"new", "busy", "cancelled", "stuck"}
          \/ Phase(serves[u])' \in Ended /\ Freed(serves[u])'
    <3>1. "told" \in Ended /\ "erased" \in Ended /\ "erased" \notin {"new", "busy", "cancelled", "stuck"}
      BY DEF Ended
    <3> QED
      BY <1>1, <1>2, <1>4, <1>6, <2>1, <3>1 DEF NewInv
  <2>4. \A u \in Threads : pc'[u] \in {"startConn", "dropConn", "ending"} /\ serves[u] # None =>
          Phase(serves[u])' \in Ended \union {"new"}
    <3>1. \A u \in Threads : pc'[u] \in {"startConn", "dropConn", "ending"} =>
            pc[u] \in {"startConn", "dropConn", "ending"}
      BY <1>5
    <3>2. \A d \in Conns : Phase(d) \in Ended \union {"new"} => Phase(d)' \in Ended \union {"new"}
      BY <1>4 DEF Ended
    <3> QED
      BY <1>1, <1>2, <2>1, <3>1, <3>2 DEF NewInv
  <2>5. \A u \in Threads : pc'[u] = "dropConn" => Phase(serves[u])' # "new"
    <3> SUFFICES ASSUME NEW u \in Threads, pc'[u] = "dropConn"
                 PROVE  Phase(serves[u])' # "new"
      OBVIOUS
    <3>1. pc[u] = "dropConn"
      BY <1>5
    <3>2. serves[u] \in Conns /\ Phase(serves[u]) # "new"
      BY <1>1, <2>1, <3>1 DEF NewInv, ServingInv, Serving
    <3> QED
      BY <1>2, <1>4, <3>2
  <2> QED
    BY <1>2, <2>1, <2>2, <2>3, <2>4, <2>5 DEF NewInv, Phase, Freed
<1>11. ClosedInv'
  BY <1>1, <1>2, <1>3, <1>4, <1>5, <1>6 DEF ClosedInv
<1>12. TableInv'
  BY <1>1, <1>2, <1>4, <1>6, <1>7, TableLess
<1>13. FewInv'
  <2>1. Entering' \subseteq Entering /\ LateConns' \subseteq LateConns
    BY <1>2, <1>3, <1>4, <1>5 DEF Entering, LateConns
  <2>2. /\ {pc[App], pc'[App]} \subseteq {"each", "ending"} => how = "close" \/ pc'[App] = "each"
        /\ pc'[App] = pc[App] \/ {pc[App], pc'[App]} \subseteq {"each", "ending"}
    BY <1>1, <1>7 DEF FewInv
  <2> QED
    BY <1>1, <1>2, <2>1, <2>2, FewLess
<1>14. FailedInv'
  <2> SUFFICES ASSUME NEW d \in Conns, Phase(d) = "failed"
               PROVE  /\ d \in Entries => \E u \in Pollers : serves[u] = d /\ pc'[u] = "dropConn"
                      /\ d \in batch \/ conns[d].timer = "armed" =>
                           Freed(d)' /\ shut /\ \A u \in Pollers : pc'[u] # "socket"
    BY <1>2, <1>4 DEF FailedInv, Entries
  <2>1. \A u \in Pollers : /\ pc[u] = "dropConn" => pc'[u] = pc[u]
                           /\ pc[u] # "socket" => pc'[u] # "socket"
    BY <1>3, <1>5
  <2> QED
    BY <1>1, <1>6, <2>1 DEF FailedInv
<1> QED
  BY <1>8, <1>9, <1>10, <1>11, <1>12, <1>13, <1>14 DEF SoloInv

\* App in start(), shutdown() and close().
LEMMA AppStepSolo ==
  ASSUME OnePoller, ServerInv, SoloInv,
         AppStep \/ ServerStops \/ WaitOver(TRUE) \/ (Start /\ UNCHANGED serverVars)
  PROVE  SoloInv'
<1> USE DEF Go, At, Quiet, objectVars, kernelVars, serverVars, tableVars, endVars
<1>1. /\ StageInv /\ TableInv /\ FewInv /\ ConnTyped /\ OwnInv /\ ChannelInv
  BY DEF SoloInv, ServerInv, ConnInv, IInv
<1>2. App \in Threads /\ pc \in [Threads -> Labels]
  BY ThreadsKnown DEF ServerInv, IInv, PlaceInv
<1>3. CASE (Start /\ UNCHANGED serverVars) \/ (StartLoop /\ UNCHANGED serverVars)
  <2>1. /\ pc[App] \in Before /\ UNCHANGED <<conns, table, serves, batch, shut>>
        /\ \E to \in Before \union {"serving"} : pc' = [pc EXCEPT ![App] = to]
    BY <1>3 DEF Start, StartLoop, Before
  <2> QED
    BY <2>1, SoloBefore
<1>4. ASSUME NEW to \in Stopping, pc' = [pc EXCEPT ![App] = to], pc[App] \notin Before, shut',
             UNCHANGED <<conns, serves>>, table' = table \/ to = "stopPolls",
             \A h \in Handles : table'[h] \in {table[h], None},
             \A h \in Handles : sock[h] = "free" => sock'[h] = "free", pc[App] \notin {"down"},
             batch' \subseteq batch \union Entries,
             pc[App] = "stopPolls" => to = "down", FewInv'
      PROVE  SoloInv'
  <2>1. TableInv'
    BY <1>1, <1>2, <1>4 DEF TableInv, Living, Phase
  <2> QED
    BY <1>4, <2>1, SoloApp
<1>5. CASE ServerStops \/ (CloseListen("collect") /\ UNCHANGED serverVars) \/ (\E late \in BOOLEAN : WaitOver(late))
  <2>1. PICK to \in {"closeListen", "collect"} : pc' = [pc EXCEPT ![App] = to]
    BY <1>5 DEF ServerStops, Shutdown, CloseListen, WaitOver
  <2>2. /\ pc[App] \in {"serving", "closeListen", "wait"} /\ UNCHANGED <<conns, table, serves, batch>>
        /\ \A h \in Handles : sock[h] = "free" => sock'[h] = "free"
    BY <1>1, <1>5 DEF ServerStops, Shutdown, CloseListen, WaitOver, ChannelInv
  <2>3. shut'
    <3>1. CASE ServerStops
      BY <3>1 DEF ServerStops, Shutdown
    <3>2. CASE ~ServerStops
      <4>1. pc[App] \in Stopping /\ shut' = shut
        BY <1>5, <3>2 DEF CloseListen, WaitOver, Stopping
      <4> QED
        BY <1>1, <4>1 DEF StageInv
    <3> QED
      BY <3>1, <3>2
  <2>4. FewInv'
    BY <1>2, <2>1 DEF FewInv, AfterCopy
  <2>5. to \in Stopping /\ pc[App] \notin Before
    BY <2>2 DEF Stopping, Before
  <2> QED
    BY <1>4, <2>1, <2>2, <2>3, <2>4, <2>5
<1>6. CASE Collect
  <2>1. /\ pc[App] = "collect" /\ pc' = [pc EXCEPT ![App] = "each"] /\ batch' = Entries
        /\ UNCHANGED <<conns, table, serves, sock, how, shut>>
    BY <1>6 DEF Collect
  <2>2. "each" \in Stopping /\ pc[App] \notin Before /\ shut'
    BY <1>1, <2>1 DEF Stopping, Before, StageInv
  <2>3. LateConns' = {}
    <3> SUFFICES ASSUME NEW c \in Conns, Phase(c)' \in {"new", "up", "busy"} PROVE c \in batch'
      BY DEF LateConns
    <3>1. Living(c)
      BY <2>1 DEF Phase, Living
    <3>2. conns[c].handle \in Handles /\ table[conns[c].handle] = c
      BY <1>1, <2>1, <3>1 DEF OwnInv, TableInv
    <3> QED
      BY <2>1, <3>2 DEF Entries, Conns, None
  <2>4. FewInv'
    BY <1>2, <2>1, <2>3 DEF FewInv
  <2> QED
    BY <1>4, <2>1, <2>2, <2>4
<1>7. CASE AllDone
  <2>1. /\ pc[App] = "each" /\ batch = {}
        /\ UNCHANGED <<conns, table, serves, sock, how, batch, shut>>
    BY <1>7 DEF AllDone
  <2>2. PICK to \in {"wait", "clear"} :
          pc' = [pc EXCEPT ![App] = to] /\ (to = "clear" => how # "shutdown")
    BY <1>7 DEF AllDone
  <2>3. to \in Stopping /\ pc[App] \notin Before /\ shut'
    BY <1>1, <2>1 DEF Stopping, Before, StageInv
  <2>4. /\ LateConns' = LateConns /\ Entering' = Entering
        /\ to = "clear" => how = "close"
    <3>1. \A t \in Pollers : pc'[t] = pc[t]
      BY <2>2, ThreadsKnown
    <3> QED
      BY <1>1, <2>1, <2>2, <3>1 DEF LateConns, Entering, Phase, ConnTyped
  <2>5. FewInv'
    BY <1>1, <1>2, <2>1, <2>2, <2>4 DEF FewInv, AfterCopy
  <2> QED
    BY <1>4, <2>1, <2>2, <2>3, <2>5
<1>8. CASE Clear \/ StopPolls
  <2>1. /\ UNCHANGED <<conns, serves, sock, how, batch, shut>>
        /\ \A h \in Handles : table'[h] \in {table[h], None}
    BY <1>8 DEF Clear, StopPolls
  <2>2. PICK to \in {"stopPolls", "down"} :
          /\ pc' = [pc EXCEPT ![App] = to] /\ (table' = table \/ to = "stopPolls")
          /\ pc[App] = IF to = "down" THEN "stopPolls" ELSE "clear"
    BY <1>8 DEF Clear, StopPolls
  <2>3. to \in Stopping /\ pc[App] \notin Before /\ shut' /\ pc[App] # "down"
        /\ (pc[App] = "stopPolls" => to = "down")
    BY <1>1, <2>1, <2>2 DEF Stopping, Before, StageInv
  <2>4. LateConns' = LateConns /\ Entering' = Entering
    <3>1. \A t \in Pollers : pc'[t] = pc[t]
      BY <2>2, ThreadsKnown
    <3> QED
      BY <2>1, <3>1 DEF LateConns, Entering, Phase
  <2>5. FewInv'
    BY <1>1, <1>2, <2>1, <2>2, <2>4 DEF FewInv, AfterCopy
  <2> QED
    BY <1>4, <2>1, <2>2, <2>3, <2>5
<1> QED
  BY <1>3, <1>5, <1>6, <1>7, <1>8, EachSolo DEF AppStep

\* Clients connect, and others use SockExFunc.
LEMMA OutsideSolo ==
  ASSUME OnePoller, ServerInv, SoloInv, UNCHANGED serverVars, Connect \/ SockEx \/ UNCHANGED acceptorVars
  PROVE  SoloInv'
<1>1. UNCHANGED <<conns, table, serves, how, batch, shut, pc, sock>>
  BY DEF Connect, SockEx, objectVars, threadVars, kernelVars, acceptorVars, serverVars, tableVars, endVars
<1>2. ServingInv'
  BY OutsideServer DEF ServerInv, ConnInv
<1> QED
  BY <1>1, <1>2, SoloOn

LEMMA InitSolo == Init => SoloInv
<1> SUFFICES ASSUME Init PROVE SoloInv
  OBVIOUS
<1>1. /\ \A c \in Conns : Phase(c) = "none" /\ conns[c].timer = "none" /\ ~Living(c)
      /\ \A t \in Threads : pc[t] = "idle" /\ serves[t] = None
      /\ \A h \in Handles : table[h] = None
      /\ ~shut /\ App \in Threads /\ Pollers \subseteq Threads
  BY ThreadsKnown DEF Init, AcceptorInit, Unmade, Phase, Living
<1>2. StageInv
  BY <1>1 DEF StageInv, Stopping, Dying, Init
<1>3. EntryInv /\ NewInv /\ FailedInv /\ ClosedInv /\ TableInv
  BY <1>1 DEF EntryInv, NewInv, FailedInv, ClosedInv, TableInv
<1>4. FewInv
  BY <1>1 DEF FewInv, AfterCopy
<1> QED
  BY <1>2, <1>3, <1>4 DEF SoloInv

LEMMA NextSolo ==
  ASSUME OnePoller, OnlyClose, ServerInv, SoloInv, [Next]_vars
  PROVE  SoloInv'
<1>1. ASSUME NEW t \in Threads, ConnStep(t) PROVE SoloInv'
  BY <1>1, HandSolo, InsertSolo, StartSolo, StartFailsSolo, EndMessageSolo,
     AcceptorSolo DEF ConnStep
<1>2. ASSUME NEW t \in Threads,
             AcceptPacket(t) \/ ReadEnds(t) \/ MessageArrives(t) \/ UserCloses(t) \/ UserDrains(t)
      PROVE  SoloInv'
  BY <1>2, AcceptorSolo, ReadEndsSolo, MessageArrivesSolo, UserClosesSolo
     DEF AcceptPacket, UserDrains, UserMay, OnlyClose
<1>3. ASSUME NEW c \in Conns, Erase(c) \/ Tell(c) PROVE SoloInv'
  BY <1>3, PhaseSolo, TellSolo
<1>4. LateSuccess \/ TimerFires => SoloInv'
  BY PhaseSolo, TimerFiresSolo DEF LateSuccess
<1>5. AppStep \/ ServerStops \/ WaitOver(TRUE) \/ (Start /\ UNCHANGED serverVars) => SoloInv'
  BY AppStepSolo
<1>6. (Connect \/ SockEx) /\ UNCHANGED serverVars => SoloInv'
  BY OutsideSolo
<1>7. UNCHANGED vars => SoloInv'
  BY OutsideSolo DEF vars
<1> QED
  BY <1>1, <1>2, <1>3, <1>4, <1>5, <1>6, <1>7 DEF Next

\* With one thread that polls the table is right from start() to the end of shutdown().
THEOREM SoloInvariance == OnePoller /\ OnlyClose => (Spec => []SoloInv)
<1>1. OnePoller /\ OnlyClose /\ ServerInv /\ SoloInv /\ [Next]_vars => SoloInv'
  BY NextSolo
<1>2. OnePoller /\ OnlyClose => [](OnePoller /\ OnlyClose)
  BY DEF OnePoller, OnlyClose
<1> QED
  BY <1>1, <1>2, InitSolo, ServerInvariance, PTL DEF Spec

\* The table has every living connection under its socket number, and none that was
\* reported as closed: what shutdown() waits for and close() goes through.
THEOREM TableComplete == OnePoller /\ OnlyClose => (Spec => []TableHoldsLiving)
<1>1. ServerInv /\ SoloInv => TableHoldsLiving
  <2> SUFFICES ASSUME ServerInv, SoloInv PROVE TableHoldsLiving
    OBVIOUS
  <2>1. \A c \in Conns : Phase(c) = "told" => c \notin Entries
    BY DEF SoloInv, EntryInv, Entries
  <2> QED
    BY <2>1 DEF SoloInv, TableInv, TableHoldsLiving
<1> QED
  BY <1>1, ServerInvariance, SoloInvariance, PTL

\* When shutdown() or close() is over it has missed one connection at most, that was being
\* accepted when the table was copied for the last time.
THEOREM FewMissed == OnePoller /\ OnlyClose => (Spec => []FewLeftOpen)
<1>1. OnePoller /\ SoloInv => FewLeftOpen
  <2> SUFFICES ASSUME OnePoller, SoloInv, pc[App] = "down"
               PROVE  Cardinality({c \in Conns : Phase(c) \in {"new", "up", "busy"}}) <= Cardinality(Pollers)
    BY DEF FewLeftOpen
  <2> DEFINE Left == {c \in Conns : Phase(c) \in {"new", "up", "busy"}}
  <2>1. LateConns = Left /\ AfterCopy
    BY DEF SoloInv, FewInv, LateConns, AfterCopy
  <2>2. (\A c, d \in Left : c = d) /\ (Left # {} => Pollers # {})
    BY <2>1 DEF SoloInv, FewInv
  <2>3. IsFiniteSet(Pollers) /\ Cardinality(Pollers) \in Nat
    BY ThreadsKnown, ThreadsFinite, FS_Subset, FS_CardinalityType
  <2>4. CASE Left = {}
    BY <2>3, <2>4, FS_EmptySet
  <2>5. CASE Left # {}
    <3>1. PICK c : Left = {c}
      BY <2>2, <2>5
    <3>2. PICK t : Pollers = {t}
      BY <2>2, <2>5 DEF OnePoller
    <3>3. Cardinality(Left) = 1 /\ Cardinality(Pollers) = 1
      BY <3>1, <3>2, FS_Singleton
    <3> QED
      BY <3>3
  <2> QED
    BY <2>4, <2>5
<1>2. OnePoller => []OnePoller
  BY DEF OnePoller
<1> QED
  BY <1>1, <1>2, SoloInvariance, PTL
=============================================================================
