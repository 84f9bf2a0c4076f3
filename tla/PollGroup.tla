----------------------------- MODULE PollGroup -----------------------------
(***************************************************************************)
(* The polls of an IOCPServer and the completion port they share: the      *)
(* loops of IOCPEventPoll::run(), and the end of IOCPServer::shutdown()    *)
(* and close(), which tells the polls to stop, joins the threads of the    *)
(* sub polls and closes the port.                                          *)
(*                                                                         *)
(* In mode kOnePollPerThread there are thread_num_ sub polls, each run by  *)
(* a thread of its own, beside the main poll; in mode kAllOneThread there  *)
(* are none.  The main poll is run by a thread of the user's, or by none.  *)
(* The port is external: a queue of packets from which every waiting       *)
(* thread may take the next one.  A packet stands for the completion of an *)
(* operation, or is the one with a null key that shutdown() posts to wake  *)
(* a thread up.                                                            *)
(***************************************************************************)
EXTENDS Naturals, Sequences

CONSTANTS
  SubPolls,    \* thread_num_: the number of sub polls
  MainRuns,    \* whether some thread runs the main poll
  MaxPackets,  \* bound on the completions of operations
  MaxBatch     \* kMaxBatchSize

ASSUME PollGroupAssumption ==
  /\ SubPolls \in Nat /\ MaxPackets \in Nat
  /\ MainRuns \in BOOLEAN
  /\ MaxBatch \in Nat \ {0}

Main == 0
Subs == 1..SubPolls
Polls == 0..SubPolls

Wake == 0
Completions == 1..MaxPackets

VARIABLES
  queue,      \* the port: packets queued
  open,       \* the port is not closed
  arrived,    \* number of completions queued so far
  shut,       \* shut_ of each poll
  pc,         \* where the thread of each poll is
  packet,     \* the packet it has dequeued last
  processed,  \* events processed in the current call of poll_()
  handled,    \* completions handed to their channels
  stage,      \* how far the server has come
  turn        \* the sub poll it deals with

vars == <<queue, open, arrived, shut, pc, packet, processed, handled, stage, turn>>
portVars == <<queue, open, arrived>>
pollVars == <<pc, packet, processed, handled>>
serverVars == <<shut, stage, turn>>

TypeOK ==
  /\ queue \in Seq(0..arrived)
  /\ open \in BOOLEAN
  /\ arrived \in 0..MaxPackets
  /\ shut \in [Polls -> BOOLEAN]
  /\ pc \in [Polls -> {"run", "wait", "dequeued", "event", "peek", "exit"}]
  /\ packet \in [Polls -> 0..arrived]
  /\ processed \in [Polls -> 0..MaxBatch]
  /\ handled \subseteq 1..arrived
  /\ stage \in {"up", "flag", "post", "join", "flagMain", "postMain", "closePort", "down"}
  /\ turn \in 1..SubPolls + 1

\* IOCPServer::start().
Init ==
  /\ queue = <<>> /\ open = TRUE /\ arrived = 0
  /\ shut = [p \in Polls |-> FALSE]
  /\ pc = [p \in Polls |-> IF p = Main /\ ~MainRuns THEN "exit" ELSE "run"]
  /\ packet = [p \in Polls |-> Wake]
  /\ processed = [p \in Polls |-> 0]
  /\ handled = {}
  /\ stage = "up" /\ turn = 1

-----------------------------------------------------------------------------
\* An operation completes.
Arrive ==
  /\ open /\ arrived < MaxPackets
  /\ arrived' = arrived + 1
  /\ queue' = Append(queue, arrived')
  /\ UNCHANGED <<open, pollVars, serverVars>>

Goto(p, from, to) ==
  /\ pc[p] = from
  /\ pc' = [pc EXCEPT ![p] = to]

\* Broken variant: poll_() goes on counting from the last call.
LoopCountsOn(p) ==
  /\ Goto(p, "run", IF shut[p] THEN "exit" ELSE "wait")
  /\ UNCHANGED <<processed, packet, handled, portVars, serverVars>>

\* run(): the condition of the loop; poll_() starts to count.
Loop(p) ==
  /\ Goto(p, "run", IF shut[p] THEN "exit" ELSE "wait")
  /\ processed' = [processed EXCEPT ![p] = 0]
  /\ UNCHANGED <<packet, handled, portVars, serverVars>>

\* process_one_event_(): GetQueuedCompletionStatus takes a packet.
Dequeue(p) ==
  /\ Goto(p, "wait", "dequeued") \/ Goto(p, "peek", "dequeued")
  /\ open /\ queue # <<>>
  /\ packet' = [packet EXCEPT ![p] = Head(queue)]
  /\ queue' = Tail(queue)
  /\ UNCHANGED <<open, arrived, processed, handled, serverVars>>

\* process_one_event_(): no packet is there, and this call does not wait for one.
Empty(p) ==
  /\ open /\ queue = <<>>
  /\ Goto(p, "peek", "run")
  /\ UNCHANGED <<packet, processed, handled, portVars, serverVars>>

\* Broken variant: a failure to dequeue is retried at once.
AbandonedRetries(p) ==
  /\ ~open
  /\ Goto(p, "wait", "wait") \/ Goto(p, "peek", "wait")
  /\ UNCHANGED <<packet, processed, handled, portVars, serverVars>>

\* process_one_event_(): the port is closed.
Abandoned(p) ==
  /\ ~open
  /\ Goto(p, "wait", "run") \/ Goto(p, "peek", "run")
  /\ UNCHANGED <<packet, processed, handled, portVars, serverVars>>

\* process_one_event_(): a poll that was told to stop drops what it dequeued.
CheckShut(p) ==
  /\ Goto(p, "dequeued", IF shut[p] THEN "run" ELSE "event")
  /\ UNCHANGED <<packet, processed, handled, portVars, serverVars>>

\* Broken variant: the channel is not told of a failed operation.
EventFailureUntold(p) ==
  /\ \/ /\ Goto(p, "event", IF processed[p] + 1 < MaxBatch /\ ~shut[p] THEN "peek" ELSE "run")
        /\ handled' = handled \union ({packet[p]} \ {Wake})
     \/ /\ packet[p] # Wake /\ Goto(p, "event", "run")
        /\ UNCHANGED handled
  /\ processed' = [processed EXCEPT ![p] = @ + 1]
  /\ UNCHANGED <<packet, portVars, serverVars>>

\* process_one_event_() and the loop of poll_(): a completion is handed to its
\* channel; after a failed operation poll_() returns at once, otherwise it goes on
\* until the batch is full.
Event(p) ==
  /\ \/ Goto(p, "event", IF processed[p] + 1 < MaxBatch /\ ~shut[p] THEN "peek" ELSE "run")
     \/ packet[p] # Wake /\ Goto(p, "event", "run")
  /\ processed' = [processed EXCEPT ![p] = @ + 1]
  /\ handled' = handled \union ({packet[p]} \ {Wake})
  /\ UNCHANGED <<packet, portVars, serverVars>>

-----------------------------------------------------------------------------
\* shutdown() or close() of the server comes to shutdown_polls_and_handle_().
Begin ==
  /\ stage = "up"
  /\ stage' = IF SubPolls = 0 THEN "flagMain" ELSE "flag"
  /\ UNCHANGED <<shut, turn, portVars, pollVars>>

\* The server goes through the sub polls one by one: while there is one left, it
\* stays, else it goes on with the first one.
NextTurn(again, next) ==
  IF turn < SubPolls
    THEN stage' = again /\ turn' = turn + 1
    ELSE stage' = next /\ turn' = 1

\* IOCPEventPoll::shutdown() of a sub poll: set shut_ ...
Flag ==
  /\ stage = "flag"
  /\ shut' = [shut EXCEPT ![turn] = TRUE]
  /\ stage' = "post"
  /\ UNCHANGED <<turn, portVars, pollVars>>

\* ... and post a packet for its thread.
Post ==
  /\ stage = "post"
  /\ queue' = Append(queue, Wake)
  /\ NextTurn("flag", "join")
  /\ UNCHANGED <<open, arrived, shut, pollVars>>

\* Broken variant: the threads are not joined.
JoinNobody ==
  /\ stage = "join"
  /\ NextTurn("join", "flagMain")
  /\ UNCHANGED <<shut, portVars, pollVars>>

\* Join the thread of a sub poll.
Join ==
  /\ stage = "join" /\ pc[turn] = "exit"
  /\ NextTurn("join", "flagMain")
  /\ UNCHANGED <<shut, portVars, pollVars>>

\* IOCPEventPoll::shutdown() of the main poll: set shut_ ...
FlagMain ==
  /\ stage = "flagMain"
  /\ shut' = [shut EXCEPT ![Main] = TRUE]
  /\ stage' = "postMain"
  /\ UNCHANGED <<turn, portVars, pollVars>>

\* ... and post a packet.
PostMain ==
  /\ stage = "postMain"
  /\ queue' = Append(queue, Wake)
  /\ stage' = "closePort"
  /\ UNCHANGED <<open, arrived, shut, turn, pollVars>>

\* Close the port, which ends every wait on it.
ClosePort ==
  /\ stage = "closePort"
  /\ open' = FALSE
  /\ stage' = "down"
  /\ UNCHANGED <<queue, arrived, shut, turn, pollVars>>

-----------------------------------------------------------------------------
PollStep(p) ==
  Loop(p) \/ Dequeue(p) \/ Empty(p) \/ Abandoned(p) \/ CheckShut(p) \/ Event(p)

ServerStep == Flag \/ Post \/ Join \/ FlagMain \/ PostMain \/ ClosePort

Next == Arrive \/ Begin \/ ServerStep \/ \E p \in Polls : PollStep(p)

Spec == Init /\ [][Next]_vars

\* Threads are scheduled.  Nobody has to shut the server down, and no operation has
\* to complete.
FairSpec ==
  /\ Spec
  /\ WF_vars(ServerStep)
  /\ \A p \in Polls : WF_vars(PollStep(p))

-----------------------------------------------------------------------------
\* When the port is closed no sub poll is inside run() any more, so none touches the
\* port or a channel.
PortOutlivesSubPolls ==
  ~open => \A p \in Subs : pc[p] = "exit"

\* While the server is up every completion is handed to its channel, however the
\* polls compete for the packets.
CompletionsHandled ==
  MainRuns \/ SubPolls > 0
    => \A n \in Completions : arrived >= n ~> (n \in handled \/ stage # "up")

\* run() of the main poll returns once the server has told it to stop, whoever takes
\* the packet that was posted for it.
MainEnds == shut[Main] ~> pc[Main] = "exit"

\* The server waits for the threads of the sub polls to end, and they do.
SubPollsJoined == stage = "join" ~> stage = "flagMain"
=============================================================================
