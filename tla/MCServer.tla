----------------------------- MODULE MCServer -----------------------------
(***************************************************************************)
(* Instances of Server for TLC: one thread that polls (kAllOneThread) or   *)
(* two, beside the user's thread that starts and ends the server and the   *)
(* timer thread.                                                           *)
(***************************************************************************)
EXTENDS Server

OnePoll == {"p1"}
TwoPolls == {"p1", "p2"}
MCUsers == {"app"}
MCHandles == 1..5

\* The server is not ended, and one connection at most is ending or was shut down.
Running ==
  /\ ~shut /\ (pc[App] = "serving" => using = MCUsers)
  /\ Cardinality({c \in Conns : conns[c].down \/ conns[c].timer # "none"}) <= 1
=============================================================================
