--------------------------- MODULE OrderedSender ---------------------------
(***************************************************************************)
(* What the sending half of a connection promises its callers: accepted    *)
(* messages are handed to the socket one at a time, in the order in which  *)
(* they were accepted, none twice and none left out.  Messages are named   *)
(* by their position in the order of acceptance.                           *)
(*                                                                         *)
(* IOCPConn keeps this promise with a queue, a mutex, an atomic flag and   *)
(* any number of threads; module SendPath describes how, and is shown to   *)
(* implement this specification.                                           *)
(***************************************************************************)
EXTENDS Naturals

VARIABLES
  accepted,   \* how many messages send() has accepted
  taken,      \* how many of them have been taken up for transmission
  current     \* the message being transmitted, as a set: {} or {taken}

vars == <<accepted, taken, current>>

Init ==
  /\ accepted = 0
  /\ taken = 0
  /\ current = {}

\* A caller's message is accepted behind all the earlier ones.
Accept ==
  /\ accepted' = accepted + 1
  /\ UNCHANGED <<taken, current>>

\* The oldest waiting message is taken up, once no other one is under way.
Take ==
  /\ current = {}
  /\ taken < accepted
  /\ taken' = taken + 1
  /\ current' = {taken + 1}
  /\ UNCHANGED accepted

\* The transmission under way is over, successfully or not.
Finish ==
  /\ current # {}
  /\ current' = {}
  /\ UNCHANGED <<accepted, taken>>

Next == Accept \/ Take \/ Finish

Spec == Init /\ [][Next]_vars
=============================================================================
