---------------------------- MODULE MCPollGroup ----------------------------
(***************************************************************************)
(* Instances of PollGroup for TLC.                                         *)
(***************************************************************************)
EXTENDS PollGroup
=============================================================================
