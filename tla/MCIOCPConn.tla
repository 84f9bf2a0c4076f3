----------------------------- MODULE MCIOCPConn -----------------------------
(***************************************************************************)
(* Instances of IOCPConn for TLC.                                          *)
(***************************************************************************)
EXTENDS IOCPConn

CONSTANTS p1, p2, app, timer
=============================================================================
