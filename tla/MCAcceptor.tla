---------------------------- MODULE MCAcceptor ----------------------------
(* Two threads poll and a third one starts and stops the acceptor.         *)
EXTENDS Acceptor

MCPollers == {"p1", "p2"}
MCUsers == {"app", "other"}
MCHandles == 1..7
=============================================================================
