----------------------------- MODULE MCSendPath -----------------------------
(***************************************************************************)
(* Instance of SendPath for TLC: two threads poll the port and a third one *)
(* only calls send(), as the console thread of examples/echo_client does.  *)
(***************************************************************************)
EXTENDS SendPath

CONSTANTS p1, p2, app

MCThreads == {p1, p2, app}
MCPollers == {p1, p2}
=============================================================================
