----------------------------- MODULE Callbacks -----------------------------
(***************************************************************************)
(* What a connection promises the user who gave it on_message_func_ and    *)
(* on_close_func_: messages arrive one at a time and in order, so never    *)
(* in two threads at once; the end is reported once; and no message is     *)
(* delivered after it.  The end may be reported while the last message is  *)
(* still being handled: the handler itself may have called close().        *)
(***************************************************************************)
EXTENDS Sequences

CONSTANTS
  Threads,  \* the threads that may call back
  Errors    \* what the end may be reported with

VARIABLES
  handling,   \* the threads that run on_message_func_
  reported    \* the errors on_close_func_ was called with

vars == <<handling, reported>>

Init == handling = {} /\ reported = <<>>

Deliver ==
  /\ handling = {} /\ reported = <<>>
  /\ \E t \in Threads : handling' = {t}
  /\ UNCHANGED reported

Handled ==
  /\ handling # {}
  /\ handling' = {}
  /\ UNCHANGED reported

End ==
  /\ reported = <<>>
  /\ \E err \in Errors : reported' = <<err>>
  /\ UNCHANGED handling

Next == Deliver \/ Handled \/ End

Spec == Init /\ [][Next]_vars
=============================================================================
