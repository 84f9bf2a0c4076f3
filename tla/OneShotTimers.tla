--------------------------- MODULE OneShotTimers ---------------------------
(***************************************************************************)
(* What a manager of one-shot timers promises: an armed timer fires at     *)
(* most once, not before its time, not if it was taken back before its     *)
(* time, and not after the manager has stopped.  A timer that is due may   *)
(* fire although it is taken back: it may be on its way.                   *)
(***************************************************************************)
EXTENDS Naturals

CONSTANT Timers   \* the timers there may ever be

VARIABLES
  now,       \* the clock
  expire,    \* when each timer is due
  armed,     \* timers that may still fire
  fired,     \* timers that have fired
  revoked,   \* timers taken back before they were due
  stopping,  \* the manager was told to stop
  stopped    \* the manager has stopped

vars == <<now, expire, armed, fired, revoked, stopping, stopped>>

Init ==
  /\ now = 0
  /\ expire \in [Timers -> {0}]
  /\ armed = {} /\ fired = {} /\ revoked = {}
  /\ stopping = FALSE /\ stopped = FALSE

Tick ==
  /\ now' > now
  /\ UNCHANGED <<expire, armed, fired, revoked, stopping, stopped>>

Arm ==
  /\ ~stopping
  /\ \E id \in Timers \ (armed \union fired \union revoked) :
       /\ armed' = armed \union {id}
       /\ expire'[id] >= now
       /\ \A other \in Timers \ {id} : expire'[other] = expire[other]
  /\ UNCHANGED <<now, fired, revoked, stopping, stopped>>

TakeBack ==
  /\ \E id \in Timers :
       /\ now < expire[id]
       /\ armed' = armed \ {id}
       /\ revoked' = revoked \union {id}
  /\ UNCHANGED <<now, expire, fired, stopping, stopped>>

TakeBackLate ==
  /\ \E id \in armed :
       /\ expire[id] <= now
       /\ armed' = armed \ {id}
  /\ UNCHANGED <<now, expire, fired, revoked, stopping, stopped>>

Fire ==
  /\ ~stopped
  /\ \E id \in armed :
       /\ expire[id] <= now
       /\ armed' = armed \ {id}
       /\ fired' = fired \union {id}
  /\ UNCHANGED <<now, expire, revoked, stopping, stopped>>

Stop ==
  /\ stopping' = TRUE
  /\ UNCHANGED <<now, expire, armed, fired, revoked, stopped>>

\* A manager that was told to stop may drop timers.
Drop ==
  /\ stopping
  /\ armed' \subseteq armed
  /\ stopped' \in {stopped, TRUE}
  /\ UNCHANGED <<now, expire, fired, revoked, stopping>>

Next == Tick \/ Arm \/ TakeBack \/ TakeBackLate \/ Fire \/ Stop \/ Drop

Spec == Init /\ [][Next]_vars
=============================================================================
