---------------------------- MODULE TimerManager ----------------------------
(***************************************************************************)
(* TimerManager: the thread that runs expired timers, and the threads that *)
(* call add_timer(), cancel_timer() and shutdown().                        *)
(*                                                                         *)
(* The timer thread holds mutex_ from "check" until it blocks, and again   *)
(* while it collects; add_timer() and cancel_timer() are critical sections *)
(* of one step.  shutdown() stores running_ and notifies without mutex_.   *)
(* A wait on cv_ releases the mutex and blocks in one step, may end        *)
(* spuriously, and misses a notification sent before it blocks.            *)
(*                                                                         *)
(* cancel_timer() may be given any id that add_timer() returned.  It marks *)
(* only timers that are in the map, and erases those at once, so nobody    *)
(* ever sees the mark cancelled_: the branches of the timer thread for     *)
(* marked timers are never taken, the test in Timer::execute() never       *)
(* fails, and both are left out.                                           *)
(***************************************************************************)
EXTENDS Naturals, FiniteSets

CONSTANTS
  Callers,    \* threads that call the public functions
  MaxTimers,  \* bound on the timers added
  Delays,     \* delays a timer may be added with
  MaxTime     \* bound on the clock

ASSUME TimerManagerAssumption ==
  /\ MaxTimers \in Nat /\ MaxTime \in Nat
  /\ Delays \subseteq Nat

Ids == 1..MaxTimers

VARIABLES
  now,       \* the clock
  running,   \* running_
  nextId,    \* next_id_
  timers,    \* the keys of timers_
  expire,    \* expire_time_ of each timer
  pc,        \* where the timer thread is
  until,     \* what it waits for in wait_until, 0 outside of it
  expired,   \* expired_timers that have not been executed
  fired,     \* timers whose callback was called
  cancel,    \* how each timer was first given to cancel_timer(): before it was due, or late
  caller     \* where each caller is in shutdown()

vars == <<now, running, nextId, timers, expire, pc, until, expired, fired, cancel, caller>>

TypeOK ==
  /\ now \in 0..MaxTime
  /\ running \in BOOLEAN
  /\ nextId \in 1..MaxTimers + 1
  /\ timers \subseteq 1..nextId - 1
  /\ expire \in [Ids -> Nat]
  /\ pc \in {"loop", "lock", "check", "block", "waiting", "blockUntil",
             "waitingUntil", "relock", "run", "execute", "exit"}
  /\ until \in Nat
  /\ expired \subseteq 1..nextId - 1
  /\ fired \subseteq 1..nextId - 1
  /\ cancel \in [Ids -> {"no", "inTime", "late"}]
  /\ caller \in [Callers -> {"idle", "notify", "join", "clear", "done",
                         "late"}]

Init ==
  /\ now = 0
  /\ running = TRUE
  /\ nextId = 1
  /\ timers = {} /\ expired = {} /\ fired = {}
  /\ expire = [id \in Ids |-> 0]
  /\ cancel = [id \in Ids |-> "no"]
  /\ pc = "loop" /\ until = 0
  /\ caller = [c \in Callers |-> "idle"]

\* The timer thread holds mutex_ across these steps.
Unlocked == pc \notin {"check", "block", "blockUntil"}

\* notify_one() and notify_all(): only the timer thread ever waits on cv_.  Either
\* wait goes on by taking mutex_ again.
Woken(at) ==
  CASE at = "waiting" -> "lock"
    [] at = "waitingUntil" -> "relock"
    [] OTHER -> at

-----------------------------------------------------------------------------
\* Broken variant: the timer thread is not told.
AddTimerSilently(c) ==
  /\ caller[c] = "idle" /\ Unlocked /\ running /\ nextId <= MaxTimers
  /\ \E delay \in Delays : expire' = [expire EXCEPT ![nextId] = now + delay]
  /\ timers' = timers \union {nextId}
  /\ nextId' = nextId + 1
  /\ UNCHANGED <<now, running, pc, until, expired, fired, cancel, caller>>

\* Broken variant: the id is given out again.
AddTimerSameId(c) ==
  /\ caller[c] = "idle" /\ Unlocked /\ running /\ nextId <= MaxTimers
  /\ \E delay \in Delays : expire' = [expire EXCEPT ![nextId] = now + delay]
  /\ timers' = timers \union {nextId}
  /\ pc' = Woken(pc)
  /\ UNCHANGED <<now, running, nextId, until, expired, fired, cancel, caller>>

\* add_timer(); once running_ is cleared it does nothing.
AddTimer(c) ==
  /\ caller[c] = "idle" /\ Unlocked /\ running /\ nextId <= MaxTimers
  /\ \E delay \in Delays : expire' = [expire EXCEPT ![nextId] = now + delay]
  /\ timers' = timers \union {nextId}
  /\ nextId' = nextId + 1
  /\ pc' = Woken(pc)
  /\ UNCHANGED <<now, running, until, expired, fired, cancel, caller>>

\* cancel_timer(), of any timer that was added: it has no effect on one that was
\* collected, has fired or is gone, nor once running_ is cleared.
CancelTimer(c) ==
  /\ caller[c] = "idle" /\ Unlocked
  /\ \E id \in 1..nextId - 1 :
       /\ cancel' = [cancel EXCEPT ![id] =
                      IF @ # "no" \/ id \in fired THEN @
                      ELSE IF now < expire[id] THEN "inTime" ELSE "late"]
       /\ IF running /\ id \in timers
            THEN timers' = timers \ {id} /\ pc' = Woken(pc)
            ELSE UNCHANGED <<timers, pc>>
  /\ UNCHANGED <<now, running, nextId, expire, until, expired, fired, caller>>

\* shutdown(): the first one to clear running_ goes on, any other returns.
Shutdown(c) ==
  /\ caller[c] = "idle"
  /\ running' = FALSE
  /\ caller' = [caller EXCEPT ![c] = IF running THEN "notify" ELSE "late"]
  /\ UNCHANGED <<now, nextId, timers, expire, pc, until, expired, fired, cancel>>

\* shutdown(): notify_all().
Notify(c) ==
  /\ caller[c] = "notify"
  /\ caller' = [caller EXCEPT ![c] = "join"]
  /\ pc' = Woken(pc)
  /\ UNCHANGED <<now, running, nextId, timers, expire, until, expired, fired, cancel>>

\* shutdown(): join().
Join(c) ==
  /\ caller[c] = "join" /\ pc = "exit"
  /\ caller' = [caller EXCEPT ![c] = "clear"]
  /\ UNCHANGED <<now, running, nextId, timers, expire, pc, until, expired, fired, cancel>>

\* shutdown(): forget the timers that are left.
Clear(c) ==
  /\ caller[c] = "clear" /\ Unlocked
  /\ caller' = [caller EXCEPT ![c] = "done"]
  /\ timers' = {}
  /\ UNCHANGED <<now, running, nextId, expire, pc, until, expired, fired, cancel>>

-----------------------------------------------------------------------------
\* The timer thread.

Jump(from, to) == pc = from /\ pc' = to

\* The condition of the outer loop.
Loop ==
  /\ Jump("loop", IF running THEN "lock" ELSE "exit")
  /\ UNCHANGED <<now, running, nextId, timers, expire, until, expired, fired, cancel, caller>>

\* Lock mutex_, at first or on the way out of cv_.wait.
Lock ==
  /\ Jump("lock", "check")
  /\ UNCHANGED <<now, running, nextId, timers, expire, until, expired, fired, cancel, caller>>

\* Broken variant: the comparison of times is the wrong way round.
CheckLatest ==
  /\ \/ ~running /\ Jump("check", "exit") /\ UNCHANGED until
     \/ running /\ timers = {} /\ Jump("check", "block") /\ UNCHANGED until
     \/ /\ running /\ Jump("check", "blockUntil")
        /\ \E id \in timers :
             /\ \A other \in timers : expire[id] >= expire[other]
             /\ until' = expire[id]
  /\ UNCHANGED <<now, running, nextId, timers, expire, expired, fired, cancel, caller>>

\* The condition of cv_.wait, and what follows it: stop, wait for a timer, or find
\* the earliest one.
Check ==
  /\ \/ ~running /\ Jump("check", "exit") /\ UNCHANGED until
     \/ running /\ timers = {} /\ Jump("check", "block") /\ UNCHANGED until
     \/ /\ running /\ Jump("check", "blockUntil")
        /\ \E id \in timers :
             /\ \A other \in timers : expire[id] <= expire[other]
             /\ until' = expire[id]
  /\ UNCHANGED <<now, running, nextId, timers, expire, expired, fired, cancel, caller>>

\* cv_.wait and cv_.wait_until release mutex_ and block.
Block ==
  /\ Jump("block", "waiting") \/ Jump("blockUntil", "waitingUntil")
  /\ UNCHANGED <<now, running, nextId, timers, expire, until, expired, fired, cancel, caller>>

\* cv_.wait_until gives up at the time asked for.
TimeUp ==
  /\ now >= until /\ Jump("waitingUntil", "relock")
  /\ UNCHANGED <<now, running, nextId, timers, expire, until, expired, fired, cancel, caller>>

\* A wait may end for no reason.
Spurious ==
  /\ pc \in {"waiting", "waitingUntil"}
  /\ pc' = Woken(pc)
  /\ UNCHANGED <<now, running, nextId, timers, expire, until, expired, fired, cancel, caller>>

\* Broken variant: a timer that is due at the next tick is collected as well.
CollectEarly ==
  /\ LET due == {id \in timers : expire[id] <= now + 1} IN
       /\ Jump("relock", IF running THEN "run" ELSE "exit")
       /\ expired' = IF running THEN due ELSE {}
       /\ timers' = IF running THEN timers \ due ELSE timers
  /\ until' = 0
  /\ UNCHANGED <<now, running, nextId, expire, fired, cancel, caller>>

\* After the wait, with mutex_ held: stop, or collect the timers that are due.
Collect ==
  /\ LET due == {id \in timers : expire[id] <= now} IN
       /\ Jump("relock", IF running THEN "run" ELSE "exit")
       /\ expired' = IF running THEN due ELSE {}
       /\ timers' = IF running THEN timers \ due ELSE timers
  /\ until' = 0
  /\ UNCHANGED <<now, running, nextId, expire, fired, cancel, caller>>

\* Without mutex_: go through the collected timers, unless told to stop.
Run ==
  /\ \/ running /\ expired # {} /\ Jump("run", "execute") /\ UNCHANGED expired
     \/ (~running \/ expired = {}) /\ Jump("run", "loop") /\ expired' = {}
  /\ UNCHANGED <<now, running, nextId, timers, expire, until, fired, cancel, caller>>

\* Call the callback of the next timer, in the order of the map.
Execute ==
  /\ Jump("execute", "run")
  /\ \E id \in expired :
       /\ \A other \in expired : id <= other
       /\ expired' = expired \ {id}
       /\ fired' = fired \union {id}
  /\ UNCHANGED <<now, running, nextId, timers, expire, until, cancel, caller>>

\* Time passes.
Tick ==
  /\ now < MaxTime
  /\ now' = now + 1
  /\ UNCHANGED <<running, nextId, timers, expire, pc, until, expired, fired, cancel, caller>>

-----------------------------------------------------------------------------
TimerThread ==
  \/ Loop \/ Lock \/ Check \/ Block \/ TimeUp \/ Collect \/ Run \/ Execute

Stopping(c) == Notify(c) \/ Join(c) \/ Clear(c)

Next ==
  \/ \E c \in Callers : AddTimer(c) \/ CancelTimer(c) \/ Shutdown(c) \/ Stopping(c)
  \/ TimerThread \/ Spurious \/ Tick

\* The threads are scheduled and time goes on.  Nobody has to call anything, and no
\* wait has to end without a reason.
Fairness ==
  /\ WF_vars(TimerThread) /\ WF_vars(Tick)
  /\ \A c \in Callers : WF_vars(Stopping(c))

Spec == Init /\ [][Next]_vars

FairSpec == Spec /\ Fairness

-----------------------------------------------------------------------------
\* The timer thread never sleeps past a timer: while it waits for any timer there is
\* none, and while it waits for a time no timer is due earlier.
NeverOversleeps ==
  /\ pc \in {"block", "waiting"} => timers = {}
  /\ pc \in {"blockUntil", "waitingUntil"} => \A id \in timers : until <= expire[id]

\* Timers cancelled before they were due.
Revoked == {id \in Ids : cancel[id] = "inTime"}

\* TimerManager keeps the promise of OneShotTimers; it has stopped when shutdown()
\* of the caller that joined the thread has returned.
Abstract == INSTANCE OneShotTimers WITH
              Timers <- Ids, armed <- (timers \union expired) \ Revoked,
              revoked <- Revoked,
              stopping <- ~running,
              stopped <- \E c \in Callers : caller[c] \in {"clear", "done"}

ImplementsTimers == Abstract!Spec

\* cancel_timer() means that the timer does not run any more, whenever it is called.
\* It does not hold (README.md, section 3); ImplementsTimers says what does.
CancelledNeverRuns ==
  [][\A id \in fired' \ fired : cancel[id] = "no"]_vars

\* A timer that is due is run, unless it is cancelled or the manager stops.
DueTimersRun ==
  \A id \in Ids :
    (id \in timers /\ expire[id] <= MaxTime) ~> (id \notin timers \union expired \/ ~running)

\* shutdown() stops the timer thread and returns.
ShutdownReturns ==
  \A c \in Callers : (caller[c] = "notify") ~> (caller[c] = "done")
=============================================================================
