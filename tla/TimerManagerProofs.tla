------------------------- MODULE TimerManagerProofs -------------------------
(***************************************************************************)
(* Proofs about TimerManager, for any callers, any number of timers, any   *)
(* delays and any time: the timer thread never sleeps past a timer, and    *)
(* the manager implements OneShotTimers.                                   *)
(***************************************************************************)
EXTENDS TimerManager, TLAPS

\* Where the timers are: in the map, collected, or fired.  Only the thread's two
\* steps after the collection know of collected timers, and all of those are due.
PlaceInv ==
  /\ timers \intersect expired = {}
  /\ fired \intersect (timers \union expired) = {}
  /\ expired # {} => pc \in {"run", "execute"}
  /\ pc = "execute" => expired # {}
  /\ \A id \in expired : expire[id] <= now

\* The thread ends, and is joined, only after running_ was cleared.
StopInv ==
  /\ pc = "exit" => ~running
  /\ \A c \in Callers : caller[c] # "idle" => ~running
  /\ \A c \in Callers : caller[c] \in {"clear", "done"} => pc = "exit"

\* A timer cancelled before it was due has left the map, unless the manager was told to
\* stop first, and is not collected.
RevokedInv ==
  /\ Revoked \subseteq 1..nextId - 1
  /\ running => timers \intersect Revoked = {}
  /\ expired \intersect Revoked = {}
  /\ \A id \in Ids : cancel[id] = "late" => id < nextId /\ expire[id] <= now

IInv == TypeOK /\ NeverOversleeps /\ PlaceInv /\ StopInv /\ RevokedInv

-----------------------------------------------------------------------------
\* The invariant holds when the manager has just been constructed.
LEMMA InitInv == Init => IInv
<1> SUFFICES ASSUME Init PROVE IInv
  OBVIOUS
<1> USE TimerManagerAssumption DEF Init
<1>1. TypeOK
  BY DEF TypeOK, Ids
<1>2. NeverOversleeps /\ PlaceInv /\ StopInv
  BY DEF NeverOversleeps, PlaceInv, StopInv
<1>3. RevokedInv
  BY DEF RevokedInv, Revoked
<1> QED
  BY <1>1, <1>2, <1>3 DEF IInv

\* Every step keeps the invariant.
LEMMA StepInv == IInv /\ [Next]_vars => IInv'
<1> SUFFICES ASSUME IInv, [Next]_vars PROVE IInv'
  OBVIOUS
<1> USE TimerManagerAssumption DEF IInv, TypeOK, Ids, Jump, Woken
<1>1. ASSUME NEW self \in Callers, AddTimer(self) PROVE IInv'
  <2>1. TypeOK'
    BY <1>1 DEF AddTimer, Unlocked
  <2>2. NeverOversleeps'
    BY <1>1 DEF AddTimer, NeverOversleeps, PlaceInv, StopInv, Unlocked
  <2>3. PlaceInv'
    BY <1>1 DEF AddTimer, NeverOversleeps, PlaceInv, StopInv, Unlocked
  <2>4. StopInv'
    BY <1>1 DEF AddTimer, NeverOversleeps, PlaceInv, StopInv, Unlocked
  <2>5. RevokedInv'
    BY <1>1 DEF AddTimer, PlaceInv, RevokedInv, Revoked, Unlocked
  <2> QED
    BY <2>1, <2>2, <2>3, <2>4, <2>5
<1>2. ASSUME NEW self \in Callers, CancelTimer(self) PROVE IInv'
  <2>1. TypeOK'
    BY <1>2 DEF CancelTimer, Unlocked
  <2>2. NeverOversleeps'
    BY <1>2 DEF CancelTimer, NeverOversleeps, PlaceInv, StopInv, Unlocked
  <2>3. PlaceInv'
    BY <1>2 DEF CancelTimer, NeverOversleeps, PlaceInv, StopInv, Unlocked
  <2>4. StopInv'
    BY <1>2 DEF CancelTimer, NeverOversleeps, PlaceInv, StopInv, Unlocked
  <2>5. RevokedInv'
    BY <1>2 DEF CancelTimer, PlaceInv, RevokedInv, Revoked, Unlocked
  <2> QED
    BY <2>1, <2>2, <2>3, <2>4, <2>5
<1>3. ASSUME NEW self \in Callers, Shutdown(self) PROVE IInv'
  <2>1. TypeOK'
    BY <1>3 DEF Shutdown
  <2>2. NeverOversleeps'
    BY <1>3 DEF Shutdown, NeverOversleeps, PlaceInv, StopInv, Unlocked
  <2>3. PlaceInv'
    BY <1>3 DEF Shutdown, NeverOversleeps, PlaceInv, StopInv, Unlocked
  <2>4. StopInv'
    BY <1>3 DEF Shutdown, NeverOversleeps, PlaceInv, StopInv, Unlocked
  <2>5. RevokedInv'
    BY <1>3 DEF Shutdown, PlaceInv, RevokedInv, Revoked
  <2> QED
    BY <2>1, <2>2, <2>3, <2>4, <2>5
<1>4. ASSUME NEW self \in Callers, Notify(self) PROVE IInv'
  <2>1. TypeOK'
    BY <1>4 DEF Notify
  <2>2. NeverOversleeps'
    BY <1>4 DEF Notify, NeverOversleeps, PlaceInv, StopInv, Unlocked
  <2>3. PlaceInv'
    BY <1>4 DEF Notify, NeverOversleeps, PlaceInv, StopInv, Unlocked
  <2>4. StopInv'
    BY <1>4 DEF Notify, NeverOversleeps, PlaceInv, StopInv, Unlocked
  <2>5. RevokedInv'
    BY <1>4 DEF Notify, PlaceInv, RevokedInv, Revoked
  <2> QED
    BY <2>1, <2>2, <2>3, <2>4, <2>5
<1>5. ASSUME NEW self \in Callers, Join(self) PROVE IInv'
  <2>1. TypeOK'
    BY <1>5 DEF Join
  <2>2. NeverOversleeps'
    BY <1>5 DEF Join, NeverOversleeps, PlaceInv, StopInv, Unlocked
  <2>3. PlaceInv'
    BY <1>5 DEF Join, NeverOversleeps, PlaceInv, StopInv, Unlocked
  <2>4. StopInv'
    BY <1>5 DEF Join, NeverOversleeps, PlaceInv, StopInv, Unlocked
  <2>5. RevokedInv'
    BY <1>5 DEF Join, PlaceInv, RevokedInv, Revoked
  <2> QED
    BY <2>1, <2>2, <2>3, <2>4, <2>5
<1>6. ASSUME NEW self \in Callers, Clear(self) PROVE IInv'
  <2>1. TypeOK'
    BY <1>6 DEF Clear, Unlocked
  <2>2. NeverOversleeps'
    BY <1>6 DEF Clear, NeverOversleeps, PlaceInv, StopInv, Unlocked
  <2>3. PlaceInv'
    BY <1>6 DEF Clear, NeverOversleeps, PlaceInv, StopInv, Unlocked
  <2>4. StopInv'
    BY <1>6 DEF Clear, NeverOversleeps, PlaceInv, StopInv, Unlocked
  <2>5. RevokedInv'
    BY <1>6 DEF Clear, PlaceInv, RevokedInv, Revoked, Unlocked
  <2> QED
    BY <2>1, <2>2, <2>3, <2>4, <2>5
<1>7. CASE Loop
  <2>1. TypeOK'
    BY <1>7 DEF Loop
  <2>2. NeverOversleeps'
    BY <1>7 DEF Loop, NeverOversleeps, PlaceInv, StopInv, Unlocked
  <2>3. PlaceInv'
    BY <1>7 DEF Loop, NeverOversleeps, PlaceInv, StopInv, Unlocked
  <2>4. StopInv'
    BY <1>7 DEF Loop, NeverOversleeps, PlaceInv, StopInv, Unlocked
  <2>5. RevokedInv'
    BY <1>7 DEF Loop, PlaceInv, RevokedInv, Revoked
  <2> QED
    BY <2>1, <2>2, <2>3, <2>4, <2>5
<1>8. CASE Lock
  <2>1. TypeOK'
    BY <1>8 DEF Lock
  <2>2. NeverOversleeps'
    BY <1>8 DEF Lock, NeverOversleeps, PlaceInv, StopInv, Unlocked
  <2>3. PlaceInv'
    BY <1>8 DEF Lock, NeverOversleeps, PlaceInv, StopInv, Unlocked
  <2>4. StopInv'
    BY <1>8 DEF Lock, NeverOversleeps, PlaceInv, StopInv, Unlocked
  <2>5. RevokedInv'
    BY <1>8 DEF Lock, PlaceInv, RevokedInv, Revoked
  <2> QED
    BY <2>1, <2>2, <2>3, <2>4, <2>5
<1>9. CASE Check
  <2>1. TypeOK'
    BY <1>9 DEF Check
  <2>2. NeverOversleeps'
    BY <1>9 DEF Check, NeverOversleeps, PlaceInv, StopInv, Unlocked
  <2>3. PlaceInv'
    BY <1>9 DEF Check, NeverOversleeps, PlaceInv, StopInv, Unlocked
  <2>4. StopInv'
    BY <1>9 DEF Check, NeverOversleeps, PlaceInv, StopInv, Unlocked
  <2>5. RevokedInv'
    BY <1>9 DEF Check, PlaceInv, RevokedInv, Revoked
  <2> QED
    BY <2>1, <2>2, <2>3, <2>4, <2>5
<1>10. CASE Block
  <2>1. TypeOK'
    BY <1>10 DEF Block
  <2>2. NeverOversleeps'
    BY <1>10 DEF Block, NeverOversleeps, PlaceInv, StopInv, Unlocked
  <2>3. PlaceInv'
    BY <1>10 DEF Block, NeverOversleeps, PlaceInv, StopInv, Unlocked
  <2>4. StopInv'
    BY <1>10 DEF Block, NeverOversleeps, PlaceInv, StopInv, Unlocked
  <2>5. RevokedInv'
    BY <1>10 DEF Block, PlaceInv, RevokedInv, Revoked
  <2> QED
    BY <2>1, <2>2, <2>3, <2>4, <2>5
<1>11. CASE TimeUp
  <2>1. TypeOK'
    BY <1>11 DEF TimeUp
  <2>2. NeverOversleeps'
    BY <1>11 DEF TimeUp, NeverOversleeps, PlaceInv, StopInv, Unlocked
  <2>3. PlaceInv'
    BY <1>11 DEF TimeUp, NeverOversleeps, PlaceInv, StopInv, Unlocked
  <2>4. StopInv'
    BY <1>11 DEF TimeUp, NeverOversleeps, PlaceInv, StopInv, Unlocked
  <2>5. RevokedInv'
    BY <1>11 DEF TimeUp, PlaceInv, RevokedInv, Revoked
  <2> QED
    BY <2>1, <2>2, <2>3, <2>4, <2>5
<1>12. CASE Spurious
  <2>1. TypeOK'
    BY <1>12 DEF Spurious
  <2>2. NeverOversleeps'
    BY <1>12 DEF Spurious, NeverOversleeps, PlaceInv, StopInv, Unlocked
  <2>3. PlaceInv'
    BY <1>12 DEF Spurious, NeverOversleeps, PlaceInv, StopInv, Unlocked
  <2>4. StopInv'
    BY <1>12 DEF Spurious, NeverOversleeps, PlaceInv, StopInv, Unlocked
  <2>5. RevokedInv'
    BY <1>12 DEF Spurious, PlaceInv, RevokedInv, Revoked
  <2> QED
    BY <2>1, <2>2, <2>3, <2>4, <2>5
<1>13. CASE Collect
  <2>1. TypeOK'
    BY <1>13 DEF Collect
  <2>2. NeverOversleeps'
    BY <1>13 DEF Collect, NeverOversleeps, PlaceInv, StopInv, Unlocked
  <2>3. PlaceInv'
    BY <1>13 DEF Collect, NeverOversleeps, PlaceInv, StopInv, Unlocked
  <2>4. StopInv'
    BY <1>13 DEF Collect, NeverOversleeps, PlaceInv, StopInv, Unlocked
  <2>5. RevokedInv'
    BY <1>13 DEF Collect, PlaceInv, RevokedInv, Revoked
  <2> QED
    BY <2>1, <2>2, <2>3, <2>4, <2>5
<1>14. CASE Run
  <2>1. TypeOK'
    BY <1>14 DEF Run
  <2>2. NeverOversleeps'
    BY <1>14 DEF Run, NeverOversleeps, PlaceInv, StopInv, Unlocked
  <2>3. PlaceInv'
    BY <1>14 DEF Run, NeverOversleeps, PlaceInv, StopInv, Unlocked
  <2>4. StopInv'
    BY <1>14 DEF Run, NeverOversleeps, PlaceInv, StopInv, Unlocked
  <2>5. RevokedInv'
    BY <1>14 DEF Run, PlaceInv, RevokedInv, Revoked
  <2> QED
    BY <2>1, <2>2, <2>3, <2>4, <2>5
<1>15. CASE Execute
  <2>1. TypeOK'
    BY <1>15 DEF Execute
  <2>2. NeverOversleeps'
    BY <1>15 DEF Execute, NeverOversleeps, PlaceInv, StopInv, Unlocked
  <2>3. PlaceInv'
    BY <1>15 DEF Execute, NeverOversleeps, PlaceInv, StopInv, Unlocked
  <2>4. StopInv'
    BY <1>15 DEF Execute, NeverOversleeps, PlaceInv, StopInv, Unlocked
  <2>5. RevokedInv'
    BY <1>15 DEF Execute, PlaceInv, RevokedInv, Revoked
  <2> QED
    BY <2>1, <2>2, <2>3, <2>4, <2>5
<1>16. CASE Tick
  <2>1. TypeOK'
    BY <1>16 DEF Tick
  <2>2. NeverOversleeps'
    BY <1>16 DEF Tick, NeverOversleeps, PlaceInv, StopInv, Unlocked
  <2>3. PlaceInv'
    BY <1>16 DEF Tick, NeverOversleeps, PlaceInv, StopInv, Unlocked
  <2>4. StopInv'
    BY <1>16 DEF Tick, NeverOversleeps, PlaceInv, StopInv, Unlocked
  <2>5. RevokedInv'
    BY <1>16 DEF Tick, PlaceInv, RevokedInv, Revoked
  <2> QED
    BY <2>1, <2>2, <2>3, <2>4, <2>5
<1>17. CASE UNCHANGED vars
  <2>1. TypeOK'
    BY <1>17 DEF vars
  <2>2. NeverOversleeps'
    BY <1>17 DEF vars, NeverOversleeps, PlaceInv, StopInv, Unlocked
  <2>3. PlaceInv'
    BY <1>17 DEF vars, NeverOversleeps, PlaceInv, StopInv, Unlocked
  <2>4. StopInv'
    BY <1>17 DEF vars, NeverOversleeps, PlaceInv, StopInv, Unlocked
  <2>5. RevokedInv'
    BY <1>17 DEF vars, PlaceInv, RevokedInv, Revoked
  <2> QED
    BY <2>1, <2>2, <2>3, <2>4, <2>5
<1> QED
  BY <1>1, <1>2, <1>3, <1>4, <1>5, <1>6, <1>7, <1>8, <1>9, <1>10, <1>11, <1>12, <1>13, <1>14, <1>15, <1>16, <1>17 DEF Next, TimerThread, Stopping

\* The invariant holds in every reachable state.
THEOREM Invariant == Spec => []IInv
<1> QED
  BY InitInv, StepInv, PTL DEF Spec

\* TimerManager never leaves its types.
THEOREM TypeCorrect == Spec => []TypeOK
<1>1. IInv => TypeOK
  BY DEF IInv
<1> QED
  BY Invariant, <1>1, PTL

\* timer_thread_func_() never waits past the earliest timer, whenever add_timer(),
\* cancel_timer() and shutdown() are called: every timer added while it waits
\* wakes it up.
THEOREM NoOversleep == Spec => []NeverOversleeps
<1>1. IInv => NeverOversleeps
  BY DEF IInv
<1> QED
  BY Invariant, <1>1, PTL

-----------------------------------------------------------------------------
\* The manager starts where OneShotTimers starts.
LEMMA InitImplements == Init => Abstract!Init
  BY TimerManagerAssumption DEF Init, Abstract!Init, Ids, Revoked

\* Every step of the manager is a step of OneShotTimers or changes nothing there.
LEMMA StepImplements == IInv /\ [Next]_vars => [Abstract!Next]_(Abstract!vars)
<1> SUFFICES ASSUME IInv, [Next]_vars PROVE [Abstract!Next]_(Abstract!vars)
  OBVIOUS
<1> USE TimerManagerAssumption DEF IInv, TypeOK, Ids
<1>1. ASSUME NEW self \in Callers, AddTimer(self) PROVE [Abstract!Next]_(Abstract!vars)
  <2>1. /\ running /\ timers' = timers \union {nextId} /\ nextId \in Ids
        /\ UNCHANGED <<now, running, expired, fired, cancel, caller>>
        /\ Revoked' = Revoked
        /\ nextId \notin timers \union expired \union fired \union Revoked
    BY <1>1 DEF AddTimer, RevokedInv, Revoked
  <2>2. /\ expire'[nextId] >= now
        /\ \A other \in Ids \ {nextId} : expire'[other] = expire[other]
    BY <1>1 DEF AddTimer
  <2>3. (timers' \union expired') \ Revoked' = ((timers \union expired) \ Revoked) \union {nextId}
    BY <2>1
  <2>4. Abstract!Arm
    BY <2>1, <2>2, <2>3 DEF Abstract!Arm
  <2> QED
    BY <2>4 DEF Abstract!Next
<1>2. ASSUME NEW self \in Callers, CancelTimer(self) PROVE [Abstract!Next]_(Abstract!vars)
  <2>1. PICK id \in 1..nextId - 1 :
          /\ cancel' = [cancel EXCEPT ![id] =
                         IF @ # "no" \/ id \in fired THEN @
                         ELSE IF now < expire[id] THEN "inTime" ELSE "late"]
          /\ IF running /\ id \in timers
               THEN timers' = timers \ {id} /\ pc' = Woken(pc)
               ELSE UNCHANGED <<timers, pc>>
    BY <1>2 DEF CancelTimer
  <2>2. /\ UNCHANGED <<now, running, nextId, expire, until, expired, fired, caller>>
        /\ id \in Ids /\ cancel[id] \in {"no", "inTime", "late"}
    BY <1>2 DEF CancelTimer
  <2>3. CASE cancel[id] = "no" /\ id \notin fired /\ now < expire[id]
    <3>1. Revoked' = Revoked \union {id}
      BY <2>1, <2>2, <2>3 DEF Revoked
    <3>2. (timers' \union expired') \ Revoked' = ((timers \union expired) \ Revoked) \ {id}
      BY <2>1, <2>2, <3>1
    <3> QED
      BY <2>2, <2>3, <3>1, <3>2 DEF Abstract!TakeBack, Abstract!Next
  <2>4. CASE ~(cancel[id] = "no" /\ id \notin fired /\ now < expire[id])
    <3>1. Revoked' = Revoked
      BY <2>1, <2>2, <2>4 DEF Revoked
    <3>2. CASE timers' = timers
      BY <2>2, <3>1, <3>2 DEF Abstract!vars
    <3>3. CASE running /\ id \in timers
      <4>1. id \notin Revoked /\ id \notin expired /\ id \notin fired
        BY <3>3 DEF RevokedInv, PlaceInv
      <4>2. timers' = timers \ {id}
        BY <2>1, <3>3
      <4>3. CASE expire[id] <= now
        BY <2>2, <3>1, <3>3, <4>1, <4>2, <4>3 DEF Abstract!TakeBackLate, Abstract!Next
      <4>4. CASE ~(expire[id] <= now)
        <5>1. cancel[id] = "late"
          BY <2>2, <2>4, <4>1, <4>4 DEF Revoked
        <5> QED
          BY <2>2, <4>4, <5>1 DEF RevokedInv
      <4> QED
        BY <4>3, <4>4
    <3> QED
      BY <2>1, <3>2, <3>3
  <2> QED
    BY <2>3, <2>4
<1>3. ASSUME NEW self \in Callers, Shutdown(self) PROVE [Abstract!Next]_(Abstract!vars)
  <2>1. Abstract!Stop
    BY <1>3 DEF Shutdown, Abstract!Stop, Jump, PlaceInv, StopInv, RevokedInv, Revoked
  <2> QED
    BY <2>1 DEF Abstract!Next
<1>4. ASSUME NEW self \in Callers, Notify(self) PROVE [Abstract!Next]_(Abstract!vars)
  BY <1>4 DEF Notify, Jump, PlaceInv, StopInv, RevokedInv, Revoked, Abstract!vars
<1>5. ASSUME NEW self \in Callers, Join(self) PROVE [Abstract!Next]_(Abstract!vars)
  <2>1. Abstract!Drop
    BY <1>5 DEF Join, Abstract!Drop, Jump, PlaceInv, StopInv, RevokedInv, Revoked
  <2> QED
    BY <2>1 DEF Abstract!Next
<1>6. ASSUME NEW self \in Callers, Clear(self) PROVE [Abstract!Next]_(Abstract!vars)
  <2>1. Abstract!Drop
    BY <1>6 DEF Clear, Abstract!Drop, Jump, PlaceInv, StopInv, RevokedInv, Revoked
  <2> QED
    BY <2>1 DEF Abstract!Next
<1>7. CASE Loop
  BY <1>7 DEF Loop, Jump, PlaceInv, StopInv, RevokedInv, Revoked, Abstract!vars
<1>8. CASE Lock
  BY <1>8 DEF Lock, Jump, PlaceInv, StopInv, RevokedInv, Revoked, Abstract!vars
<1>9. CASE Check
  BY <1>9 DEF Check, Jump, PlaceInv, StopInv, RevokedInv, Revoked, Abstract!vars
<1>10. CASE Block
  BY <1>10 DEF Block, Jump, PlaceInv, StopInv, RevokedInv, Revoked, Abstract!vars
<1>11. CASE TimeUp
  BY <1>11 DEF TimeUp, Jump, PlaceInv, StopInv, RevokedInv, Revoked, Abstract!vars
<1>12. CASE Spurious
  BY <1>12 DEF Spurious, Jump, PlaceInv, StopInv, RevokedInv, Revoked, Abstract!vars
<1>13. CASE Collect
  BY <1>13 DEF Collect, Jump, PlaceInv, StopInv, RevokedInv, Revoked, Abstract!vars
<1>14. CASE Run
  <2>1. CASE running
    BY <1>14, <2>1 DEF Run, Jump, RevokedInv, Revoked, Abstract!vars
  <2>2. CASE ~running
    <3>1. Abstract!Drop
      BY <1>14, <2>2 DEF Run, Jump, RevokedInv, Revoked, Abstract!Drop
    <3> QED
      BY <3>1 DEF Abstract!Next
  <2> QED
    BY <2>1, <2>2
<1>15. CASE Execute
  <2>1. Abstract!Fire
    BY <1>15 DEF Execute, Abstract!Fire, Jump, PlaceInv, StopInv, RevokedInv, Revoked
  <2> QED
    BY <2>1 DEF Abstract!Next
<1>16. CASE Tick
  <2>1. Abstract!Tick
    BY <1>16 DEF Tick, Abstract!Tick, Jump, PlaceInv, StopInv, RevokedInv, Revoked
  <2> QED
    BY <2>1 DEF Abstract!Next
<1>17. CASE UNCHANGED vars
  BY <1>17 DEF vars, Abstract!vars, Revoked
<1> QED
  BY <1>1, <1>2, <1>3, <1>4, <1>5, <1>6, <1>7, <1>8, <1>9, <1>10, <1>11, <1>12, <1>13, <1>14, <1>15, <1>16, <1>17 DEF Next, TimerThread, Stopping

\* However its functions interleave with its thread, TimerManager fires a timer at
\* most once, never early, not if cancel_timer() was called for it before it was due
\* (whether or not the thread was collecting), and not after shutdown() has joined the
\* thread.  A timer that is due may fire in spite of cancel_timer().
THEOREM TimersKept == Spec => ImplementsTimers
<1> QED
  BY Invariant, InitImplements, StepImplements, PTL DEF Spec, ImplementsTimers, Abstract!Spec
=============================================================================
