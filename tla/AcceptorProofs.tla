-------------------------- MODULE AcceptorProofs --------------------------
(***************************************************************************)
(* Proofs about Acceptor, for any number of threads that poll, of AcceptEx *)
(* calls, of clients and of failures.  A context is in one place, so a     *)
(* call that is issued is one more outstanding call; the count of the      *)
(* channel is therefore exact, and so the channel is destroyed when no     *)
(* call is outstanding and none can be issued any more.  A context that    *)
(* is not in the pool has a socket of its own, and each call that start()  *)
(* asked for is outstanding, to be replaced or lost.                       *)
(***************************************************************************)
EXTENDS Acceptor, TLAPS, FiniteSetTheorems, SequenceTheorems

Listed == 1..Len(free)

\* Contexts are numbers that were given out.
PoolTyped ==
  /\ acceptHandle \in Seq(Handles \union {0}) /\ free \in Seq(Nat)
  /\ \A i \in Listed : free[i] \in Contexts
  /\ posted \subseteq Contexts
  /\ ctx \in [Threads -> Contexts \union {0}] /\ old \in [Threads -> Contexts \union {0}]

\* PoolExclusive, place by place.
PoolApart ==
  /\ \A i, j \in Listed : free[i] = free[j] => i = j
  /\ \A i \in Listed : free[i] \notin posted
  /\ \A i \in Listed, t \in Threads : free[i] # ctx[t] /\ free[i] # old[t]
  /\ \A t \in Threads : ctx[t] \notin posted /\ old[t] \notin posted
  /\ \A t, u \in Threads : t # u /\ ctx[t] = ctx[u] => ctx[t] = 0
  /\ \A t, u \in Threads : t # u /\ old[t] = old[u] => old[t] = 0
  /\ \A t, u \in Threads : ctx[t] = old[u] => ctx[t] = 0

PoolInv == PoolTyped /\ PoolApart

\* What a thread has in hand at each place: the context of a call that is being issued or has accepted,
\* and that of a call that has failed, or neither.
WithContext == {"acceptEx", "onAccept", "onConn", "insert", "startConn", "dropConn"}
AfterFailure == {"onReset", "onAborted", "onLast", "resetChannel", "release"}
NoFailure ==
  {"idle", "onAccept", "onConn", "insert", "startConn", "dropConn", "message", "ending"}

PlaceInv ==
  /\ pc \in [Threads -> Labels]
  /\ pc[App] \in AppLabels /\ old[App] = 0
  /\ \A t \in Pollers : pc[t] \in PollerLabels
  /\ \A t \in Threads : pc[t] # "ending" => (ctx[t] # 0 <=> pc[t] \in WithContext)
  /\ \A t \in Threads : pc[t] \in AfterFailure => old[t] # 0
  /\ \A t \in Threads : pc[t] \in NoFailure => old[t] = 0

-----------------------------------------------------------------------------
\* What the operators on the pool do.  The first four lemmas are about the moves of a
\* context between the pool, a thread and the kernel.

\* ContextPool::acquire() gives a context that is nowhere else.
LEMMA AcquireFree ==
  ASSUME PoolInv, NEW c, NEW h \in Handles, Acquire(c, h)
  PROVE  /\ c \in Nat \ {0} /\ c \in Contexts' /\ Contexts \subseteq Contexts'
         /\ acceptHandle' \in Seq(Handles \union {0}) /\ free' \in Seq(Nat)
         /\ Listed' \subseteq Listed /\ \A i \in Listed' : free'[i] = free[i] /\ free[i] # c
         /\ c \notin posted
         /\ \A t \in Threads : ctx[t] # c /\ old[t] # c
<1> USE DEF PoolInv, PoolTyped, PoolApart, Contexts, Listed
<1>1. CASE free = <<>>
  <2>1. c = Len(acceptHandle) + 1 /\ acceptHandle' = Append(acceptHandle, h) /\ free' = free
    BY <1>1 DEF Acquire
  <2>2. Len(acceptHandle') = Len(acceptHandle) + 1 /\ acceptHandle' \in Seq(Handles \union {0})
    BY <2>1, AppendProperties
  <2>3. Len(free) = 0 /\ Len(acceptHandle) \in Nat
    BY <1>1
  <2> QED
    BY <2>1, <2>2, <2>3
<1>2. CASE free # <<>>
  <2>1. /\ c = free[Len(free)] /\ free' = SubSeq(free, 1, Len(free) - 1)
        /\ acceptHandle' = [acceptHandle EXCEPT ![c] = h]
    BY <1>2 DEF Acquire
  <2>2. Len(free) \in Nat \ {0} /\ Len(acceptHandle) \in Nat
    BY <1>2
  <2>3. acceptHandle' \in Seq(Handles \union {0}) /\ Len(acceptHandle') = Len(acceptHandle)
    <3>1. acceptHandle \in Seq(Handles \union {0}) /\ h \in Handles \union {0}
      OBVIOUS
    <3>2. c \in 1..Len(acceptHandle)
      BY <2>1, <2>2
    <3> QED
      BY <2>1, <3>1, <3>2, ExceptSeq
  <2>4. /\ free' \in Seq(Nat) /\ Len(free') = Len(free) - 1
        /\ \A i \in 1..Len(free) - 1 : free'[i] = free[i]
    <3> DEFINE n == Len(free) - 1
    <3>1. \A i \in 1..n : free[i] \in Nat
      BY <2>2
    <3>2. n \in Nat /\ n - 1 + 1 = n
      BY <2>2
    <3> HIDE DEF n
    <3>3. /\ SubSeq(free, 1, n) \in Seq(Nat) /\ Len(SubSeq(free, 1, n)) = IF 1 <= n THEN n - 1 + 1 ELSE 0
          /\ \A i \in 1..n - 1 + 1 : SubSeq(free, 1, n)[i] = free[1 + i - 1]
      BY <3>1, <3>2, SubSeqProperties, 1 \in Int, n \in Int
    <3> QED
      BY <2>1, <3>2, <3>3 DEF n
  <2>5. /\ Len(free) \in Listed /\ Listed' \subseteq Listed
        /\ \A i \in Listed' : free'[i] = free[i] /\ i # Len(free)
    BY <2>2, <2>4
  <2>6. c \in Contexts /\ Contexts' = Contexts /\ c \in Nat \ {0}
    BY <2>1, <2>2, <2>3, <2>5
  <2>7. c \notin posted /\ \A t \in Threads : ctx[t] # c /\ old[t] # c
    BY <2>1, <2>5
  <2>8. \A i \in Listed' : free'[i] = free[i] /\ free[i] # c
    BY <2>1, <2>5
  <2> QED
    BY <2>3, <2>4, <2>5, <2>6, <2>7, <2>8
<1> QED
  BY <1>1, <1>2

\* It sets the socket of that context and of no other.
LEMMA AcquireSets ==
  ASSUME PoolInv, NEW c, NEW h \in Handles, Acquire(c, h)
  PROVE  acceptHandle'[c] = h /\ \A d \in Contexts : d # c => acceptHandle'[d] = acceptHandle[d]
<1> USE DEF PoolInv, PoolTyped, Contexts
<1>1. CASE free = <<>>
  BY <1>1, AppendProperties DEF Acquire
<1>2. CASE free # <<>>
  <2>1. acceptHandle' = [acceptHandle EXCEPT ![c] = h] /\ c = free[Len(free)]
    BY <1>2 DEF Acquire
  <2>2. Len(free) \in Listed
    BY <1>2 DEF Listed
  <2>3. c \in 1..Len(acceptHandle)
    BY <2>1, <2>2
  <2> QED
    BY <2>1, <2>3
<1> QED
  BY <1>1, <1>2

\* The invariant of the pool depends only on these.
LEMMA PoolUnchanged ==
  ASSUME PoolInv, UNCHANGED <<acceptHandle, free, posted, ctx, old>>
  PROVE  PoolInv'
BY DEF PoolInv, PoolTyped, PoolApart, Contexts, Listed

\* A thread takes a context in hand, from the pool, ...
LEMMA PoolTake ==
  ASSUME PoolInv, NEW t \in Threads, NEW c, NEW h \in Handles, Acquire(c, h),
         ctx' = [ctx EXCEPT ![t] = c], UNCHANGED <<posted, old>>
  PROVE  PoolInv'
<1>1. /\ c \in Nat \ {0} /\ c \in Contexts' /\ Contexts \subseteq Contexts'
      /\ acceptHandle' \in Seq(Handles \union {0}) /\ free' \in Seq(Nat)
      /\ Listed' \subseteq Listed /\ \A i \in Listed' : free'[i] = free[i] /\ free[i] # c
      /\ c \notin posted
      /\ \A u \in Threads : ctx[u] # c /\ old[u] # c
  BY AcquireFree
<1>2. PoolTyped'
  BY <1>1 DEF PoolInv, PoolTyped
<1>3. PoolApart'
  BY <1>1 DEF PoolInv, PoolTyped, PoolApart
<1> QED
  BY <1>2, <1>3 DEF PoolInv

\* ... or from the kernel, ...
LEMMA PoolDequeue ==
  ASSUME PoolInv, NEW t \in Threads, NEW c \in posted, posted' = posted \ {c},
         UNCHANGED <<acceptHandle, free>>,
         \/ ctx' = [ctx EXCEPT ![t] = c] /\ old' = old
         \/ old' = [old EXCEPT ![t] = c] /\ ctx' = ctx
  PROVE  PoolInv'
<1>1. Contexts' = Contexts /\ Listed' = Listed /\ c # 0
  BY DEF Contexts, Listed, PoolInv, PoolTyped
<1>2. PoolTyped'
  BY <1>1 DEF PoolInv, PoolTyped
<1>3. CASE ctx' = [ctx EXCEPT ![t] = c] /\ old' = old
  <2>1. \A u \in Threads : ctx'[u] = (IF u = t THEN c ELSE ctx[u])
    BY <1>3 DEF PoolInv, PoolTyped
  <2>2. \A i, j \in Listed' : free'[i] = free'[j] => i = j
    BY <1>1 DEF PoolInv, PoolApart
  <2>3. \A i \in Listed' : free'[i] \notin posted' /\ free'[i] # c
    BY <1>1 DEF PoolInv, PoolApart
  <2>4. \A i \in Listed', u \in Threads : free'[i] # ctx'[u] /\ free'[i] # old'[u]
    BY <1>1, <1>3, <2>1, <2>3 DEF PoolInv, PoolApart
  <2>5. \A u \in Threads : ctx[u] # c /\ old[u] # c /\ ctx[u] \notin posted /\ old[u] \notin posted
    BY DEF PoolInv, PoolApart
  <2>6. \A u \in Threads : ctx'[u] \notin posted' /\ old'[u] \notin posted'
    BY <1>3, <2>1, <2>5
  <2>7. \A u, v \in Threads : u # v /\ ctx'[u] = ctx'[v] => ctx'[u] = 0
    BY <1>3, <2>1, <2>5 DEF PoolInv, PoolApart
  <2>8. \A u, v \in Threads : u # v /\ old'[u] = old'[v] => old'[u] = 0
    BY <1>3, <2>1, <2>5 DEF PoolInv, PoolApart
  <2>9. \A u, v \in Threads : ctx'[u] = old'[v] => ctx'[u] = 0
    BY <1>3, <2>1, <2>5 DEF PoolInv, PoolApart
  <2> QED
    BY <1>2, <2>2, <2>3, <2>4, <2>6, <2>7, <2>8, <2>9 DEF PoolApart, PoolInv
<1>4. CASE old' = [old EXCEPT ![t] = c] /\ ctx' = ctx
  <2>1. \A u \in Threads : old'[u] = (IF u = t THEN c ELSE old[u])
    BY <1>4 DEF PoolInv, PoolTyped
  <2>2. \A i, j \in Listed' : free'[i] = free'[j] => i = j
    BY <1>1 DEF PoolInv, PoolApart
  <2>3. \A i \in Listed' : free'[i] \notin posted' /\ free'[i] # c
    BY <1>1 DEF PoolInv, PoolApart
  <2>4. \A i \in Listed', u \in Threads : free'[i] # ctx'[u] /\ free'[i] # old'[u]
    BY <1>1, <1>4, <2>1, <2>3 DEF PoolInv, PoolApart
  <2>5. \A u \in Threads : old[u] # c /\ ctx[u] # c /\ old[u] \notin posted /\ ctx[u] \notin posted
    BY DEF PoolInv, PoolApart
  <2>6. \A u \in Threads : ctx'[u] \notin posted' /\ old'[u] \notin posted'
    BY <1>4, <2>1, <2>5
  <2>7. \A u, v \in Threads : u # v /\ ctx'[u] = ctx'[v] => ctx'[u] = 0
    BY <1>4, <2>1, <2>5 DEF PoolInv, PoolApart
  <2>8. \A u, v \in Threads : u # v /\ old'[u] = old'[v] => old'[u] = 0
    BY <1>4, <2>1, <2>5 DEF PoolInv, PoolApart
  <2>9. \A u, v \in Threads : ctx'[u] = old'[v] => ctx'[u] = 0
    BY <1>4, <2>1, <2>5 DEF PoolInv, PoolApart
  <2> QED
    BY <1>2, <2>2, <2>3, <2>4, <2>6, <2>7, <2>8, <2>9 DEF PoolApart, PoolInv
<1> QED
  BY <1>2, <1>3, <1>4 DEF PoolInv

\* ... and gives it to the kernel ...
LEMMA PoolPost ==
  ASSUME PoolInv, NEW t \in Threads, ctx[t] # 0, posted' = posted \union {ctx[t]},
         ctx' = [ctx EXCEPT ![t] = 0], UNCHANGED <<acceptHandle, free, old>>
  PROVE  PoolInv'
<1>1. Contexts' = Contexts /\ Listed' = Listed /\ ctx[t] \in Contexts /\ 0 \notin Contexts
  BY DEF Contexts, Listed, PoolInv, PoolTyped
<1>2. PoolTyped'
  BY <1>1 DEF PoolInv, PoolTyped
<1>3. PoolApart'
  BY <1>1 DEF PoolInv, PoolTyped, PoolApart
<1> QED
  BY <1>2, <1>3 DEF PoolInv

\* ... or back to the pool.
LEMMA PoolRelease ==
  ASSUME PoolInv, NEW t \in Threads, NEW c \in Nat, c # 0, Release(c), posted' = posted,
         \/ c = ctx[t] /\ ctx' = [ctx EXCEPT ![t] = 0] /\ old' = old
         \/ c = old[t] /\ old' = [old EXCEPT ![t] = 0] /\ ctx' = ctx
  PROVE  PoolInv'
<1>1. /\ Contexts' = Contexts /\ c \in Contexts /\ c \notin posted
      /\ \A i \in Listed : free[i] # c
      /\ acceptHandle' = acceptHandle /\ free' = Append(free, c)
  BY DEF Contexts, PoolInv, PoolTyped, PoolApart, Release
<1>2. /\ free' \in Seq(Nat) /\ Len(free') = Len(free) + 1 /\ Len(free) \in Nat
      /\ \A i \in Listed : free'[i] = free[i]
      /\ free'[Len(free) + 1] = c
  BY <1>1, AppendProperties DEF PoolInv, PoolTyped, Listed
<1>3. \A i \in Listed' : i \in Listed \/ i = Len(free) + 1
  BY <1>2 DEF Listed
<1>4. 0 \notin Contexts
  BY DEF Contexts
<1>5. PoolTyped'
  BY <1>1, <1>2, <1>3 DEF PoolInv, PoolTyped
<1>6. /\ \A u \in Threads : ctx'[u] # c /\ old'[u] # c
      /\ \A u \in Threads : ctx'[u] \in {ctx[u], 0} /\ old'[u] \in {old[u], 0}
  BY DEF PoolInv, PoolTyped, PoolApart
<1>7. PoolApart'
  <2>1. \A k, l \in Listed' : free'[k] = free'[l] => k = l
    <3> SUFFICES ASSUME NEW k \in Listed', NEW l \in Listed', free'[k] = free'[l]
                 PROVE  k = l
      OBVIOUS
    <3>1. k \in Listed /\ l \in Listed => k = l
      BY <1>2 DEF PoolInv, PoolApart
    <3> QED
      BY <1>1, <1>2, <1>3, <3>1
  <2>2. \A k \in Listed' : free'[k] \notin posted' /\ free'[k] \in Contexts
    BY <1>1, <1>2, <1>3 DEF PoolInv, PoolApart, PoolTyped
  <2>3. \A k \in Listed', u \in Threads : free'[k] # ctx'[u] /\ free'[k] # old'[u]
    <3> SUFFICES ASSUME NEW k \in Listed', NEW u \in Threads
                 PROVE  free'[k] # ctx'[u] /\ free'[k] # old'[u]
      OBVIOUS
    <3>1. CASE k \in Listed
      <4>1. free'[k] = free[k] /\ free[k] # ctx[u] /\ free[k] # old[u] /\ free'[k] # 0
        BY <1>2, <1>4, <2>2, <3>1 DEF PoolInv, PoolApart
      <4> QED
        BY <1>6, <4>1
    <3>2. CASE k = Len(free) + 1
      BY <1>2, <1>6, <3>2
    <3> QED
      BY <1>3, <3>1, <3>2
  <2>4. \A u \in Threads : ctx'[u] \notin posted' /\ old'[u] \notin posted'
    BY <1>1, <1>4, <1>6 DEF PoolInv, PoolTyped, PoolApart
  <2> QED
    BY <1>6, <2>1, <2>2, <2>3, <2>4 DEF PoolInv, PoolApart
<1> QED
  BY <1>5, <1>7 DEF PoolInv

-----------------------------------------------------------------------------
\* Where the call in hand is counted, and where the channel is about to end.
CountedAt == {"acceptEx", "onAccept", "onReset", "onAborted"}
Kinds == {"free", "listen", "accept", "leaked", "conn"}
Ending == {"onAborted", "onLast", "resetChannel"}

\* The count is exact; a channel that ends or has ended has no call and gets none, as
\* there is nothing to accept from; before start() nothing has happened.
ChannelInv ==
  /\ ioCount \in Nat /\ IsFiniteSet(posted) /\ channel \in BOOLEAN
  /\ listenHandle \in Handles \union {0} /\ sock \in [Handles -> Kinds]
  /\ AcceptsCounted
  /\ ~channel => posted = {} /\ ~Open
  /\ \A t \in Threads : pc[t] \in Ending => ~Open
  /\ \A t \in Threads : pc[t] = "resetChannel" => posted = {}
  /\ pc[App] = "idle" =>
       /\ posted = {} /\ ~channel
       /\ \A t \in Pollers : pc[t] = "idle"
       /\ \A h \in Handles : sock[h] # "listen"

\* SockExFunc counts its users.
SockExInv ==
  /\ IsFiniteSet(using) /\ initCount = Cardinality(using)
  /\ loaded <=> initCount > 0
  /\ winsock = (IF initCount = 0 THEN 0 ELSE 1)

IInv == PoolInv /\ PlaceInv /\ ChannelInv /\ SockExInv

LEMMA ThreadsFinite == IsFiniteSet(Threads) /\ App \in Threads /\ Pollers \subseteq Threads
BY AcceptorAssumption, FS_AddElement DEF Threads

\* How the number of threads with a counted call changes when one thread moves.
LEMMA CountedMove ==
  ASSUME PlaceInv, NEW t \in Threads, NEW to, pc' = [pc EXCEPT ![t] = to]
  PROVE  /\ Cardinality(Counted) \in Nat /\ Cardinality(Counted') \in Nat
         /\ pc[t] \in CountedAt => Cardinality(Counted) > 0
         /\ pc[t] \in CountedAt /\ to \in CountedAt => Cardinality(Counted') = Cardinality(Counted)
         /\ pc[t] \notin CountedAt /\ to \notin CountedAt => Cardinality(Counted') = Cardinality(Counted)
         /\ pc[t] \in CountedAt /\ to \notin CountedAt => Cardinality(Counted') = Cardinality(Counted) - 1
         /\ pc[t] \notin CountedAt /\ to \in CountedAt => Cardinality(Counted') = Cardinality(Counted) + 1
<1>1. IsFiniteSet(Counted)
  BY ThreadsFinite, FS_Subset DEF Counted
<1>2. Cardinality(Counted) \in Nat
  BY <1>1, FS_CardinalityType
<1>3. \A u \in Threads : pc'[u] = IF u = t THEN to ELSE pc[u]
  BY DEF PlaceInv
<1>4. Counted' = IF to \in CountedAt THEN Counted \union {t} ELSE Counted \ {t}
  BY <1>3 DEF Counted, CountedAt
<1>5. t \in Counted <=> pc[t] \in CountedAt
  BY DEF Counted, CountedAt
<1>6. Cardinality(Counted \union {t}) = IF t \in Counted THEN Cardinality(Counted) ELSE Cardinality(Counted) + 1
  BY <1>1, FS_AddElement
<1>7. Cardinality(Counted \ {t}) = IF t \in Counted THEN Cardinality(Counted) - 1 ELSE Cardinality(Counted)
  BY <1>1, FS_RemoveElement
<1>8. t \in Counted => Cardinality(Counted) > 0
  <2>1. t \in Counted => Cardinality(Counted) # 0
    BY <1>1, FS_EmptySet
  <2> QED
    BY <1>2, <2>1
<1> QED
  BY <1>2, <1>4, <1>5, <1>6, <1>7, <1>8

\* A thread moves on: what has to be looked at for the places of threads ...
LEMMA PlaceMove ==
  ASSUME PlaceInv, NEW t \in Threads, NEW to \in Labels, pc' = [pc EXCEPT ![t] = to],
         IF t = App THEN to \in AppLabels /\ old'[t] = 0 ELSE to \in PollerLabels,
         \A u \in Threads \ {t} : ctx'[u] = ctx[u] /\ old'[u] = old[u],
         to # "ending" => (ctx'[t] # 0 <=> to \in WithContext),
         to \in AfterFailure => old'[t] # 0,
         to \in NoFailure => old'[t] = 0
  PROVE  PlaceInv'
<1>1. \A u \in Threads : pc'[u] = IF u = t THEN to ELSE pc[u]
  BY DEF PlaceInv
<1>2. pc' \in [Threads -> Labels]
  BY DEF PlaceInv
<1>3. App \in Threads /\ Pollers \subseteq Threads /\ App \notin Pollers
  BY ThreadsFinite, AcceptorAssumption
<1>4. pc'[App] \in AppLabels /\ old'[App] = 0
  BY <1>1, <1>3 DEF PlaceInv
<1>5. \A u \in Pollers : pc'[u] \in PollerLabels
  BY <1>1, <1>3 DEF PlaceInv
<1>6. /\ \A u \in Threads : pc'[u] # "ending" => (ctx'[u] # 0 <=> pc'[u] \in WithContext)
      /\ \A u \in Threads : pc'[u] \in AfterFailure => old'[u] # 0
      /\ \A u \in Threads : pc'[u] \in NoFailure => old'[u] = 0
  BY <1>1 DEF PlaceInv
<1> QED
  BY <1>2, <1>4, <1>5, <1>6 DEF PlaceInv

\* ... and for the channel.
LEMMA ChannelMove ==
  ASSUME ChannelInv, PlaceInv, NEW t \in Threads, NEW to \in Labels,
         pc' = [pc EXCEPT ![t] = to],
         pc[t] # "idle" \/ posted # {} \/ pc[App] # "idle", to = "idle" => t \in Pollers,
         channel' = channel, ioCount' \in Nat, IsFiniteSet(posted'),
         listenHandle' \in Handles \union {0}, sock' \in [Handles -> Kinds],
         Open' => Open,
         AcceptsCounted',
         posted' \subseteq posted \/ Open,
         to \in Ending => pc[t] \in Ending \/ ~Open,
         to = "resetChannel" => posted' = {}
  PROVE  ChannelInv'
<1>1. \A u \in Threads : pc'[u] = IF u = t THEN to ELSE pc[u]
  BY DEF PlaceInv
<1>2. App \in Threads /\ Pollers \subseteq Threads /\ App \notin Pollers
  BY ThreadsFinite, AcceptorAssumption
<1>3. pc'[App] # "idle"
  BY <1>1, <1>2 DEF ChannelInv, Threads
<1>4. ~channel' => posted' = {} /\ ~Open'
  BY DEF ChannelInv
<1>5. \A u \in Threads : pc'[u] \in Ending => ~Open'
  BY <1>1 DEF ChannelInv
<1>6. \A u \in Threads : pc'[u] = "resetChannel" => posted' = {}
  BY <1>1 DEF ChannelInv, Ending
<1> QED
  BY <1>3, <1>4, <1>5, <1>6 DEF ChannelInv

\* Closing a socket, or giving it to anyone but the listener, opens no listening socket.
LEMMA NotListen ==
  ASSUME ChannelInv, NEW h, NEW x \in Kinds, x # "listen", sock' = [sock EXCEPT ![h] = x],
         listenHandle' \in {listenHandle, 0}
  PROVE  /\ sock' \in [Handles -> Kinds] /\ listenHandle' \in Handles \union {0}
         /\ Open' => Open
BY DEF ChannelInv, Open

\* Where go_accepting_() returns to.
LEMMA ReturnMoves ==
  ASSUME PoolInv, PlaceInv, NEW t \in Threads, Return(t), pc[t] \in {"accept", "socket", "acceptEx", "onAccept"}
  PROVE  \E to \in {"start", "release", "idle"} :
           /\ pc' = [pc EXCEPT ![t] = to] /\ ctx' = [ctx EXCEPT ![t] = 0] /\ old' = old
           /\ to = (IF t = App THEN "start" ELSE IF old[t] # 0 THEN "release" ELSE "idle")
           /\ to = "idle" => t \in Pollers
           /\ PlaceInv'
<1> DEFINE to == IF t = App THEN "start" ELSE IF old[t] # 0 THEN "release" ELSE "idle"
<1>1. /\ pc' = [pc EXCEPT ![t] = to] /\ ctx' = [ctx EXCEPT ![t] = 0] /\ old' = old
      /\ to \in {"start", "release", "idle"} /\ to = "idle" => t \in Pollers
  BY DEF Return, GoWith, Threads
<1>2. to \in Labels
  BY <1>1 DEF Labels, AppLabels, PollerLabels
<1>3. IF t = App THEN to \in AppLabels /\ old'[t] = 0 ELSE to \in PollerLabels
  BY <1>1 DEF PlaceInv, AppLabels, PollerLabels
<1>4. to \in AfterFailure => old'[t] # 0
  BY <1>1 DEF AfterFailure
<1>5. to \in NoFailure => old'[t] = 0
  BY <1>1 DEF NoFailure, PlaceInv
<1>6. (ctx'[t] # 0 <=> to \in WithContext) /\ \A u \in Threads \ {t} : ctx'[u] = ctx[u] /\ old'[u] = old[u]
  <2>1. to \notin WithContext
    BY DEF WithContext
  <2>2. ctx'[t] = 0
    BY <1>1 DEF PoolInv, PoolTyped
  <2> QED
    BY <1>1, <2>1, <2>2
<1> HIDE DEF to
<1>7. PlaceInv'
  BY <1>1, <1>2, <1>3, <1>4, <1>5, <1>6, PlaceMove
<1> QED
  BY <1>1, <1>7 DEF to

\* A thread moves on and the count and the sockets stay what they are.
LEMMA QuietMove ==
  ASSUME ChannelInv, PlaceInv, NEW t \in Threads, NEW to \in Labels,
         pc' = [pc EXCEPT ![t] = to], UNCHANGED <<objectVars, posted, sock>>,
         pc[t] \in CountedAt <=> to \in CountedAt,
         pc[t] # "idle", to = "idle" => t \in Pollers,
         to \in Ending => pc[t] \in Ending,
         to = "resetChannel" => posted = {}
  PROVE  ChannelInv'
<1>1. Open' = Open
  BY DEF Open, objectVars
<1>2. Cardinality(Counted') = Cardinality(Counted)
  BY CountedMove
<1>3. AcceptsCounted'
  BY <1>2 DEF ChannelInv, AcceptsCounted, objectVars
<1>4. /\ channel' = channel /\ ioCount' \in Nat /\ IsFiniteSet(posted')
      /\ listenHandle' \in Handles \union {0} /\ sock' \in [Handles -> Kinds]
  BY DEF ChannelInv, objectVars
<1> QED
  BY <1>1, <1>3, <1>4, ChannelMove

\* A thread stops working on a counted call, and takes it off the count.
LEMMA UncountMove ==
  ASSUME ChannelInv, PlaceInv, NEW t \in Threads, NEW to \in Labels,
         pc' = [pc EXCEPT ![t] = to], UNCHANGED <<shut, listenHandle, channel, posted>>,
         channel, Decrement,
         pc[t] \in CountedAt, to \notin CountedAt,
         to = "idle" => t \in Pollers,
         to \in Ending => pc[t] \in Ending, to # "resetChannel",
         sock' \in [Handles -> Kinds], Open' => Open
  PROVE  ChannelInv'
<1>1. Cardinality(Counted) > 0 /\ Cardinality(Counted') = Cardinality(Counted) - 1
      /\ Cardinality(Counted) \in Nat
  BY CountedMove
<1>2. Cardinality(posted) \in Nat
  BY FS_CardinalityType DEF ChannelInv
<1>3. ioCount' \in Nat /\ AcceptsCounted'
  BY <1>1, <1>2 DEF ChannelInv, AcceptsCounted, Decrement
<1>4. pc[t] # "idle"
  BY DEF CountedAt
<1>5. /\ IsFiniteSet(posted') /\ listenHandle' \in Handles \union {0}
  BY DEF ChannelInv
<1> QED
  BY <1>3, <1>4, <1>5, ChannelMove

-----------------------------------------------------------------------------
\* One lemma per action of a thread: go_accepting_() ...
Kept == PoolInv' /\ PlaceInv' /\ ChannelInv'

LEMMA GoAcceptingKeeps ==
  ASSUME IInv, NEW t \in Threads, GoAccepting(t)
  PROVE  Kept
<1> USE DEF IInv
<1>1. pc[t] = "accept" /\ ctx[t] = 0
  BY DEF GoAccepting, At, PlaceInv, WithContext
<1>2. UNCHANGED <<objectVars, posted, sock, acceptHandle, free>>
  BY DEF GoAccepting, poolVars, kernelVars
<1>3. CASE Listening
  <2>1. pc' = [pc EXCEPT ![t] = "socket"] /\ ctx' = ctx /\ old' = old
    BY <1>3 DEF GoAccepting, Go
  <2>2. "socket" \in Labels
    BY DEF Labels, AppLabels
  <2>3. PlaceInv'
    BY <1>1, <2>1, <2>2, PlaceMove
       DEF PlaceInv, AppLabels, PollerLabels, WithContext, AfterFailure, NoFailure
  <2>4. PoolInv'
    BY <1>2, <2>1, PoolUnchanged
  <2>5. ChannelInv'
    BY <1>1, <1>2, <2>1, <2>2, QuietMove DEF CountedAt, Ending
  <2> QED
    BY <2>3, <2>4, <2>5 DEF Kept
<1>4. CASE ~Listening
  <2>1. PICK to \in {"start", "release", "idle"} :
           /\ pc' = [pc EXCEPT ![t] = to] /\ ctx' = [ctx EXCEPT ![t] = 0] /\ old' = old
           /\ to = "idle" => t \in Pollers
           /\ PlaceInv'
    BY <1>1, <1>4, ReturnMoves DEF GoAccepting
  <2>2. ctx' = ctx
    BY <1>1, <2>1 DEF PoolInv, PoolTyped
  <2>3. to \in Labels
    BY DEF Labels, AppLabels, PollerLabels
  <2>4. PoolInv'
    BY <1>2, <2>1, <2>2, PoolUnchanged
  <2>5. ChannelInv'
    BY <1>1, <1>2, <2>1, <2>3, QuietMove DEF CountedAt, Ending
  <2> QED
    BY <2>1, <2>4, <2>5 DEF Kept
<1> QED
  BY <1>3, <1>4

LEMMA NewSocketKeeps ==
  ASSUME IInv, NEW t \in Threads, NewSocket(t)
  PROVE  Kept
<1> USE DEF IInv
<1>1. pc[t] = "socket" /\ ctx[t] = 0 /\ channel
  BY DEF NewSocket, At, PlaceInv, WithContext
<1>2. PICK h \in Handles, c \in 1..Len(acceptHandle) + 1 :
        /\ sock' = [sock EXCEPT ![h] = "accept"]
        /\ Acquire(c, h) /\ GoWith(t, "acceptEx", c)
  BY DEF NewSocket
<1>3. /\ ioCount' = ioCount + 1
      /\ UNCHANGED <<shut, listenHandle, channel, posted>>
  BY DEF NewSocket
<1>4. pc' = [pc EXCEPT ![t] = "acceptEx"] /\ ctx' = [ctx EXCEPT ![t] = c] /\ old' = old
  BY <1>2 DEF GoWith
<1>5. "acceptEx" \in Labels /\ c # 0
  BY DEF Labels, AppLabels
<1>6. PoolInv'
  BY <1>2, <1>3, <1>4, PoolTake
<1>7. ctx'[t] = c /\ \A u \in Threads \ {t} : ctx'[u] = ctx[u] /\ old'[u] = old[u]
  BY <1>4 DEF PoolInv, PoolTyped
<1>8. PlaceInv'
  BY <1>1, <1>4, <1>5, <1>7, PlaceMove
     DEF PlaceInv, AppLabels, PollerLabels, WithContext, AfterFailure, NoFailure
<1>9. Cardinality(Counted') = Cardinality(Counted) + 1 /\ Cardinality(Counted) \in Nat
  BY <1>1, <1>4, <1>5, CountedMove DEF CountedAt
<1>10. ioCount' \in Nat /\ AcceptsCounted'
  <2>1. Cardinality(posted) \in Nat /\ ioCount \in Nat
    BY FS_CardinalityType DEF ChannelInv
  <2> QED
    BY <1>3, <1>9, <2>1 DEF ChannelInv, AcceptsCounted
<1>11. sock' \in [Handles -> Kinds] /\ (Open' => Open) /\ listenHandle' \in Handles \union {0}
  BY <1>2, <1>3, NotListen DEF Kinds
<1>12. ChannelInv'
  <2>1. IsFiniteSet(posted') /\ posted' \subseteq posted
    BY <1>3 DEF ChannelInv
  <2> QED
    BY <1>1, <1>3, <1>4, <1>5, <1>10, <1>11, <2>1, ChannelMove DEF Ending
<1> QED
  BY <1>6, <1>8, <1>12 DEF Kept

LEMMA NoSocketKeeps ==
  ASSUME IInv, NEW t \in Threads, NoSocket(t)
  PROVE  Kept
<1> USE DEF IInv
<1>1. pc[t] = "socket" /\ ctx[t] = 0
  BY DEF NoSocket, At, PlaceInv, WithContext
<1>2. UNCHANGED <<objectVars, posted, sock>>
  BY DEF NoSocket, kernelVars
<1>3. PICK to \in {"start", "release", "idle"} :
        /\ pc' = [pc EXCEPT ![t] = to] /\ ctx' = [ctx EXCEPT ![t] = 0] /\ old' = old
        /\ to = "idle" => t \in Pollers
        /\ PlaceInv'
  BY <1>1, ReturnMoves DEF NoSocket
<1>4. ctx' = ctx
  BY <1>1, <1>3 DEF PoolInv, PoolTyped
<1>5. ASSUME free # <<>> PROVE PoolInv'
  <2>1. UNCHANGED <<acceptHandle, free>>
    BY <1>5 DEF NoSocket, poolVars
  <2> QED
    BY <1>2, <1>3, <1>4, <2>1, PoolUnchanged
<1>6. ASSUME free = <<>> PROVE PoolInv'
  <2> DEFINE n == Len(acceptHandle) + 1
  <2>1. free' = <<n>> /\ acceptHandle' = Append(acceptHandle, 0)
    BY <1>6 DEF NoSocket
  <2>2. /\ acceptHandle' \in Seq(Handles \union {0}) /\ Len(acceptHandle') = n
        /\ Len(acceptHandle) \in Nat
    BY <2>1, AppendProperties DEF PoolInv, PoolTyped
  <2>3. free' \in Seq(Nat) /\ Listed' = {1} /\ free'[1] = n
    BY <2>1, <2>2 DEF Listed
  <2>4. n \notin Contexts /\ n # 0 /\ n \in Contexts' /\ Contexts \subseteq Contexts'
    BY <2>2 DEF Contexts
  <2>5. \A u \in Threads : ctx[u] # n /\ old[u] # n
    BY <2>4 DEF PoolInv, PoolTyped
  <2> HIDE DEF n
  <2>6. PoolTyped'
    BY <1>2, <1>3, <1>4, <2>2, <2>3, <2>4 DEF PoolInv, PoolTyped
  <2>7. PoolApart'
    BY <1>2, <1>3, <1>4, <2>3, <2>4, <2>5 DEF PoolInv, PoolTyped, PoolApart
  <2> QED
    BY <2>6, <2>7 DEF PoolInv
<1>7. to \in Labels
  BY DEF Labels, AppLabels, PollerLabels
<1>8. ChannelInv'
  BY <1>1, <1>2, <1>3, <1>7, QuietMove DEF CountedAt, Ending
<1> QED
  BY <1>3, <1>5, <1>6, <1>8 DEF Kept

LEMMA AcceptingKeeps ==
  ASSUME IInv, NEW t \in Threads, Accepting(t)
  PROVE  Kept
<1> USE DEF IInv
<1>1. pc[t] = "acceptEx" /\ ctx[t] # 0 /\ Open
  BY DEF Accepting, At, PlaceInv, WithContext
<1>2. UNCHANGED <<objectVars, sock, acceptHandle, free>> /\ posted' = posted \union {ctx[t]}
  BY DEF Accepting, poolVars
<1>3. PICK to \in {"start", "release", "idle"} :
        /\ pc' = [pc EXCEPT ![t] = to] /\ ctx' = [ctx EXCEPT ![t] = 0] /\ old' = old
        /\ to = "idle" => t \in Pollers
        /\ PlaceInv'
  BY <1>1, ReturnMoves DEF Accepting
<1>4. to \in Labels
  BY DEF Labels, AppLabels, PollerLabels
<1>5. PoolInv'
  BY <1>1, <1>2, <1>3, PoolPost
<1>6. ctx[t] \notin posted
  BY DEF PoolInv, PoolApart
<1>7. IsFiniteSet(posted') /\ Cardinality(posted') = Cardinality(posted) + 1
  BY <1>2, <1>6, FS_AddElement DEF ChannelInv
<1>8. /\ Cardinality(Counted') = Cardinality(Counted) - 1 /\ Cardinality(Counted) \in Nat
  BY <1>1, <1>3, <1>4, CountedMove DEF CountedAt
<1>9. Cardinality(posted) \in Nat
  BY FS_CardinalityType DEF ChannelInv
<1>10. AcceptsCounted'
  BY <1>2, <1>7, <1>8, <1>9 DEF AcceptsCounted, ChannelInv, objectVars
<1>11. /\ Open' = Open /\ channel' = channel /\ ioCount' \in Nat
       /\ listenHandle' \in Handles \union {0} /\ sock' \in [Handles -> Kinds]
  BY <1>2 DEF ChannelInv, Open, objectVars
<1>12. ChannelInv'
  BY <1>1, <1>3, <1>4, <1>7, <1>10, <1>11, ChannelMove DEF Ending
<1> QED
  BY <1>3, <1>5, <1>12 DEF Kept

LEMMA AcceptRefusedKeeps ==
  ASSUME IInv, NEW t \in Threads, AcceptRefused(t)
  PROVE  Kept
<1> USE DEF IInv
<1>1. pc[t] = "acceptEx" /\ ctx[t] # 0 /\ channel
  BY DEF AcceptRefused, At, PlaceInv, WithContext
<1>2. /\ UNCHANGED <<shut, listenHandle, channel, posted>>
      /\ sock' = [sock EXCEPT ![acceptHandle[ctx[t]]] = "free"]
      /\ Decrement /\ Release(ctx[t])
  BY DEF AcceptRefused, CloseAccepted
<1>3. PICK to \in {"start", "release", "idle"} :
        /\ pc' = [pc EXCEPT ![t] = to] /\ ctx' = [ctx EXCEPT ![t] = 0] /\ old' = old
        /\ to = "idle" => t \in Pollers
        /\ PlaceInv'
  BY <1>1, ReturnMoves DEF AcceptRefused
<1>4. to \in Labels /\ ctx[t] \in Nat
  BY DEF Labels, AppLabels, PollerLabels, PoolInv, PoolTyped, Contexts
<1>5. PoolInv'
  BY <1>1, <1>2, <1>3, <1>4, PoolRelease
<1>6. sock' \in [Handles -> Kinds] /\ (Open' => Open)
  BY <1>2, NotListen DEF Kinds
<1>7. ChannelInv'
  BY <1>1, <1>2, <1>3, <1>4, <1>6, UncountMove DEF CountedAt, Ending
<1> QED
  BY <1>3, <1>5, <1>7 DEF Kept

\* ... the dispatch of packets ...
LEMMA DispatchKeeps ==
  ASSUME IInv, NEW t \in Threads, DispatchAccept(t) \/ DispatchError(t)
  PROVE  Kept
<1> USE DEF IInv
<1>1. pc[t] = "idle" /\ ctx[t] = 0 /\ old[t] = 0 /\ t \in Pollers /\ t # App
  BY AcceptorAssumption DEF DispatchAccept, DispatchError, Dequeues, At, PlaceInv, WithContext, NoFailure
<1>2. UNCHANGED <<objectVars, sock, acceptHandle, free>>
  BY DEF DispatchAccept, DispatchError, poolVars
<1>3. PICK c \in posted, to \in {"onAccept", "onReset", "onAborted"} :
        /\ posted' = posted \ {c} /\ pc' = [pc EXCEPT ![t] = to]
        /\ \/ ctx' = [ctx EXCEPT ![t] = c] /\ old' = old /\ to = "onAccept"
           \/ old' = [old EXCEPT ![t] = c] /\ ctx' = ctx /\ to # "onAccept"
        /\ to = "onAborted" => ~Open
  <2>1. CASE DispatchAccept(t)
    BY <2>1 DEF DispatchAccept, GoWith
  <2>2. CASE DispatchError(t)
    BY <2>2 DEF DispatchError
  <2> QED
    BY <2>1, <2>2
<1>4. c # 0 /\ to \in Labels
  BY DEF Labels, PollerLabels, PoolInv, PoolTyped, Contexts
<1>5. PoolInv'
  BY <1>2, <1>3, PoolDequeue
<1>6. /\ \A u \in Threads \ {t} : ctx'[u] = ctx[u] /\ old'[u] = old[u]
      /\ to = "onAccept" => ctx'[t] = c /\ old'[t] = 0
      /\ to # "onAccept" => ctx'[t] = 0 /\ old'[t] = c
  BY <1>1, <1>3 DEF PoolInv, PoolTyped
<1>7. PlaceInv'
  BY <1>1, <1>3, <1>4, <1>6, PlaceMove DEF PollerLabels, WithContext, AfterFailure, NoFailure
<1>8. IsFiniteSet(posted') /\ Cardinality(posted') = Cardinality(posted) - 1
  BY <1>3, FS_RemoveElement DEF ChannelInv
<1>9. Cardinality(Counted') = Cardinality(Counted) + 1 /\ Cardinality(Counted) \in Nat
  BY <1>1, <1>3, <1>4, CountedMove DEF CountedAt
<1>10. Cardinality(posted) \in Nat
  BY FS_CardinalityType DEF ChannelInv
<1>11. AcceptsCounted'
  BY <1>2, <1>8, <1>9, <1>10 DEF AcceptsCounted, ChannelInv, objectVars
<1>12. /\ Open' = Open /\ channel' = channel /\ ioCount' \in Nat
       /\ listenHandle' \in Handles \union {0} /\ sock' \in [Handles -> Kinds]
  BY <1>2 DEF ChannelInv, Open, objectVars
<1>13. posted # {} /\ posted' \subseteq posted
  BY <1>3
<1>14. ChannelInv'
  BY <1>1, <1>3, <1>4, <1>8, <1>11, <1>12, <1>13, ChannelMove DEF Ending
<1> QED
  BY <1>5, <1>7, <1>14 DEF Kept

\* ... and the handlers of completions.
LEMMA AcceptedTooLateKeeps ==
  ASSUME IInv, NEW t \in Threads, AcceptedTooLate(t)
  PROVE  Kept
<1> USE DEF IInv
<1>1. pc[t] = "onAccept" /\ ctx[t] # 0 /\ channel
  BY DEF AcceptedTooLate, At, PlaceInv, WithContext
<1>2. /\ UNCHANGED <<shut, listenHandle, channel, posted>>
      /\ sock' = [sock EXCEPT ![acceptHandle[ctx[t]]] = "free"]
      /\ Decrement /\ Release(ctx[t])
  BY DEF AcceptedTooLate, CloseAccepted
<1>3. PICK to \in {"start", "release", "idle"} :
        /\ pc' = [pc EXCEPT ![t] = to] /\ ctx' = [ctx EXCEPT ![t] = 0] /\ old' = old
        /\ to = "idle" => t \in Pollers
        /\ PlaceInv'
  BY <1>1, ReturnMoves DEF AcceptedTooLate
<1>4. to \in Labels /\ ctx[t] \in Nat
  BY DEF Labels, AppLabels, PollerLabels, PoolInv, PoolTyped, Contexts
<1>5. PoolInv'
  BY <1>1, <1>2, <1>3, <1>4, PoolRelease
<1>6. sock' \in [Handles -> Kinds] /\ (Open' => Open)
  BY <1>2, NotListen DEF Kinds
<1>7. ChannelInv'
  BY <1>1, <1>2, <1>3, <1>4, <1>6, UncountMove DEF CountedAt, Ending
<1> QED
  BY <1>3, <1>5, <1>7 DEF Kept

\* The place of a thread that goes to wait for the next client.
LEMMA ToAccept ==
  ASSUME PoolInv, PlaceInv, NEW t \in Threads, pc[t] \in {"onAccept", "onConn"},
         GoWith(t, "accept", 0)
  PROVE  /\ PlaceInv' /\ t \in Pollers /\ "accept" \in Labels
         /\ pc' = [pc EXCEPT ![t] = "accept"] /\ ctx' = [ctx EXCEPT ![t] = 0] /\ old' = old
         /\ ctx[t] # 0 /\ ctx[t] \in Nat
<1>1. pc' = [pc EXCEPT ![t] = "accept"] /\ ctx' = [ctx EXCEPT ![t] = 0] /\ old' = old
  BY DEF GoWith
<1>2. t \in Pollers /\ t # App /\ "accept" \in Labels /\ ctx[t] # 0
  BY AcceptorAssumption DEF PlaceInv, AppLabels, Threads, Labels, WithContext
<1>3. ctx[t] \in Nat
  BY DEF PoolInv, PoolTyped, Contexts
<1>4. ctx'[t] = 0 /\ \A u \in Threads \ {t} : ctx'[u] = ctx[u] /\ old'[u] = old[u]
  BY <1>1 DEF PoolInv, PoolTyped
<1>5. PlaceInv'
  BY <1>1, <1>2, <1>4, PlaceMove DEF PollerLabels, WithContext, AfterFailure, NoFailure
<1> QED
  BY <1>1, <1>2, <1>3, <1>5

LEMMA UpdateFailsKeeps ==
  ASSUME IInv, NEW t \in Threads, UpdateFails(t)
  PROVE  Kept
<1> USE DEF IInv
<1>1. pc[t] = "onAccept" /\ channel
  BY DEF UpdateFails, At
<1>2. /\ UNCHANGED <<shut, listenHandle, channel, posted>>
      /\ sock' = [sock EXCEPT ![acceptHandle[ctx[t]]] = "free"]
      /\ Decrement /\ Release(ctx[t]) /\ GoWith(t, "accept", 0)
  BY DEF UpdateFails, CloseAccepted
<1>3. /\ PlaceInv' /\ t \in Pollers /\ "accept" \in Labels
      /\ pc' = [pc EXCEPT ![t] = "accept"] /\ ctx' = [ctx EXCEPT ![t] = 0] /\ old' = old
      /\ ctx[t] # 0 /\ ctx[t] \in Nat
  BY <1>1, <1>2, ToAccept
<1>4. PoolInv'
  BY <1>2, <1>3, PoolRelease
<1>5. sock' \in [Handles -> Kinds] /\ (Open' => Open)
  BY <1>2, NotListen DEF Kinds
<1>6. ChannelInv'
  BY <1>1, <1>2, <1>3, <1>5, UncountMove DEF CountedAt, Ending
<1> QED
  BY <1>3, <1>4, <1>6 DEF Kept

LEMMA AcceptedKeeps ==
  ASSUME IInv, NEW t \in Threads, Accepted(t)
  PROVE  Kept
<1> USE DEF IInv
<1>1. pc[t] = "onAccept" /\ channel /\ old[t] = 0 /\ ctx[t] # 0
  BY DEF Accepted, At, PlaceInv, WithContext, NoFailure
<1>2. /\ UNCHANGED <<shut, listenHandle, channel, posted, sock, acceptHandle, free, ctx, old>>
      /\ Decrement /\ pc' = [pc EXCEPT ![t] = "onConn"]
  BY DEF Accepted, Go, poolVars, kernelVars
<1>3. "onConn" \in Labels /\ t \in Pollers /\ t # App
  BY <1>1, AcceptorAssumption DEF PlaceInv, AppLabels, PollerLabels, Threads, Labels
<1>4. PlaceInv'
  BY <1>1, <1>2, <1>3, PlaceMove DEF PollerLabels, WithContext, AfterFailure, NoFailure
<1>5. PoolInv'
  BY <1>2, PoolUnchanged
<1>6. sock' \in [Handles -> Kinds] /\ (Open' => Open)
  BY <1>2 DEF ChannelInv, Open
<1>7. ChannelInv'
  BY <1>1, <1>2, <1>3, <1>6, UncountMove DEF CountedAt, Ending
<1> QED
  BY <1>4, <1>5, <1>7 DEF Kept

LEMMA TakeOverKeeps ==
  ASSUME IInv, NEW t \in Threads, TakeOver(t)
  PROVE  Kept
<1> USE DEF IInv
<1>1. pc[t] = "onConn"
  BY DEF TakeOver, At
<1>2. /\ UNCHANGED <<objectVars, posted>>
      /\ sock' = [sock EXCEPT ![acceptHandle[ctx[t]]] = "conn"]
      /\ Release(ctx[t]) /\ GoWith(t, "accept", 0)
  BY DEF TakeOver, Handed
<1>3. /\ PlaceInv' /\ t \in Pollers /\ "accept" \in Labels
      /\ pc' = [pc EXCEPT ![t] = "accept"] /\ ctx' = [ctx EXCEPT ![t] = 0] /\ old' = old
      /\ ctx[t] # 0 /\ ctx[t] \in Nat
  BY <1>1, <1>2, ToAccept
<1>4. PoolInv'
  BY <1>2, <1>3, PoolRelease
<1>5. /\ sock' \in [Handles -> Kinds] /\ (Open' => Open)
      /\ listenHandle' \in Handles \union {0}
  BY <1>2, NotListen DEF Kinds, objectVars
<1>6. Cardinality(Counted') = Cardinality(Counted)
  <2>1. pc[t] \notin CountedAt /\ "accept" \notin CountedAt
    BY <1>1 DEF CountedAt
  <2> QED
    BY <1>3, <2>1, CountedMove
<1>7. /\ AcceptsCounted' /\ channel' = channel /\ ioCount' \in Nat /\ IsFiniteSet(posted')
      /\ posted' \subseteq posted
  BY <1>2, <1>6 DEF ChannelInv, AcceptsCounted, objectVars
<1>8. ChannelInv'
  BY <1>1, <1>3, <1>5, <1>7, ChannelMove DEF Ending
<1> QED
  BY <1>3, <1>4, <1>8 DEF Kept

LEMMA OnErrorKeeps ==
  ASSUME IInv, NEW t \in Threads, OnError(t)
  PROVE  Kept
<1> USE DEF IInv
<1>1. /\ pc[t] \in {"onReset", "onAborted"} /\ channel /\ old[t] # 0 /\ ctx[t] = 0
      /\ t \in Pollers /\ t # App
  BY AcceptorAssumption
     DEF OnError, At, PlaceInv, WithContext, AfterFailure, NoFailure, AppLabels, Threads
<1>2. /\ UNCHANGED <<shut, listenHandle, channel, posted, acceptHandle, free, ctx, old>>
      /\ sock' = [sock EXCEPT ![acceptHandle[old[t]]] = "leaked"]
      /\ Decrement /\ pc' = [pc EXCEPT ![t] = AfterError(t)]
  BY DEF OnError, Go, poolVars
<1>3. \/ pc[t] = "onReset" /\ AfterError(t) = "accept"
      \/ pc[t] = "onAborted" /\ AfterError(t) = "onLast"
  BY <1>1 DEF AfterError
<1>4. AfterError(t) \in Labels /\ AfterError(t) \in PollerLabels
  BY <1>3 DEF Labels, PollerLabels
<1>5. PlaceInv'
  <2>1. AfterError(t) \notin WithContext /\ AfterError(t) \notin NoFailure /\ AfterError(t) # "ending"
    BY <1>3 DEF WithContext, NoFailure
  <2> QED
    BY <1>1, <1>2, <1>4, <2>1, PlaceMove
<1>6. PoolInv'
  BY <1>2, PoolUnchanged
<1>7. sock' \in [Handles -> Kinds] /\ (Open' => Open)
  BY <1>2, NotListen DEF Kinds
<1>8. ChannelInv'
  <2>1. /\ pc[t] \in CountedAt /\ AfterError(t) \notin CountedAt
        /\ AfterError(t) \notin {"idle", "resetChannel"}
        /\ AfterError(t) \in Ending => pc[t] \in Ending
    BY <1>3 DEF CountedAt, Ending
  <2> QED
    BY <1>1, <1>2, <1>4, <1>7, <2>1, UncountMove
<1> QED
  BY <1>5, <1>6, <1>8 DEF Kept

\* With the count at zero nothing is outstanding.
LEMMA OnLastKeeps ==
  ASSUME IInv, NEW t \in Threads, OnLast(t)
  PROVE  Kept
<1> USE DEF IInv
<1>1. pc[t] = "onLast" /\ channel /\ old[t] # 0 /\ ctx[t] = 0 /\ t \in Pollers /\ t # App
  BY AcceptorAssumption
     DEF OnLast, At, PlaceInv, WithContext, AfterFailure, NoFailure, AppLabels, Threads
<1>2. PICK to \in {"resetChannel", "release"} :
        /\ pc' = [pc EXCEPT ![t] = to]
        /\ to = "resetChannel" => ioCount <= 0
  BY DEF OnLast, Go, LastCall
<1>3. UNCHANGED <<objectVars, posted, sock, acceptHandle, free, ctx, old>>
  BY DEF OnLast, Go, poolVars, kernelVars
<1>4. to \in Labels /\ to \in PollerLabels
  BY DEF Labels, PollerLabels
<1>5. PlaceInv'
  BY <1>1, <1>2, <1>3, <1>4, PlaceMove DEF WithContext, AfterFailure, NoFailure
<1>6. PoolInv'
  BY <1>3, PoolUnchanged
<1>7. to = "resetChannel" => posted = {}
  <2>1. Cardinality(Counted) \in Nat
    BY ThreadsFinite, FS_Subset, FS_CardinalityType DEF Counted
  <2>2. Cardinality(posted) \in Nat /\ (Cardinality(posted) = 0 => posted = {})
    BY FS_CardinalityType, FS_EmptySet DEF ChannelInv
  <2> QED
    BY <1>1, <1>2, <2>1, <2>2 DEF ChannelInv, AcceptsCounted
<1>8. ChannelInv'
  <2>1. pc[t] \notin CountedAt /\ to \notin CountedAt /\ pc[t] # "idle" /\ to # "idle" /\ pc[t] \in Ending
    BY <1>1 DEF CountedAt, Ending
  <2> QED
    BY <1>2, <1>3, <1>4, <1>7, <2>1, QuietMove
<1> QED
  BY <1>5, <1>6, <1>8 DEF Kept

LEMMA ResetChannelKeeps ==
  ASSUME IInv, NEW t \in Threads, ResetChannel(t)
  PROVE  Kept
<1> USE DEF IInv
<1>1. /\ pc[t] = "resetChannel" /\ old[t] # 0 /\ ctx[t] = 0 /\ t \in Pollers /\ t # App
      /\ posted = {} /\ ~Open
  BY AcceptorAssumption
     DEF ResetChannel, At, PlaceInv, ChannelInv, WithContext, AfterFailure, NoFailure, AppLabels,
         Threads, Ending
<1>2. /\ pc' = [pc EXCEPT ![t] = "release"] /\ channel' = FALSE
      /\ UNCHANGED <<listenHandle, ioCount, posted, sock, acceptHandle, free, ctx, old>>
  BY DEF ResetChannel, Go, poolVars, kernelVars
<1>3. "release" \in Labels /\ "release" \in PollerLabels
  BY DEF Labels, PollerLabels
<1>4. PlaceInv'
  BY <1>1, <1>2, <1>3, PlaceMove DEF WithContext, AfterFailure, NoFailure
<1>5. PoolInv'
  BY <1>2, PoolUnchanged
<1>6. ~Open' /\ posted' = {} /\ AcceptsCounted'
  BY <1>1, <1>2 DEF Open, AcceptsCounted
<1>7. pc'[App] # "idle"
  <2>1. pc[App] # "idle"
    BY <1>1 DEF ChannelInv
  <2> QED
    BY <1>1, <1>2, <2>1, ThreadsFinite DEF PlaceInv
<1>8. ChannelInv'
  BY <1>2, <1>6, <1>7 DEF ChannelInv
<1> QED
  BY <1>4, <1>5, <1>8 DEF Kept

LEMMA ReleaseFailedKeeps ==
  ASSUME IInv, NEW t \in Threads, ReleaseFailed(t)
  PROVE  Kept
<1> USE DEF IInv
<1>1. /\ pc[t] = "release" /\ old[t] # 0 /\ ctx[t] = 0 /\ t \in Pollers /\ t # App
  BY AcceptorAssumption
     DEF ReleaseFailed, At, PlaceInv, WithContext, AfterFailure, NoFailure, AppLabels, Threads
<1>2. /\ pc' = [pc EXCEPT ![t] = "idle"] /\ old' = [old EXCEPT ![t] = 0] /\ Release(old[t])
      /\ UNCHANGED <<objectVars, posted, sock, ctx>>
  BY DEF ReleaseFailed, kernelVars
<1>3. "idle" \in Labels /\ "idle" \in PollerLabels /\ old[t] \in Nat
  BY DEF Labels, PollerLabels, PoolInv, PoolTyped, Contexts
<1>4. old'[t] = 0 /\ \A u \in Threads \ {t} : old'[u] = old[u]
  BY <1>2 DEF PoolInv, PoolTyped
<1>5. PlaceInv'
  BY <1>1, <1>2, <1>3, <1>4, PlaceMove DEF WithContext, AfterFailure, NoFailure
<1>6. PoolInv'
  BY <1>1, <1>2, <1>3, PoolRelease
<1>7. ChannelInv'
  BY <1>1, <1>2, <1>3, QuietMove DEF CountedAt, Ending
<1> QED
  BY <1>5, <1>6, <1>7 DEF Kept

\* When nothing changes that the invariant is about.
LEMMA StutterKeeps ==
  ASSUME IInv, UNCHANGED <<objectVars, poolVars, threadVars, sock, posted>>
  PROVE  Kept
<1> USE DEF IInv, objectVars, poolVars, threadVars
<1>1. PoolInv'
  BY PoolUnchanged
<1>2. PlaceInv'
  BY DEF PlaceInv
<1>3. ChannelInv'
  BY DEF ChannelInv, Open, AcceptsCounted, Counted
<1> QED
  BY <1>1, <1>2, <1>3 DEF Kept

LEMMA AcceptStepKeeps ==
  ASSUME IInv, NEW t \in Threads, AcceptStep(t)
  PROVE  Kept
<1>1. NullChannel(t) => Kept
  BY StutterKeeps DEF NullChannel, kernelVars
<1> QED
  BY <1>1, GoAcceptingKeeps, NewSocketKeeps, NoSocketKeeps, AcceptingKeeps,
     AcceptRefusedKeeps, AcceptedTooLateKeeps, UpdateFailsKeeps, AcceptedKeeps,
     OnErrorKeeps, OnLastKeeps, ResetChannelKeeps, ReleaseFailedKeeps DEF AcceptStep

-----------------------------------------------------------------------------
\* The thread that starts and ends the acceptor.
LEMMA InitInv == AcceptorInit => IInv
<1> SUFFICES ASSUME AcceptorInit PROVE IInv
  OBVIOUS
<1> USE DEF AcceptorInit
<1>1. PoolInv
  <2>1. Listed = {} /\ Contexts = {}
    BY DEF Listed, Contexts
  <2>2. PoolTyped
    BY <2>1 DEF PoolTyped
  <2>3. PoolApart
    BY <2>1 DEF PoolApart
  <2> QED
    BY <2>2, <2>3 DEF PoolInv
<1>2. PlaceInv
  BY ThreadsFinite DEF PlaceInv, Labels, AppLabels, PollerLabels, WithContext, AfterFailure, NoFailure
<1>3. ChannelInv
  <2>1. IsFiniteSet({})
    BY FS_EmptySet
  <2>2. App \in Threads /\ Pollers \subseteq Threads
    BY ThreadsFinite
  <2> QED
    BY <2>1, <2>2 DEF ChannelInv, AcceptsCounted, Open, Ending, Kinds
<1>4. SockExInv
  <2>1. IsFiniteSet({}) /\ Cardinality({}) = 0
    BY FS_EmptySet
  <2> QED
    BY <2>1 DEF SockExInv, SockExInit
<1> QED
  BY <1>1, <1>2, <1>3, <1>4 DEF IInv

\* The thread App moves on.
LEMMA AppMove ==
  ASSUME PlaceInv, PoolInv, NEW to \in AppLabels, pc' = [pc EXCEPT ![App] = to],
         pc[App] \notin WithContext \union {"ending"}, to \notin WithContext,
         UNCHANGED <<ctx, old, posted, poolVars>>
  PROVE  PlaceInv' /\ PoolInv'
<1>1. App \in Threads /\ App \notin Pollers /\ to \in Labels
  BY ThreadsFinite, AcceptorAssumption DEF Labels
<1>2. ctx[App] = 0 /\ old[App] = 0
  BY <1>1 DEF PlaceInv
<1>3. to \notin AfterFailure
  BY DEF AppLabels, AfterFailure
<1>4. PlaceInv'
  BY <1>1, <1>2, <1>3, PlaceMove
<1>5. PoolInv'
  BY PoolUnchanged DEF poolVars
<1> QED
  BY <1>4, <1>5

LEMMA StartKeeps ==
  ASSUME IInv, Start
  PROVE  Kept
<1> USE DEF IInv
<1>1. pc[App] = "idle" /\ App \in Threads /\ Pollers \subseteq Threads /\ App \notin Pollers
  BY ThreadsFinite, AcceptorAssumption DEF Start, At
<1>2. PICK h \in Handles : sock' = [sock EXCEPT ![h] = "listen"] /\ listenHandle' = h
  BY DEF Start
<1>3. /\ channel' = TRUE /\ ioCount' = 0 /\ pc' = [pc EXCEPT ![App] = "start"]
      /\ UNCHANGED <<ctx, old, posted, poolVars>>
  BY DEF Start
<1>4. PlaceInv' /\ PoolInv'
  BY <1>1, <1>3, AppMove DEF AppLabels, WithContext
<1>5. \A u \in Threads : pc'[u] = IF u = App THEN "start" ELSE "idle"
  BY <1>1, <1>3 DEF PlaceInv, ChannelInv, Threads
<1>6. Counted' = {} /\ posted' = {}
  BY <1>1, <1>3, <1>5 DEF Counted, ChannelInv
<1>7. AcceptsCounted'
  BY <1>3, <1>6, FS_EmptySet DEF AcceptsCounted
<1>8. sock' \in [Handles -> Kinds] /\ listenHandle' \in Handles \union {0}
  BY <1>2 DEF ChannelInv, Kinds
<1>9. ChannelInv'
  BY <1>1, <1>3, <1>5, <1>6, <1>7, <1>8, FS_EmptySet DEF ChannelInv, Ending
<1> QED
  BY <1>4, <1>9 DEF Kept

LEMMA StartFailsKeeps ==
  ASSUME IInv, StartFails
  PROVE  Kept
<1> USE DEF IInv
<1>1. pc[App] = "idle" /\ App \in Threads /\ Pollers \subseteq Threads /\ App \notin Pollers
  BY ThreadsFinite, AcceptorAssumption DEF StartFails, At
<1>2. /\ pc' = [pc EXCEPT ![App] = "serving"]
      /\ UNCHANGED <<ctx, old, posted, poolVars, channel, ioCount, sock>>
  BY DEF StartFails, Go, kernelVars
<1>3. listenHandle' \in Handles \union {0}
  BY DEF StartFails, ChannelInv
<1>4. PlaceInv' /\ PoolInv'
  BY <1>1, <1>2, AppMove DEF AppLabels, WithContext
<1>5. \A u \in Threads : pc'[u] = IF u = App THEN "serving" ELSE "idle"
  BY <1>1, <1>2 DEF PlaceInv, ChannelInv, Threads
<1>6. ~Open' /\ posted' = {} /\ AcceptsCounted'
  BY <1>1, <1>2, <1>3 DEF ChannelInv, Open, AcceptsCounted
<1>7. ChannelInv'
  BY <1>1, <1>2, <1>3, <1>5, <1>6 DEF ChannelInv, Ending
<1> QED
  BY <1>4, <1>7 DEF Kept

LEMMA StartLoopKeeps ==
  ASSUME IInv, StartLoop
  PROVE  Kept
<1> USE DEF IInv
<1>1. PICK to \in {"accept", "serving"} :
        /\ pc' = [pc EXCEPT ![App] = to] /\ pc[App] = "start"
        /\ UNCHANGED <<objectVars, poolVars, ctx, old, posted, sock>>
  BY DEF StartLoop, At, kernelVars
<1>2. to \in AppLabels /\ to \in Labels /\ App \in Threads
  BY ThreadsFinite DEF AppLabels, Labels
<1>3. PlaceInv' /\ PoolInv'
  BY <1>1, <1>2, AppMove DEF WithContext
<1>4. ChannelInv'
  <2>1. /\ pc[App] \notin CountedAt /\ to \notin CountedAt /\ pc[App] # "idle" /\ to # "idle"
        /\ to \notin Ending
    BY <1>1 DEF CountedAt, Ending
  <2> QED
    BY <1>1, <1>2, <2>1, QuietMove DEF Ending
<1> QED
  BY <1>3, <1>4 DEF Kept

\* Where shutdown() goes on: the server has more to do.
Afterwards == {"down", "collect"}

LEMMA ShutdownKeeps ==
  ASSUME IInv, NEW next \in Afterwards, Shutdown(next)
  PROVE  Kept
<1> USE DEF IInv, Afterwards
<1>1. PICK to \in {"closeListen", "down", "collect"} :
        /\ pc' = [pc EXCEPT ![App] = to] /\ pc[App] = "serving"
        /\ UNCHANGED <<listenHandle, channel, ioCount, poolVars, ctx, old, posted, sock>>
  BY DEF Shutdown, Go, At, kernelVars
<1>2. to \in AppLabels /\ to \in Labels /\ App \in Threads
  BY ThreadsFinite DEF AppLabels, Labels
<1>3. PlaceInv' /\ PoolInv'
  BY <1>1, <1>2, AppMove DEF WithContext
<1>4. ChannelInv'
  <2>1. /\ pc[App] \notin CountedAt /\ to \notin CountedAt /\ pc[App] # "idle" /\ to # "idle"
        /\ to \notin Ending /\ to # "resetChannel"
    BY <1>1 DEF CountedAt, Ending
  <2>2. Cardinality(Counted') = Cardinality(Counted)
    BY <1>1, <1>2, <2>1, CountedMove
  <2>3. /\ AcceptsCounted' /\ ioCount' \in Nat /\ IsFiniteSet(posted') /\ posted' = posted
        /\ listenHandle' \in Handles \union {0} /\ sock' \in [Handles -> Kinds]
        /\ Open' = Open
    BY <1>1, <2>2 DEF ChannelInv, AcceptsCounted, Open
  <2> QED
    BY <1>1, <1>2, <2>1, <2>3, ChannelMove
<1> QED
  BY <1>3, <1>4 DEF Kept

LEMMA CloseListenKeeps ==
  ASSUME IInv, NEW next \in Afterwards, CloseListen(next)
  PROVE  Kept
<1> USE DEF IInv, Afterwards
<1>1. /\ pc' = [pc EXCEPT ![App] = next] /\ pc[App] = "closeListen"
      /\ UNCHANGED <<channel, ioCount, poolVars, ctx, old, posted>>
      /\ sock' = [sock EXCEPT ![listenHandle] = "free"] /\ listenHandle' = 0
  BY DEF CloseListen, Go, At
<1>2. next \in AppLabels /\ next \in Labels /\ App \in Threads
  BY ThreadsFinite DEF AppLabels, Labels
<1>3. PlaceInv' /\ PoolInv'
  BY <1>1, <1>2, AppMove DEF WithContext
<1>4. ChannelInv'
  <2>1. /\ pc[App] \notin CountedAt /\ next \notin CountedAt /\ pc[App] # "idle"
        /\ next \notin Ending
    BY <1>1 DEF CountedAt, Ending
  <2>2. Cardinality(Counted') = Cardinality(Counted)
    BY <1>1, <1>2, <2>1, CountedMove
  <2>3. /\ AcceptsCounted' /\ ioCount' \in Nat /\ IsFiniteSet(posted') /\ posted' = posted
        /\ listenHandle' \in Handles \union {0} /\ sock' \in [Handles -> Kinds]
        /\ ~Open'
    BY <1>1, <2>2 DEF ChannelInv, AcceptsCounted, Open, Kinds
  <2> QED
    BY <1>1, <1>2, <2>1, <2>3, ChannelMove
<1> QED
  BY <1>3, <1>4 DEF Kept

\* SockExFunc's functions stay loaded as long as somebody uses them.
LEMMA SockExKeeps ==
  ASSUME SockExInv, SockEx
  PROVE  SockExInv'
<1>1. PICK u \in Users : SockInit(u) \/ LoadFails(u) \/ SockCleanup(u)
  BY DEF SockEx
<1>2. /\ Cardinality(using) \in Nat
      /\ Cardinality(using \union {u}) = IF u \in using THEN Cardinality(using) ELSE Cardinality(using) + 1
      /\ Cardinality(using \ {u}) = IF u \in using THEN Cardinality(using) - 1 ELSE Cardinality(using)
      /\ IsFiniteSet(using \union {u}) /\ IsFiniteSet(using \ {u})
      /\ Cardinality(using \ {u}) \in Nat
  BY FS_CardinalityType, FS_AddElement, FS_RemoveElement DEF SockExInv
<1>3. CASE SockInit(u)
  BY <1>2, <1>3 DEF SockInit, SockExInv, Load
<1>4. CASE LoadFails(u)
  BY <1>2, <1>4 DEF LoadFails, SockExInv
<1>5. CASE SockCleanup(u)
  BY <1>2, <1>5 DEF SockCleanup, SockExInv
<1> QED
  BY <1>1, <1>3, <1>4, <1>5

-----------------------------------------------------------------------------
\* Every step keeps the invariant.
LEMMA NextInv ==
  ASSUME IInv, [AcceptorNext]_acceptorVars
  PROVE  IInv'
<1>1. Kept /\ UNCHANGED sockExVars => IInv'
  BY DEF IInv, Kept, SockExInv, sockExVars
<1>2. ASSUME NEW t \in Threads, AcceptStep(t) PROVE IInv'
  <2>1. UNCHANGED sockExVars
    BY <1>2 DEF AcceptStep, GoAccepting, NewSocket, NoSocket, Accepting, AcceptRefused,
       AcceptedTooLate, UpdateFails, Accepted, OnError, OnLast, ResetChannel,
       ReleaseFailed, NullChannel
  <2> QED
    BY <1>1, <1>2, <2>1, AcceptStepKeeps
<1>3. ASSUME NEW t \in Threads, DispatchAccept(t) \/ DispatchError(t) PROVE IInv'
  BY <1>1, <1>3, DispatchKeeps DEF DispatchAccept, DispatchError
<1>4. ASSUME NEW t \in Threads, TakeOver(t) PROVE IInv'
  BY <1>1, <1>4, TakeOverKeeps DEF TakeOver
<1>5. CASE Start
  BY <1>1, <1>5, StartKeeps DEF Start
<1>6. CASE StartFails
  BY <1>1, <1>6, StartFailsKeeps DEF StartFails
<1>7. CASE StartLoop
  BY <1>1, <1>7, StartLoopKeeps DEF StartLoop
<1>8. CASE Shutdown("down")
  BY <1>1, <1>8, ShutdownKeeps DEF Shutdown, Afterwards
<1>9. CASE CloseListen("down")
  BY <1>1, <1>9, CloseListenKeeps DEF CloseListen, Afterwards
<1>10. CASE Connect
  BY <1>1, <1>10, StutterKeeps DEF Connect
<1>11. CASE SockEx
  <2>1. Kept
    BY <1>11, StutterKeeps DEF SockEx, kernelVars
  <2>2. SockExInv'
    BY <1>11, SockExKeeps DEF IInv
  <2> QED
    BY <2>1, <2>2 DEF IInv, Kept
<1>12. CASE UNCHANGED acceptorVars
  BY <1>1, <1>12, StutterKeeps DEF acceptorVars, kernelVars
<1> QED
  BY <1>2, <1>3, <1>4, <1>5, <1>6, <1>7, <1>8, <1>9, <1>10, <1>11, <1>12 DEF AcceptorNext

\* The invariant holds all along.
THEOREM Invariance == AcceptorSpec => []IInv
<1>1. IInv /\ [AcceptorNext]_acceptorVars => IInv'
  BY NextInv
<1> QED
  BY InitInv, <1>1, PTL DEF AcceptorSpec

\* The channel is there as long as the kernel has a call of it.
THEOREM ChannelSafe == AcceptorSpec => []ChannelOutlivesAccepts
<1>1. IInv => ChannelOutlivesAccepts
  BY DEF IInv, ChannelInv, ChannelOutlivesAccepts
<1> QED
  BY <1>1, Invariance, PTL

\* The channel counts the calls that are outstanding or being handled, and no others.
THEOREM CountExact == AcceptorSpec => []AcceptsCounted
<1>1. IInv => AcceptsCounted
  BY DEF IInv, ChannelInv
<1> QED
  BY <1>1, Invariance, PTL

\* No context is in two places, so no OVERLAPPED is used for two calls.
THEOREM ContextsApart == AcceptorSpec => []PoolExclusive
<1>1. IInv => PoolExclusive
  <2> SUFFICES ASSUME PoolInv PROVE PoolExclusive
    BY DEF IInv
  <2> USE DEF PoolInv, PoolTyped, PoolApart
  <2>1. DOMAIN free = Listed
    BY DEF Listed
  <2>2. 0 \notin Contexts
    BY DEF Contexts
  <2>3. \A i \in Listed : free[i] \notin posted \union InHand
    BY DEF InHand
  <2>4. posted \intersect InHand = {}
    BY DEF InHand
  <2>5. \A t, u \in Threads : t # u => {ctx[t], old[t]} \intersect {ctx[u], old[u]} \subseteq {0}
    OBVIOUS
  <2> QED
    BY <2>1, <2>3, <2>4, <2>5 DEF PoolExclusive
<1> QED
  BY <1>1, Invariance, PTL

\* Whoever has initialised the extension functions has them, and Winsock is started once.
THEOREM FunctionsLoaded == AcceptorSpec => []FunctionsHeld
<1>1. IInv => FunctionsHeld
  <2> SUFFICES ASSUME SockExInv PROVE FunctionsHeld
    BY DEF IInv
  <2>1. Cardinality(using) \in Nat /\ (Cardinality(using) = 0 <=> using = {})
    BY FS_CardinalityType, FS_EmptySet DEF SockExInv
  <2> QED
    BY <2>1 DEF SockExInv, FunctionsHeld
<1> QED
  BY <1>1, Invariance, PTL
-----------------------------------------------------------------------------
\* What each context that is not in the pool stands for, and what has become of each call
\* that start() asked for.

\* Where a failed call still has its socket.
Failed == {"onReset", "onAborted"}

\* Where the server has taken over the socket of the context in hand, if there is one.
Handing == {"insert", "startConn", "dropConn", "message", "ending"}

\* The contexts with a socket that no client has yet: in the hands of a thread ...
HeldBy(t) ==
  (IF pc[t] \in Handing THEN {} ELSE {ctx[t]}) \union (IF pc[t] \in Failed THEN {old[t]} ELSE {})

\* ... or of the kernel.
Live == (posted \union UNION {HeldBy(t) : t \in Threads}) \ {0}

\* They have one socket each, and no other socket waits for a client.
SocketInv ==
  /\ \A c \in Live : acceptHandle[c] \in Handles /\ sock[acceptHandle[c]] = "accept"
  /\ \A c, d \in Live : acceptHandle[c] = acceptHandle[d] => c = d
  /\ \A h \in Handles : sock[h] = "accept" => \E c \in Live : acceptHandle[c] = h

Issuing == {"accept", "socket", "acceptEx"}
Working == Issuing \union {"start", "serving"}

\* The socket that start() has opened listens until shutdown() closes it.
ListenInv ==
  /\ pc[App] \in Working \union {"idle"} => ~shut
  /\ pc[App] \in Issuing \union {"start"} => Open
  /\ pc[App] \in {"serving", "closeListen"} =>
       Open \/ (posted = {} /\ ~channel /\ \A t \in Pollers : pc[t] = "idle")

\* The threads that are to make a call, or to replace the one they have in hand.
RefillingAt == Issuing \union {"onAccept", "onConn", "onReset"}
Refillers == {t \in Threads : pc[t] \in RefillingAt}

\* Each call that start() has to make is outstanding, in such hands, lost or to come.
SlotInv ==
  /\ lost \in Nat /\ toIssue \in Nat
  /\ pc[App] \in {"idle", "serving"} => toIssue = 0
  /\ pc[App] = "idle" => lost = 0
  /\ pc[App] \in Working /\ channel =>
       Cardinality(posted) + Cardinality(Refillers) + lost + toIssue = AcceptN

CallsInv == IInv /\ SocketInv /\ ListenInv /\ SlotInv

CallsKept == SocketInv' /\ ListenInv' /\ SlotInv'

\* What the acceptor does to sockets that are none of its own.
OthersKept ==
  \A h \in Handles : \A kind \in {"listen", "conn"} : sock'[h] = kind <=> sock[h] = kind

SocketsKept == SocketInv' /\ OthersKept

-----------------------------------------------------------------------------
\* What a move of one thread means for each part.

\* All that the kernel and the thread have.
Mine(t) == (posted \union HeldBy(t)) \ {0}

LEMMA LiveMove ==
  ASSUME PoolInv, PlaceInv, NEW t \in Threads, NEW to, pc' = [pc EXCEPT ![t] = to],
         \A u \in Threads \ {t} : ctx'[u] = ctx[u] /\ old'[u] = old[u]
  PROVE  /\ Mine(t) \subseteq Live
         /\ Mine(t)' = Mine(t) => Live' = Live
         /\ \A c \in Mine(t) : Mine(t)' = Mine(t) \ {c} => Live' = Live \ {c}
         /\ \A c : c # 0 /\ Mine(t)' = Mine(t) \union {c} => Live' = Live \union {c}
<1> DEFINE Rest == {c \in UNION {HeldBy(u) : u \in Threads} :
                     c # 0 /\ \E u \in Threads : u # t /\ c \in HeldBy(u)}
<1>0. \A c : c \in Rest <=> c # 0 /\ \E u \in Threads : u # t /\ c \in HeldBy(u)
  OBVIOUS
<1>1. Live = Mine(t) \union Rest
  <2>1. \A c : c \in Live <=> c # 0 /\ (c \in posted \/ \E u \in Threads : c \in HeldBy(u))
    BY DEF Live
  <2>2. \A c : c \in Mine(t) \union Rest
                <=> c # 0 /\ (c \in posted \/ c \in HeldBy(t) \/ \E u \in Threads : u # t /\ c \in HeldBy(u))
    BY <1>0 DEF Mine
  <2> QED
    BY <2>1, <2>2
<1>2. \A u \in Threads \ {t} : HeldBy(u)' = HeldBy(u)
  BY DEF HeldBy, PlaceInv
<1>3. Live' = Mine(t)' \union Rest
  <2>1. Rest' = Rest
    BY <1>2
  <2>2. \A c : c \in Live' <=> c # 0 /\ (c \in posted' \/ \E u \in Threads : c \in HeldBy(u)')
    BY DEF Live
  <2>3. \A c : c \in Mine(t)' \union Rest'
                <=> c # 0 /\ (c \in posted' \/ c \in HeldBy(t)' \/ \E u \in Threads : u # t /\ c \in HeldBy(u)')
    <3>1. \A c : c \in Rest' <=> c # 0 /\ \E u \in Threads : u # t /\ c \in HeldBy(u)'
      OBVIOUS
    <3> QED
      BY <3>1 DEF Mine
  <2>4. Live' = Mine(t)' \union Rest'
    BY <2>2, <2>3
  <2> QED
    BY <2>1, <2>4
<1>4. Mine(t) \intersect Rest = {}
  <2> SUFFICES ASSUME NEW c \in Mine(t), NEW u \in Threads \ {t}, c \in HeldBy(u)
               PROVE  FALSE
    OBVIOUS
  <2>1. c # 0 /\ c \in {ctx[u], old[u]} /\ (c \in posted \/ c \in {ctx[t], old[t]})
    BY DEF Mine, HeldBy
  <2> QED
    BY <2>1 DEF PoolInv, PoolApart
<1> HIDE DEF Rest
<1> QED
  BY <1>1, <1>3, <1>4

LEMMA LiveContexts ==
  ASSUME PoolInv
  PROVE  Live \subseteq 1..Len(acceptHandle)
<1>1. posted \subseteq Contexts /\ \A t \in Threads : {ctx[t], old[t]} \subseteq Contexts \union {0}
  BY DEF PoolInv, PoolTyped
<1>2. \A t \in Threads : HeldBy(t) \subseteq Contexts \union {0}
  BY <1>1 DEF HeldBy
<1> QED
  BY <1>1, <1>2 DEF Live, Contexts

\* Sockets: nothing changes, ...
LEMMA SocketsSame ==
  ASSUME SocketInv, Live' = Live, \A c \in Live : acceptHandle'[c] = acceptHandle[c],
         \A h \in Handles : sock'[h] = "accept" <=> sock[h] = "accept"
  PROVE  SocketInv'
BY DEF SocketInv

\* ... a context loses its socket, ...
LEMMA SocketsLess ==
  ASSUME SocketInv, ChannelInv, NEW c \in Live, Live' = Live \ {c},
         acceptHandle' = acceptHandle, NEW x, x # "accept",
         sock' = [sock EXCEPT ![acceptHandle[c]] = x]
  PROVE  /\ SocketInv' /\ acceptHandle[c] \in Handles /\ sock[acceptHandle[c]] = "accept"
         /\ x \notin {"listen", "conn"} => OthersKept
<1>1. acceptHandle[c] \in Handles /\ sock[acceptHandle[c]] = "accept"
  BY DEF SocketInv
<1>2. \A h \in Handles : sock'[h] = IF h = acceptHandle[c] THEN x ELSE sock[h]
  BY <1>1 DEF ChannelInv
<1>3. \A d \in Live' : acceptHandle[d] # acceptHandle[c] /\ d \in Live
  BY DEF SocketInv
<1>4. \A d \in Live' : acceptHandle[d] \in Handles /\ sock'[acceptHandle[d]] = "accept"
  BY <1>2, <1>3 DEF SocketInv
<1>5. \A h \in Handles : sock'[h] = "accept" => \E d \in Live' : acceptHandle[d] = h
  BY <1>2 DEF SocketInv
<1>6. \A d, e \in Live' : acceptHandle[d] = acceptHandle[e] => d = e
  BY DEF SocketInv
<1>7. x \notin {"listen", "conn"} => OthersKept
  BY <1>1, <1>2 DEF OthersKept
<1> QED
  BY <1>1, <1>4, <1>5, <1>6, <1>7 DEF SocketInv

\* ... or a new one comes with a context.
LEMMA SocketsMore ==
  ASSUME SocketInv, ChannelInv, NEW c, c \notin Live, Live' = Live \union {c},
         \A d \in Live : acceptHandle'[d] = acceptHandle[d],
         NEW h \in Handles, acceptHandle'[c] = h, sock[h] = "free",
         sock' = [sock EXCEPT ![h] = "accept"]
  PROVE  SocketsKept
<1>1. \A g \in Handles : sock'[g] = IF g = h THEN "accept" ELSE sock[g]
  BY DEF ChannelInv
<1>2. \A d \in Live : acceptHandle'[d] \in Handles /\ acceptHandle'[d] # h /\ sock'[acceptHandle'[d]] = "accept"
  BY <1>1 DEF SocketInv
<1>3. \A d \in Live' : acceptHandle'[d] \in Handles /\ sock'[acceptHandle'[d]] = "accept"
  BY <1>1, <1>2
<1>4. \A d, e \in Live' : acceptHandle'[d] = acceptHandle'[e] => d = e
  BY <1>2 DEF SocketInv
<1>5. \A g \in Handles : sock'[g] = "accept" => \E d \in Live' : acceptHandle'[d] = g
  BY <1>1 DEF SocketInv
<1>6. OthersKept
  BY <1>1 DEF OthersKept
<1> QED
  BY <1>3, <1>4, <1>5, <1>6 DEF SocketInv, SocketsKept

\* The listening socket stays open when another socket is opened or closed.
LEMMA StaysOpen ==
  ASSUME ChannelInv, NEW h \in Handles, sock[h] # "listen", NEW x,
         sock' = [sock EXCEPT ![h] = x], listenHandle' = listenHandle
  PROVE  Open => Open'
BY DEF ChannelInv, Open

LEMMA OpenStays ==
  ASSUME ChannelInv, OthersKept, listenHandle' = listenHandle
  PROVE  Open' = Open
<1>1. CASE listenHandle = 0
  BY <1>1 DEF Open
<1>2. CASE listenHandle \in Handles
  <2>1. sock'[listenHandle] = "listen" <=> sock[listenHandle] = "listen"
    BY <1>2 DEF OthersKept
  <2> QED
    BY <2>1 DEF Open
<1> QED
  BY <1>1, <1>2 DEF ChannelInv

\* A thread moves while the listening socket stays as it is.
LEMMA ListenMove ==
  ASSUME PlaceInv, ListenInv, NEW t \in Threads, NEW to, pc' = [pc EXCEPT ![t] = to],
         UNCHANGED <<shut, listenHandle>>, Open => Open',
         pc[t] # "idle" \/ posted # {},
         t = App => pc[t] \in Issuing \union {"start"} /\ to \in Working
  PROVE  ListenInv'
<1>1. App \in Threads /\ pc'[App] = IF t = App THEN to ELSE pc[App]
  BY ThreadsFinite DEF PlaceInv
<1>2. t # App => t \in Pollers
  BY DEF Threads
<1>3. CASE t = App
  BY <1>1, <1>3 DEF ListenInv, Working, Issuing
<1>4. CASE t # App
  BY <1>1, <1>2, <1>4 DEF ListenInv
<1> QED
  BY <1>3, <1>4

\* A thread moves: when no call is gained and none goes without being counted as lost.
LEMMA SlotMove ==
  ASSUME PlaceInv, ChannelInv, SlotInv, NEW t \in Threads, NEW to,
         pc' = [pc EXCEPT ![t] = to], channel' => channel,
         pc[t] # "idle" \/ posted # {},
         toIssue' \in Nat, lost' \in Nat, IsFiniteSet(posted'),
         IF t = App THEN /\ pc[t] \in Issuing \union {"start"} /\ to \in Working
                         /\ to = "serving" => toIssue' = 0
                    ELSE toIssue' = toIssue,
         pc[App] \in Working /\ channel =>
           Cardinality(posted') + lost' + toIssue' + (IF to \in RefillingAt THEN 1 ELSE 0)
             = Cardinality(posted) + lost + toIssue + (IF pc[t] \in RefillingAt THEN 1 ELSE 0)
  PROVE  SlotInv'
<1>1. App \in Threads /\ pc'[App] = IF t = App THEN to ELSE pc[App]
  BY ThreadsFinite DEF PlaceInv
<1>2. pc'[App] \in Working => pc[App] \in Working
  BY <1>1 DEF Working, Issuing
<1>12. pc[App] # "idle" /\ pc'[App] # "idle"
  BY <1>1 DEF ChannelInv, Threads, Working, Issuing
<1>13. pc'[App] = "serving" => toIssue' = 0
  BY <1>1 DEF SlotInv
<1>3. IsFiniteSet(Refillers) /\ Cardinality(Refillers) \in Nat
  BY ThreadsFinite, FS_Subset, FS_CardinalityType DEF Refillers
<1>4. \A u \in Threads : pc'[u] = IF u = t THEN to ELSE pc[u]
  BY DEF PlaceInv
<1>5. Refillers' = IF to \in RefillingAt THEN Refillers \union {t} ELSE Refillers \ {t}
  BY <1>4 DEF Refillers
<1>6. t \in Refillers <=> pc[t] \in RefillingAt
  BY DEF Refillers
<1>7. /\ Cardinality(Refillers \union {t}) = IF t \in Refillers THEN Cardinality(Refillers) ELSE Cardinality(Refillers) + 1
      /\ Cardinality(Refillers \ {t}) = IF t \in Refillers THEN Cardinality(Refillers) - 1 ELSE Cardinality(Refillers)
  BY <1>3, FS_AddElement, FS_RemoveElement
<1>8. Cardinality(Refillers') =
        Cardinality(Refillers) + (IF to \in RefillingAt THEN 1 ELSE 0)
                               - (IF pc[t] \in RefillingAt THEN 1 ELSE 0)
  BY <1>3, <1>5, <1>6, <1>7
<1>9. Cardinality(posted) \in Nat /\ Cardinality(posted') \in Nat
  BY FS_CardinalityType DEF ChannelInv
<1>10. lost \in Nat /\ toIssue \in Nat
  BY DEF SlotInv
<1>11. pc[App] \in Working /\ channel =>
         Cardinality(posted') + Cardinality(Refillers') + lost' + toIssue'
           = Cardinality(posted) + Cardinality(Refillers) + lost + toIssue
  BY <1>3, <1>8, <1>9, <1>10
<1> QED
  BY <1>2, <1>10, <1>11, <1>12, <1>13 DEF SlotInv
\* While start() works and until shutdown() there is something to accept from.
LEMMA WorkingOpen ==
  ASSUME ListenInv, pc[App] \in Working, channel
  PROVE  Open /\ ~shut /\ Listening
BY DEF ListenInv, Working, Open, Listening

\* What is known of a thread on its way back from go_accepting_().
LEMMA ReturnTo ==
  ASSUME PoolInv, PlaceInv, NEW t \in Threads, Return(t), pc[t] \in Issuing \union {"onAccept"}
  PROVE  \E to \in {"start", "release", "idle"} :
           /\ pc' = [pc EXCEPT ![t] = to] /\ ctx' = [ctx EXCEPT ![t] = 0] /\ old' = old
           /\ ctx'[t] = 0 /\ \A u \in Threads \ {t} : ctx'[u] = ctx[u] /\ old'[u] = old[u]
           /\ t = App => to = "start" /\ pc[t] \in Issuing
           /\ HeldBy(t) = {ctx[t]} /\ HeldBy(t)' = {0}
           /\ to \notin RefillingAt /\ pc[t] \in RefillingAt /\ pc[t] # "idle"
           /\ UNCHANGED toIssue
<1>1. PICK to \in {"start", "release", "idle"} :
        /\ pc' = [pc EXCEPT ![t] = to] /\ ctx' = [ctx EXCEPT ![t] = 0] /\ old' = old
        /\ t = App => to = "start"
  BY DEF Return, GoWith
<1>2. ctx'[t] = 0 /\ (\A u \in Threads \ {t} : ctx'[u] = ctx[u] /\ old'[u] = old[u]) /\ pc'[t] = to
  BY <1>1 DEF PoolInv, PoolTyped, PlaceInv
<1>3. t = App => pc[t] \in Issuing
  BY DEF PlaceInv, AppLabels
<1>4. HeldBy(t) = {ctx[t]} /\ HeldBy(t)' = {0}
  BY <1>2 DEF HeldBy, Failed, Handing, Issuing
<1>5. to \notin RefillingAt /\ pc[t] \in RefillingAt /\ pc[t] # "idle"
  BY DEF RefillingAt, Issuing
<1>6. UNCHANGED toIssue
  BY DEF Return, GoWith
<1> QED
  BY <1>1, <1>2, <1>3, <1>4, <1>5, <1>6

\* The context of the call in hand goes, with its socket.
LEMMA DropContext ==
  ASSUME IInv, SocketInv, NEW t \in Threads, NEW to, pc' = [pc EXCEPT ![t] = to],
         \A u \in Threads \ {t} : ctx'[u] = ctx[u] /\ old'[u] = old[u],
         NEW c, c # 0, HeldBy(t) \union {0} = {c, 0}, HeldBy(t)' \subseteq {0},
         UNCHANGED <<posted, acceptHandle, listenHandle>>,
         NEW x, x # "accept", sock' = [sock EXCEPT ![acceptHandle[c]] = x]
  PROVE  /\ SocketInv' /\ (Open => Open') /\ (x \notin {"listen", "conn"} => SocketsKept)
         /\ acceptHandle[c] \in Handles /\ sock[acceptHandle[c]] = "accept"
<1> USE DEF IInv
<1>1. c \in HeldBy(t) /\ c \in {ctx[t], old[t]}
  <2>1. c \in HeldBy(t)
    OBVIOUS
  <2> QED
    BY <2>1 DEF HeldBy
<1>2. c \notin posted
  BY <1>1 DEF PoolInv, PoolApart
<1>3. c \in Mine(t) /\ Mine(t)' = Mine(t) \ {c}
  BY <1>1, <1>2 DEF Mine
<1>4. c \in Live /\ Live' = Live \ {c}
  BY <1>3, LiveMove
<1>5. /\ SocketInv' /\ acceptHandle[c] \in Handles /\ sock[acceptHandle[c]] = "accept"
      /\ x \notin {"listen", "conn"} => OthersKept
  BY <1>4, SocketsLess
<1>6. Open => Open'
  BY <1>5, StaysOpen
<1> QED
  BY <1>5, <1>6 DEF SocketsKept

-----------------------------------------------------------------------------
\* The contexts and sockets in each action of a thread: go_accepting_() ...
LEMMA SameSockets ==
  ASSUME SocketInv, Live' = Live, \A c \in Live : acceptHandle'[c] = acceptHandle[c], sock' = sock
  PROVE  SocketsKept
BY SocketsSame DEF SocketsKept, OthersKept

LEMMA GoAcceptingSockets ==
  ASSUME IInv, SocketInv, NEW t \in Threads, GoAccepting(t)
  PROVE  SocketsKept
<1> USE DEF IInv
<1>1. pc[t] = "accept" /\ ctx[t] = 0
  BY DEF GoAccepting, At, PlaceInv, WithContext
<1>2. UNCHANGED <<posted, sock, acceptHandle>>
  BY DEF GoAccepting, poolVars, kernelVars
<1>3. PICK to \in {"socket", "start", "release", "idle"} :
        /\ pc' = [pc EXCEPT ![t] = to]
        /\ \A u \in Threads : ctx'[u] = ctx[u] /\ old'[u] = old[u]
  <2>1. CASE Listening
    BY <2>1 DEF GoAccepting, Go
  <2>2. CASE ~Listening
    BY <1>1, <2>2, ReturnTo DEF GoAccepting, Issuing
  <2> QED
    BY <2>1, <2>2
<1>4. pc'[t] = to
  BY <1>3 DEF PlaceInv
<1>5. HeldBy(t)' = {ctx[t]} /\ HeldBy(t) = {ctx[t]}
  BY <1>1, <1>3, <1>4 DEF HeldBy, Failed, Handing
<1>6. Mine(t)' = Mine(t)
  BY <1>2, <1>5 DEF Mine
<1> QED
  BY <1>2, <1>3, <1>6, LiveMove, SameSockets

LEMMA NewSocketSockets ==
  ASSUME IInv, SocketInv, NEW t \in Threads, NewSocket(t)
  PROVE  SocketsKept
<1> USE DEF IInv
<1>1. pc[t] = "socket" /\ ctx[t] = 0
  BY DEF NewSocket, At, PlaceInv, WithContext
<1>2. PICK h \in Handles, c \in 1..Len(acceptHandle) + 1 :
        /\ sock[h] = "free" /\ sock' = [sock EXCEPT ![h] = "accept"]
        /\ Acquire(c, h)
        /\ pc' = [pc EXCEPT ![t] = "acceptEx"] /\ ctx' = [ctx EXCEPT ![t] = c] /\ old' = old
  BY DEF NewSocket, Unused, GoWith
<1>3. posted' = posted
  BY DEF NewSocket
<1>4. c \notin posted /\ c # 0 /\ \A u \in Threads : ctx[u] # c /\ old[u] # c
  BY <1>2, AcquireFree
<1>5. c \notin Live
  BY <1>4 DEF Live, HeldBy
<1>6. Live' = Live \union {c}
  <2>1. /\ ctx'[t] = c /\ pc'[t] = "acceptEx"
        /\ \A u \in Threads \ {t} : ctx'[u] = ctx[u] /\ old'[u] = old[u]
    BY <1>2 DEF PoolInv, PoolTyped, PlaceInv
  <2>2. HeldBy(t) = {0} /\ HeldBy(t)' = {c}
    BY <1>1, <2>1 DEF HeldBy, Failed, Handing
  <2>3. Mine(t)' = Mine(t) \union {c}
    BY <1>3, <1>4, <2>2 DEF Mine
  <2> QED
    BY <1>2, <1>4, <2>1, <2>3, LiveMove
<1>7. acceptHandle'[c] = h /\ \A d \in Live : acceptHandle'[d] = acceptHandle[d]
  <2>1. Live \subseteq 1..Len(acceptHandle)
    BY LiveContexts
  <2> QED
    BY <1>2, <1>5, <2>1, AcquireSets DEF Contexts
<1> QED
  BY <1>2, <1>5, <1>6, <1>7, SocketsMore

LEMMA NoSocketSockets ==
  ASSUME IInv, SocketInv, NEW t \in Threads, NoSocket(t)
  PROVE  SocketsKept
<1> USE DEF IInv
<1>1. pc[t] = "socket" /\ ctx[t] = 0
  BY DEF NoSocket, At, PlaceInv, WithContext
<1>2. UNCHANGED <<posted, sock>> /\ Return(t)
  BY DEF NoSocket, kernelVars
<1>3. PICK to \in {"start", "release", "idle"} :
        /\ pc' = [pc EXCEPT ![t] = to] /\ HeldBy(t) = {ctx[t]} /\ HeldBy(t)' = {0}
        /\ \A u \in Threads \ {t} : ctx'[u] = ctx[u] /\ old'[u] = old[u]
  BY <1>1, <1>2, ReturnTo DEF Issuing
<1>4. Live' = Live
  <2>1. Mine(t)' = Mine(t)
    BY <1>1, <1>2, <1>3 DEF Mine
  <2> QED
    BY <1>3, <2>1, LiveMove
<1>5. \A c \in Live : acceptHandle'[c] = acceptHandle[c]
  <2>1. Live \subseteq 1..Len(acceptHandle)
    BY LiveContexts
  <2>2. acceptHandle' = acceptHandle \/ acceptHandle' = Append(acceptHandle, 0)
    BY DEF NoSocket, poolVars
  <2>3. \A c \in 1..Len(acceptHandle) : Append(acceptHandle, 0)[c] = acceptHandle[c]
    BY AppendProperties DEF PoolInv, PoolTyped
  <2> QED
    BY <2>1, <2>2, <2>3
<1> QED
  BY <1>2, <1>4, <1>5, SameSockets

LEMMA AcceptingSockets ==
  ASSUME IInv, SocketInv, NEW t \in Threads, Accepting(t)
  PROVE  SocketsKept
<1> USE DEF IInv
<1>1. pc[t] = "acceptEx"
  BY DEF Accepting, At
<1>2. UNCHANGED <<sock, acceptHandle>> /\ posted' = posted \union {ctx[t]} /\ Return(t)
  BY DEF Accepting, poolVars
<1>3. PICK to \in {"start", "release", "idle"} :
        /\ pc' = [pc EXCEPT ![t] = to] /\ HeldBy(t) = {ctx[t]} /\ HeldBy(t)' = {0}
        /\ \A u \in Threads \ {t} : ctx'[u] = ctx[u] /\ old'[u] = old[u]
  BY <1>1, <1>2, ReturnTo DEF Issuing
<1>4. Mine(t)' = Mine(t)
  BY <1>2, <1>3 DEF Mine
<1> QED
  BY <1>2, <1>3, <1>4, LiveMove, SameSockets

\* A thread closes the socket of the context in hand and returns.
LEMMA GivenUpSockets ==
  ASSUME IInv, SocketInv, NEW t \in Threads, pc[t] \in {"acceptEx", "onAccept"}, ctx[t] # 0,
         Return(t), sock' = [sock EXCEPT ![acceptHandle[ctx[t]]] = "free"],
         UNCHANGED <<posted, acceptHandle, listenHandle>>
  PROVE  SocketsKept
<1>1. PICK to \in {"start", "release", "idle"} :
        /\ pc' = [pc EXCEPT ![t] = to] /\ HeldBy(t) = {ctx[t]} /\ HeldBy(t)' = {0}
        /\ \A u \in Threads \ {t} : ctx'[u] = ctx[u] /\ old'[u] = old[u]
  BY ReturnTo DEF Issuing, IInv
<1>2. "free" \notin {"listen", "conn"} /\ "free" # "accept"
  OBVIOUS
<1>3. HeldBy(t) \union {0} = {ctx[t], 0} /\ HeldBy(t)' \subseteq {0}
  BY <1>1
<1> QED
  BY <1>1, <1>2, <1>3, DropContext

\* ... the dispatch of packets ...
LEMMA DispatchSockets ==
  ASSUME IInv, SocketInv, NEW t \in Threads, DispatchAccept(t) \/ DispatchError(t)
  PROVE  SocketsKept
<1> USE DEF IInv
<1>1. pc[t] = "idle" /\ ctx[t] = 0 /\ old[t] = 0
  BY DEF DispatchAccept, DispatchError, Dequeues, At, PlaceInv, WithContext, NoFailure
<1>2. UNCHANGED <<sock, acceptHandle>>
  BY DEF DispatchAccept, DispatchError, poolVars
<1>3. PICK c \in posted, to \in {"onAccept", "onReset", "onAborted"} :
        /\ posted' = posted \ {c} /\ pc' = [pc EXCEPT ![t] = to]
        /\ \/ ctx' = [ctx EXCEPT ![t] = c] /\ old' = old /\ to = "onAccept"
           \/ old' = [old EXCEPT ![t] = c] /\ ctx' = ctx /\ to # "onAccept"
  <2>1. CASE DispatchAccept(t)
    BY <2>1 DEF DispatchAccept, GoWith
  <2>2. CASE DispatchError(t)
    BY <2>2 DEF DispatchError
  <2> QED
    BY <2>1, <2>2
<1>4. \A u \in Threads \ {t} : ctx'[u] = ctx[u] /\ old'[u] = old[u]
  BY <1>3 DEF PoolInv, PoolTyped
<1>5. /\ pc'[t] = to
      /\ to = "onAccept" => ctx'[t] = c /\ old'[t] = 0
      /\ to # "onAccept" => ctx'[t] = 0 /\ old'[t] = c
  BY <1>1, <1>3 DEF PoolInv, PoolTyped, PlaceInv
<1>6. HeldBy(t) = {0} /\ HeldBy(t)' \union {0} = {c, 0}
  BY <1>1, <1>5 DEF HeldBy, Failed, Handing
<1>7. Mine(t)' = Mine(t)
  BY <1>3, <1>6 DEF Mine
<1> QED
  BY <1>2, <1>3, <1>4, <1>7, LiveMove, SameSockets

\* ... and the completion handlers.

\* A thread that goes to wait for the next client loses the socket in hand.
LEMMA HandedSockets ==
  ASSUME IInv, SocketInv, NEW t \in Threads, pc[t] \in {"onAccept", "onConn"}, ctx[t] # 0,
         GoWith(t, "accept", 0), NEW x, x # "accept",
         sock' = [sock EXCEPT ![acceptHandle[ctx[t]]] = x],
         UNCHANGED <<posted, acceptHandle, listenHandle>>
  PROVE  SocketInv' /\ (Open => Open') /\ (x \notin {"listen", "conn"} => SocketsKept)
<1> USE DEF IInv
<1>1. pc' = [pc EXCEPT ![t] = "accept"] /\ ctx' = [ctx EXCEPT ![t] = 0] /\ old' = old
  BY DEF GoWith
<1>2. /\ pc'[t] = "accept" /\ ctx'[t] = 0
      /\ \A u \in Threads \ {t} : ctx'[u] = ctx[u] /\ old'[u] = old[u]
  BY <1>1 DEF PoolInv, PoolTyped, PlaceInv
<1>3. HeldBy(t) = {ctx[t]} /\ HeldBy(t)' = {0}
  BY <1>2 DEF HeldBy, Failed, Handing
<1> QED
  BY <1>1, <1>2, <1>3, DropContext

\* A thread goes on without touching a context or a socket.
LEMMA WalkSockets ==
  ASSUME IInv, SocketInv, NEW t \in Threads, NEW to, pc' = [pc EXCEPT ![t] = to],
         pc[t] \notin Failed \union Handing, to \notin Failed \union Handing,
         ctx' = ctx, \A u \in Threads \ {t} : old'[u] = old[u],
         UNCHANGED <<posted, sock, acceptHandle>>
  PROVE  SocketsKept
<1> USE DEF IInv
<1>1. pc'[t] = to
  BY DEF PlaceInv
<1>2. Mine(t)' = Mine(t)
  BY <1>1 DEF Mine, HeldBy
<1>3. Live' = Live
  BY <1>2, LiveMove
<1> QED
  BY <1>3, SameSockets

LEMMA OnErrorSockets ==
  ASSUME IInv, SocketInv, NEW t \in Threads, OnError(t)
  PROVE  SocketsKept
<1> USE DEF IInv
<1>1. pc[t] \in {"onReset", "onAborted"} /\ old[t] # 0 /\ ctx[t] = 0
  BY DEF OnError, At, PlaceInv, WithContext, AfterFailure
<1>2. /\ UNCHANGED <<listenHandle, posted, acceptHandle, ctx, old>>
      /\ sock' = [sock EXCEPT ![acceptHandle[old[t]]] = "leaked"]
      /\ pc' = [pc EXCEPT ![t] = AfterError(t)]
  BY DEF OnError, Go, poolVars
<1>3. AfterError(t) \in {"accept", "onLast"} /\ pc'[t] = AfterError(t)
  BY <1>1, <1>2 DEF AfterError, PlaceInv
<1>4. HeldBy(t) \union {0} = {old[t], 0} /\ HeldBy(t)' = {0}
  <2>1. pc[t] \in Failed /\ pc'[t] \notin Failed \union Handing /\ pc[t] \notin Handing
    BY <1>1, <1>3 DEF Failed, Handing
  <2> QED
    BY <1>1, <1>2, <2>1 DEF HeldBy
<1>5. "leaked" \notin {"listen", "conn"} /\ "leaked" # "accept"
  OBVIOUS
<1>6. \A u \in Threads \ {t} : ctx'[u] = ctx[u] /\ old'[u] = old[u]
  BY <1>2
<1> HIDE DEF IInv
<1> QED
  BY <1>1, <1>2, <1>4, <1>5, <1>6, DropContext

LEMMA EndSockets ==
  ASSUME IInv, SocketInv, NEW t \in Threads, OnLast(t) \/ ResetChannel(t) \/ ReleaseFailed(t)
  PROVE  SocketsKept
<1>1. /\ pc[t] \in {"onLast", "resetChannel", "release"}
      /\ UNCHANGED <<posted, sock, acceptHandle, ctx>>
      /\ \E to \in {"resetChannel", "release", "idle"} : pc' = [pc EXCEPT ![t] = to]
      /\ \A u \in Threads \ {t} : old'[u] = old[u]
  <2>1. CASE OnLast(t)
    BY <2>1 DEF OnLast, Go, At, poolVars, kernelVars
  <2>2. CASE ResetChannel(t)
    BY <2>2 DEF ResetChannel, Go, At, poolVars, kernelVars
  <2>3. CASE ReleaseFailed(t)
    BY <2>3 DEF ReleaseFailed, Release, At, kernelVars, IInv, PoolInv, PoolTyped
  <2> QED
    BY <2>1, <2>2, <2>3
<1>2. {"onLast", "resetChannel", "release", "idle"} \intersect (Failed \union Handing) = {}
  BY DEF Handing, Failed
<1> QED
  BY <1>1, <1>2, WalkSockets

\* What the acceptor does by itself touches no socket but those of its own calls.
LEMMA AcceptStepSockets ==
  ASSUME IInv, SocketInv, NEW t \in Threads, AcceptStep(t)
  PROVE  SocketsKept
<1> USE DEF IInv
<1>1. CASE AcceptRefused(t) \/ AcceptedTooLate(t)
  <2>1. pc[t] \in {"acceptEx", "onAccept"} /\ ctx[t] # 0
    BY <1>1 DEF AcceptRefused, AcceptedTooLate, At, PlaceInv, WithContext
  <2> QED
    BY <1>1, <2>1, GivenUpSockets DEF AcceptRefused, AcceptedTooLate, CloseAccepted, Release
<1>2. CASE UpdateFails(t)
  <2>1. pc[t] = "onAccept" /\ ctx[t] # 0
    BY <1>2 DEF UpdateFails, At, PlaceInv, WithContext
  <2>2. "free" \notin {"listen", "conn"} /\ "free" # "accept"
    OBVIOUS
  <2>3. /\ GoWith(t, "accept", 0) /\ sock' = [sock EXCEPT ![acceptHandle[ctx[t]]] = "free"]
        /\ UNCHANGED <<posted, acceptHandle, listenHandle>>
    BY <1>2 DEF UpdateFails, CloseAccepted, Release
  <2> QED
    BY <2>1, <2>2, <2>3, HandedSockets
<1>3. CASE Accepted(t)
  <2>1. /\ pc[t] = "onAccept" /\ UNCHANGED <<posted, sock, acceptHandle, ctx, old>>
        /\ pc' = [pc EXCEPT ![t] = "onConn"]
    BY <1>3 DEF Accepted, At, Go, poolVars, kernelVars
  <2>2. {"onAccept", "onConn"} \intersect (Failed \union Handing) = {}
    BY DEF Failed, Handing
  <2> QED
    BY <2>1, <2>2, WalkSockets
<1>4. CASE NullChannel(t)
  <2>1. UNCHANGED <<posted, sock, acceptHandle, ctx, old, pc>>
    BY <1>4 DEF NullChannel, poolVars, threadVars, kernelVars
  <2>2. Live' = Live
    BY <2>1 DEF Live, HeldBy
  <2> QED
    BY <2>1, <2>2, SameSockets
<1> QED
  BY <1>1, <1>2, <1>3, <1>4, GoAcceptingSockets, NewSocketSockets, NoSocketSockets,
     AcceptingSockets, OnErrorSockets, EndSockets DEF AcceptStep

-----------------------------------------------------------------------------
\* The listening socket and the calls in each action of a thread.

\* A thread gives up a call in go_accepting_(), or has made one.
LEMMA ReturnCalls ==
  ASSUME CallsInv, NEW t \in Threads, Return(t), pc[t] \in Issuing \union {"onAccept"},
         UNCHANGED <<shut, listenHandle, channel>>, Open => Open',
         lost' \in Nat, IsFiniteSet(posted'),
         pc[App] \in Working /\ channel =>
           Cardinality(posted') + lost' = Cardinality(posted) + lost + 1
  PROVE  ListenInv' /\ SlotInv'
<1> USE DEF CallsInv, IInv
<1>1. PICK to \in {"start", "release", "idle"} :
        /\ pc' = [pc EXCEPT ![t] = to]
        /\ t = App => to = "start" /\ pc[t] \in Issuing
        /\ to \notin RefillingAt /\ pc[t] \in RefillingAt /\ pc[t] # "idle"
        /\ UNCHANGED toIssue
  BY ReturnTo
<1>2. ListenInv'
  BY <1>1, ListenMove DEF Working
<1>3. toIssue \in Nat /\ lost \in Nat /\ Cardinality(posted) \in Nat /\ Cardinality(posted') \in Nat
  BY FS_CardinalityType DEF SlotInv, ChannelInv
<1>4. SlotInv'
  <2>1. pc[App] \in Working /\ channel =>
          Cardinality(posted') + lost' + toIssue' + (IF to \in RefillingAt THEN 1 ELSE 0)
            = Cardinality(posted) + lost + toIssue + (IF pc[t] \in RefillingAt THEN 1 ELSE 0)
    BY <1>1, <1>3
  <2>2. IF t = App THEN /\ pc[t] \in Issuing \union {"start"} /\ to \in Working
                        /\ to = "serving" => toIssue' = 0
                   ELSE toIssue' = toIssue
    BY <1>1 DEF Working
  <2> QED
    BY <1>1, <1>3, <2>1, <2>2, SlotMove
<1> QED
  BY <1>2, <1>4

\* A thread goes on with a call: it still has to be replaced, and the kernel has no other.
LEMMA BusyCalls ==
  ASSUME CallsInv, NEW t \in Threads, NEW to, pc' = [pc EXCEPT ![t] = to],
         pc[t] # "idle",
         pc[t] \in RefillingAt <=> to \in RefillingAt,
         t = App => pc[t] \in Issuing /\ to \in Issuing,
         UNCHANGED <<shut, listenHandle, posted, lost, toIssue>>, channel' => channel,
         Open => Open'
  PROVE  ListenInv' /\ SlotInv'
<1> USE DEF CallsInv, IInv
<1>1. ListenInv'
  BY ListenMove DEF Working
<1>2. IF t = App THEN /\ pc[t] \in Issuing \union {"start"} /\ to \in Working
                      /\ to = "serving" => toIssue' = 0
                 ELSE toIssue' = toIssue
  BY DEF Working, Issuing
<1>3. toIssue \in Nat /\ lost \in Nat /\ IsFiniteSet(posted)
  BY DEF SlotInv, ChannelInv
<1>4. SlotInv'
  BY <1>2, <1>3, SlotMove
<1> QED
  BY <1>1, <1>4

\* A step of go_accepting_() or of a completion handler leaves the listening socket open.
LEMMA AcceptStepOpen ==
  ASSUME CallsInv, NEW t \in Threads, AcceptStep(t)
  PROVE  SocketInv' /\ (Open => Open') /\ UNCHANGED <<shut, listenHandle>>
<1>1. UNCHANGED <<shut, listenHandle>>
  BY DEF AcceptStep, GoAccepting, NewSocket, NoSocket, Accepting, AcceptRefused,
     AcceptedTooLate, UpdateFails, Accepted, OnError, OnLast, ResetChannel, ReleaseFailed,
     NullChannel, objectVars
<1> QED
  BY <1>1, AcceptStepSockets, OpenStays DEF CallsInv, IInv, SocketsKept

LEMMA GoAcceptingCalls ==
  ASSUME CallsInv, NEW t \in Threads, GoAccepting(t)
  PROVE  ListenInv' /\ SlotInv'
<1> USE DEF CallsInv, IInv
<1>1. pc[t] = "accept" /\ ctx[t] = 0
  BY DEF GoAccepting, At, PlaceInv, WithContext
<1>2. UNCHANGED <<objectVars, posted, sock, lost, toIssue>>
  BY DEF GoAccepting, kernelVars, historyVars, Go, Return, GoWith
<1>3. PICK to \in {"socket", "start", "release", "idle"} :
        /\ pc' = [pc EXCEPT ![t] = to]
        /\ t = App => to \in {"socket", "start"}
        /\ Listening => to = "socket"
  <2>1. CASE Listening
    BY <2>1 DEF GoAccepting, Go
  <2>2. CASE ~Listening
    BY <1>1, <2>2, ReturnTo DEF GoAccepting, Issuing
  <2> QED
    BY <2>1, <2>2
<1>4. Open' = Open /\ shut' = shut /\ listenHandle' = listenHandle /\ channel' = channel
  BY <1>2 DEF Open, objectVars
<1>5. ListenInv'
  BY <1>1, <1>3, <1>4, ListenMove DEF Issuing, Working
<1>6. pc[App] \in Working /\ channel => to \in RefillingAt
  BY <1>3, WorkingOpen DEF RefillingAt, Issuing
<1>7. SlotInv'
  <2>1. pc[t] \in RefillingAt /\ pc[t] # "idle"
    BY <1>1 DEF RefillingAt, Issuing
  <2>2. t = App => pc[t] \in Issuing \union {"start"} /\ to \in Working /\ to # "serving"
    BY <1>1, <1>3 DEF Issuing, Working
  <2>3. toIssue \in Nat /\ lost \in Nat /\ IsFiniteSet(posted)
    BY DEF SlotInv, ChannelInv
  <2> QED
    BY <1>2, <1>3, <1>4, <1>6, <2>1, <2>2, <2>3, SlotMove
<1> QED
  BY <1>5, <1>7

LEMMA NewSocketCalls ==
  ASSUME CallsInv, NEW t \in Threads, NewSocket(t)
  PROVE  ListenInv' /\ SlotInv'
<1>1. /\ pc[t] = "socket" /\ pc' = [pc EXCEPT ![t] = "acceptEx"]
      /\ UNCHANGED <<shut, listenHandle, channel, posted, lost, toIssue>>
  BY DEF NewSocket, At, GoWith, historyVars
<1>2. {"socket", "acceptEx"} \subseteq Issuing \intersect RefillingAt
  BY DEF Issuing, RefillingAt
<1>3. Open => Open'
  BY AcceptStepOpen DEF AcceptStep
<1> QED
  BY <1>1, <1>2, <1>3, BusyCalls

\* A call is not made, and nobody makes it any more.
LEMMA LostCalls ==
  ASSUME CallsInv, NEW t \in Threads, NoSocket(t) \/ AcceptRefused(t)
  PROVE  ListenInv' /\ SlotInv'
<1>1. /\ pc[t] \in {"socket", "acceptEx"} /\ lost' = lost + 1 /\ Return(t)
      /\ UNCHANGED <<shut, listenHandle, channel, posted>>
  BY DEF NoSocket, AcceptRefused, At, objectVars, kernelVars
<1>2. lost \in Nat /\ IsFiniteSet(posted)
  BY DEF CallsInv, IInv, SlotInv, ChannelInv
<1>3. Cardinality(posted) \in Nat
  BY <1>2, FS_CardinalityType
<1>4. Cardinality(posted') + lost' = Cardinality(posted) + lost + 1 /\ lost' \in Nat
  BY <1>1, <1>2, <1>3
<1>5. Open => Open'
  BY AcceptStepOpen DEF AcceptStep
<1> QED
  BY <1>1, <1>2, <1>4, <1>5, ReturnCalls DEF Issuing

LEMMA AcceptingCalls ==
  ASSUME CallsInv, NEW t \in Threads, Accepting(t)
  PROVE  ListenInv' /\ SlotInv'
<1> USE DEF CallsInv, IInv
<1>1. /\ pc[t] = "acceptEx" /\ posted' = posted \union {ctx[t]} /\ Return(t)
      /\ UNCHANGED <<shut, listenHandle, channel, lost>>
  BY DEF Accepting, At, objectVars, historyVars
<1>2. Open => Open'
  BY AcceptStepOpen DEF AcceptStep
<1>3. lost \in Nat /\ IsFiniteSet(posted) /\ ctx[t] \notin posted
  BY DEF SlotInv, ChannelInv, PoolInv, PoolApart
<1>4. IsFiniteSet(posted') /\ Cardinality(posted') = Cardinality(posted) + 1
  BY <1>1, <1>3, FS_AddElement
<1>5. Cardinality(posted) \in Nat
  BY <1>3, FS_CardinalityType
<1>6. Cardinality(posted') + lost' = Cardinality(posted) + lost + 1 /\ lost' \in Nat
  BY <1>1, <1>3, <1>4, <1>5
<1> QED
  BY <1>1, <1>2, <1>4, <1>6, ReturnCalls DEF Issuing

LEMMA DispatchCalls ==
  ASSUME CallsInv, NEW t \in Threads, DispatchAccept(t) \/ DispatchError(t)
  PROVE  CallsKept
<1> USE DEF CallsInv, IInv
<1>1. pc[t] = "idle" /\ t # App
  BY AcceptorAssumption DEF DispatchAccept, DispatchError, Dequeues, At
<1>2. UNCHANGED <<shut, listenHandle, channel, sock, lost, toIssue>>
  BY DEF DispatchAccept, DispatchError, objectVars, GoWith
<1>3. PICK c \in posted, to \in {"onAccept", "onReset", "onAborted"} :
        /\ posted' = posted \ {c} /\ pc' = [pc EXCEPT ![t] = to]
        /\ to = "onAborted" => ~Open
  <2>1. CASE DispatchAccept(t)
    BY <2>1 DEF DispatchAccept, GoWith
  <2>2. CASE DispatchError(t)
    BY <2>2 DEF DispatchError
  <2> QED
    BY <2>1, <2>2
<1>4. SocketInv'
  BY DispatchSockets DEF SocketsKept
<1>5. Open' = Open
  BY <1>2 DEF Open
<1>6. ListenInv'
  BY <1>1, <1>2, <1>3, <1>5, ListenMove
<1>7. SlotInv'
  <2>1. toIssue \in Nat /\ lost \in Nat /\ IsFiniteSet(posted)
    BY DEF SlotInv, ChannelInv
  <2>2. IsFiniteSet(posted') /\ Cardinality(posted') = Cardinality(posted) - 1
    BY <1>3, <2>1, FS_RemoveElement
  <2>3. Cardinality(posted) \in Nat
    BY <2>1, FS_CardinalityType
  <2>4. pc[App] \in Working /\ channel => to \in RefillingAt
    BY <1>3, WorkingOpen DEF RefillingAt
  <2>5. pc[t] \notin RefillingAt
    BY <1>1 DEF RefillingAt, Issuing
  <2>6. pc[App] \in Working /\ channel =>
          Cardinality(posted') + lost' + toIssue' + (IF to \in RefillingAt THEN 1 ELSE 0)
            = Cardinality(posted) + lost + toIssue + (IF pc[t] \in RefillingAt THEN 1 ELSE 0)
    BY <1>2, <2>1, <2>2, <2>3, <2>4, <2>5
  <2> QED
    BY <1>1, <1>2, <1>3, <2>1, <2>2, <2>6, SlotMove
<1> QED
  BY <1>4, <1>6, <1>7 DEF CallsKept

\* A client that comes while the acceptor is shut down is not replaced.
LEMMA AcceptedTooLateCalls ==
  ASSUME CallsInv, NEW t \in Threads, AcceptedTooLate(t)
  PROVE  ListenInv' /\ SlotInv'
<1>1. /\ pc[t] = "onAccept" /\ shut /\ Return(t)
      /\ UNCHANGED <<shut, listenHandle, channel, posted, lost>>
  BY DEF AcceptedTooLate, At, historyVars
<1>2. Open => Open'
  BY AcceptStepOpen DEF AcceptStep
<1>3. ~(pc[App] \in Working /\ channel)
  BY <1>1, WorkingOpen DEF CallsInv
<1>4. lost \in Nat /\ IsFiniteSet(posted)
  BY DEF CallsInv, IInv, SlotInv, ChannelInv
<1> QED
  BY <1>1, <1>2, <1>3, <1>4, ReturnCalls

\* The client is refused or accepted, or the call has failed: a thread is to replace it.
LEMMA HandlerCalls ==
  ASSUME CallsInv, NEW t \in Threads, UpdateFails(t) \/ Accepted(t) \/ OnError(t)
  PROVE  ListenInv' /\ SlotInv'
<1>1. pc[t] \in {"onAccept", "onReset", "onAborted"} /\ t # App
  BY DEF UpdateFails, Accepted, OnError, At, CallsInv, IInv, PlaceInv, AppLabels
<1>2. UNCHANGED <<shut, listenHandle, channel, posted, lost, toIssue>>
  BY DEF UpdateFails, Accepted, OnError, GoWith, Go, kernelVars, historyVars
<1>3. \E to \in {"accept", "onConn", "onLast"} :
        pc' = [pc EXCEPT ![t] = to] /\ (to = "onLast" <=> pc[t] = "onAborted")
  BY DEF UpdateFails, Accepted, OnError, At, GoWith, Go, AfterError
<1>4. /\ {"onAccept", "onReset", "accept", "onConn"} \subseteq RefillingAt
      /\ "onLast" \notin RefillingAt /\ "onAborted" \notin RefillingAt
  BY DEF RefillingAt, Issuing
<1>5. Open => Open'
  BY AcceptStepOpen DEF AcceptStep
<1> QED
  BY <1>1, <1>2, <1>3, <1>4, <1>5, BusyCalls

LEMMA TakeOverCalls ==
  ASSUME CallsInv, NEW t \in Threads, TakeOver(t)
  PROVE  CallsKept
<1> USE DEF CallsInv, IInv
<1>1. pc[t] = "onConn" /\ ctx[t] # 0 /\ t # App
  BY DEF TakeOver, At, PlaceInv, WithContext, AppLabels
<1>2. /\ UNCHANGED <<shut, listenHandle, channel, posted, acceptHandle, lost, toIssue>>
      /\ sock' = [sock EXCEPT ![acceptHandle[ctx[t]]] = "conn"] /\ GoWith(t, "accept", 0)
  BY DEF TakeOver, Handed, Release, GoWith, objectVars, historyVars
<1>3. SocketInv' /\ (Open => Open')
  BY <1>1, <1>2, HandedSockets
<1>4. pc' = [pc EXCEPT ![t] = "accept"] /\ {"onConn", "accept"} \subseteq RefillingAt
  BY <1>2 DEF GoWith, RefillingAt, Issuing
<1>5. ListenInv' /\ SlotInv'
  BY <1>1, <1>2, <1>3, <1>4, BusyCalls
<1> QED
  BY <1>3, <1>5 DEF CallsKept

LEMMA EndCalls ==
  ASSUME CallsInv, NEW t \in Threads, OnLast(t) \/ ResetChannel(t) \/ ReleaseFailed(t)
  PROVE  ListenInv' /\ SlotInv'
<1>1. pc[t] \in {"onLast", "resetChannel", "release"} /\ t # App
  BY DEF OnLast, ResetChannel, ReleaseFailed, At, CallsInv, IInv, PlaceInv, AppLabels
<1>2. /\ UNCHANGED <<shut, listenHandle, posted, lost, toIssue>> /\ (channel' => channel)
      /\ \E to \in {"resetChannel", "release", "idle"} : pc' = [pc EXCEPT ![t] = to]
  BY DEF OnLast, ResetChannel, ReleaseFailed, Go, objectVars, kernelVars, historyVars
<1>3. {"onLast", "resetChannel", "release", "idle"} \intersect RefillingAt = {}
  BY DEF RefillingAt, Issuing
<1>4. Open => Open'
  BY AcceptStepOpen DEF AcceptStep
<1> QED
  BY <1>1, <1>2, <1>3, <1>4, BusyCalls

\* Nothing changes that the invariant is about.
LEMMA CallsStutter ==
  ASSUME CallsInv, UNCHANGED <<objectVars, acceptHandle, threadVars, posted, sock, lost>>
  PROVE  CallsKept
<1> USE DEF CallsInv, objectVars, threadVars
<1>1. Live' = Live /\ Open' = Open /\ Refillers' = Refillers
  BY DEF Live, HeldBy, Open, Refillers
<1>2. SocketInv'
  BY <1>1, SocketsSame
<1>3. ListenInv'
  BY <1>1 DEF ListenInv
<1>4. SlotInv'
  BY <1>1 DEF SlotInv
<1> QED
  BY <1>2, <1>3, <1>4 DEF CallsKept

LEMMA AcceptStepCalls ==
  ASSUME CallsInv, NEW t \in Threads, AcceptStep(t)
  PROVE  CallsKept
<1>1. CASE NullChannel(t)
  BY <1>1, CallsStutter DEF NullChannel, kernelVars, poolVars
<1> QED
  BY <1>1, AcceptStepOpen, GoAcceptingCalls, NewSocketCalls, LostCalls, AcceptingCalls,
     AcceptedTooLateCalls, HandlerCalls, EndCalls DEF AcceptStep, CallsKept

-----------------------------------------------------------------------------
\* The thread App: start() and shutdown().

\* As long as no thread of the pool does anything there is no context with a socket.
LEMMA NothingLive ==
  ASSUME PoolInv, PlaceInv, posted = {}, \A t \in Pollers : pc[t] = "idle",
         pc[App] \notin WithContext \union {"ending"}
  PROVE  Live = {}
<1>1. \A t \in Threads : ctx[t] = 0 /\ pc[t] \notin Failed
  <2>1. \A t \in Pollers : ctx[t] = 0 /\ pc[t] \notin Failed
    BY DEF PlaceInv, Threads, WithContext, Failed
  <2>2. ctx[App] = 0 /\ pc[App] \notin Failed
    BY ThreadsFinite DEF PlaceInv, Failed, AppLabels
  <2> QED
    BY <2>1, <2>2 DEF Threads
<1> QED
  BY <1>1 DEF Live, HeldBy

\* App goes on.
LEMMA AppLive ==
  ASSUME PoolInv, PlaceInv, NEW to, pc' = [pc EXCEPT ![App] = to],
         pc[App] \notin Failed \union Handing, to \notin Failed \union Handing, UNCHANGED <<ctx, old, posted>>
  PROVE  Live' = Live /\ pc'[App] = to /\ \A t \in Pollers : pc'[t] = pc[t]
<1>1. App \in Threads /\ App \notin Pollers /\ Pollers \subseteq Threads
  BY ThreadsFinite, AcceptorAssumption
<1>2. pc'[App] = to /\ \A t \in Pollers : pc'[t] = pc[t]
  BY <1>1 DEF PlaceInv
<1>3. Mine(App)' = Mine(App)
  BY <1>2 DEF Mine, HeldBy
<1> QED
  BY <1>1, <1>2, <1>3, LiveMove

LEMMA StartCalls ==
  ASSUME CallsInv, Start
  PROVE  CallsKept
<1> USE DEF CallsInv, IInv
<1>1. PICK h \in Handles :
        sock[h] = "free" /\ sock' = [sock EXCEPT ![h] = "listen"] /\ listenHandle' = h
  BY DEF Start, Unused
<1>2. /\ pc[App] = "idle" /\ pc' = [pc EXCEPT ![App] = "start"] /\ toIssue' = AcceptN
      /\ UNCHANGED <<shut, acceptHandle, ctx, old, posted, lost>>
  BY DEF Start, At, poolVars, historyVars
<1>3. Live' = Live /\ pc'[App] = "start" /\ \A t \in Pollers : pc'[t] = pc[t]
  <2>1. pc[App] \notin Failed \union Handing /\ "start" \notin Failed \union Handing
    BY <1>2 DEF Failed, Handing
  <2>2. UNCHANGED <<ctx, old, posted>>
    BY <1>2
  <2> HIDE DEF CallsInv, IInv
  <2>3. PoolInv /\ PlaceInv
    BY DEF CallsInv, IInv
  <2> QED
    BY <1>2, <2>1, <2>2, <2>3, AppLive
<1>4. SocketInv'
  <2>1. \A g \in Handles : sock'[g] = "accept" <=> sock[g] = "accept"
    BY <1>1 DEF ChannelInv
  <2> QED
    BY <1>2, <1>3, <2>1, SocketsSame
<1>5. Open' /\ ~shut'
  BY <1>1, <1>2, AcceptorAssumption DEF Open, ChannelInv, ListenInv
<1>6. ListenInv'
  BY <1>3, <1>5 DEF ListenInv
<1>7. posted' = {} /\ Refillers' = {} /\ lost = 0
  <2>1. \A t \in Threads : pc'[t] \notin RefillingAt
    BY <1>2, <1>3 DEF Threads, RefillingAt, Issuing, ChannelInv
  <2>2. Refillers' = {}
    BY <2>1 DEF Refillers
  <2> QED
    BY <1>2, <2>2 DEF ChannelInv, SlotInv
<1>8. SlotInv'
  <2>1. Cardinality(posted') = 0 /\ Cardinality(Refillers') = 0 /\ AcceptN \in Nat
    BY <1>7, FS_EmptySet, AcceptorAssumption
  <2>2. lost' = 0
    BY <1>2, <1>7
  <2> QED
    BY <1>2, <1>3, <2>1, <2>2 DEF SlotInv
<1> QED
  BY <1>4, <1>6, <1>8 DEF CallsKept

LEMMA StartFailsCalls ==
  ASSUME CallsInv, StartFails
  PROVE  CallsKept
<1> USE DEF CallsInv, IInv
<1>1. /\ pc[App] = "idle" /\ pc' = [pc EXCEPT ![App] = "serving"]
      /\ UNCHANGED <<shut, channel, acceptHandle, ctx, old, posted, sock, lost, toIssue>>
  BY DEF StartFails, At, Go, poolVars, kernelVars
<1>2. Live' = Live /\ pc'[App] = "serving" /\ \A t \in Pollers : pc'[t] = pc[t]
  <2>1. pc[App] \notin Failed \union Handing /\ "serving" \notin Failed \union Handing
    BY <1>1 DEF Failed, Handing
  <2>2. UNCHANGED <<ctx, old, posted>>
    BY <1>1
  <2> HIDE DEF CallsInv, IInv
  <2>3. PoolInv /\ PlaceInv
    BY DEF CallsInv, IInv
  <2> QED
    BY <1>1, <2>1, <2>2, <2>3, AppLive
<1>3. SocketInv'
  BY <1>1, <1>2, SocketsSame
<1>4. posted' = {} /\ ~channel' /\ (\A t \in Pollers : pc'[t] = "idle") /\ ~shut'
  BY <1>1, <1>2 DEF ChannelInv, ListenInv
<1>5. ListenInv'
  BY <1>2, <1>4 DEF ListenInv, Issuing
<1>6. SlotInv'
  BY <1>1, <1>2, <1>4 DEF SlotInv
<1> QED
  BY <1>3, <1>5, <1>6 DEF CallsKept

LEMMA StartLoopCalls ==
  ASSUME CallsInv, StartLoop
  PROVE  CallsKept
<1> USE DEF CallsInv, IInv
<1>1. PICK to \in {"accept", "serving"} :
        /\ pc[App] = "start" /\ pc' = [pc EXCEPT ![App] = to]
        /\ IF to = "accept" THEN toIssue > 0 /\ toIssue' = toIssue - 1
                            ELSE ~(toIssue > 0) /\ toIssue' = 0
  BY DEF StartLoop, At
<1>2. UNCHANGED <<shut, listenHandle, channel, acceptHandle, ctx, old, posted, sock, lost>>
  BY DEF StartLoop, objectVars, poolVars, kernelVars, historyVars
<1>3. Live' = Live
  BY <1>1, <1>2, AppLive DEF Failed, Handing
<1>4. SocketInv'
  BY <1>2, <1>3, SocketsSame
<1>5. App \in Threads /\ Open' = Open
  BY <1>2, ThreadsFinite DEF Open
<1>6. to \in Working /\ pc[App] \in Issuing \union {"start"} /\ pc[App] # "idle"
  BY <1>1 DEF Working, Issuing
<1>7. ListenInv'
  BY <1>1, <1>2, <1>5, <1>6, ListenMove
<1>8. SlotInv'
  <2>1. toIssue \in Nat /\ lost \in Nat /\ IsFiniteSet(posted)
    BY DEF SlotInv, ChannelInv
  <2>2. Cardinality(posted) \in Nat
    BY <2>1, FS_CardinalityType
  <2>3. toIssue' \in Nat /\ (to = "serving" => toIssue' = 0)
    BY <1>1, <2>1
  <2>4. pc[App] \notin RefillingAt /\ (to \in RefillingAt <=> to = "accept")
    BY <1>1 DEF RefillingAt, Issuing
  <2>5. Cardinality(posted') + lost' + toIssue' + (IF to \in RefillingAt THEN 1 ELSE 0)
          = Cardinality(posted) + lost + toIssue + (IF pc[App] \in RefillingAt THEN 1 ELSE 0)
    BY <1>1, <1>2, <2>1, <2>2, <2>4
  <2> QED
    BY <1>1, <1>2, <1>5, <1>6, <2>1, <2>3, <2>5, SlotMove
<1> QED
  BY <1>4, <1>7, <1>8 DEF CallsKept

LEMMA ShutdownCalls ==
  ASSUME CallsInv, Shutdown("down") \/ CloseListen("down")
  PROVE  CallsKept
<1> USE DEF CallsInv, IInv
<1>1. PICK to \in {"closeListen", "down"} :
        /\ pc' = [pc EXCEPT ![App] = to] /\ pc[App] \in {"serving", "closeListen"}
        /\ to = "closeListen" => pc[App] = "serving" /\ UNCHANGED <<listenHandle, sock>>
        /\ sock' = sock \/ sock' = [sock EXCEPT ![listenHandle] = "free"]
  BY DEF Shutdown, CloseListen, Go, At, kernelVars
<1>2. UNCHANGED <<channel, acceptHandle, ctx, old, posted, lost, toIssue>>
  BY DEF Shutdown, CloseListen, Go, poolVars, kernelVars, historyVars
<1>3. Live' = Live /\ pc'[App] = to /\ \A t \in Pollers : pc'[t] = pc[t]
  BY <1>1, <1>2, AppLive DEF Failed, Handing
<1>4. SocketInv'
  <2>1. \A g \in Handles : sock'[g] = "accept" => sock[g] = "accept"
    BY <1>1 DEF ChannelInv
  <2>2. CASE Open
    <3>1. \A g \in Handles : sock'[g] = "accept" <=> sock[g] = "accept"
      BY <1>1, <2>2 DEF ChannelInv, Open
    <3> QED
      BY <1>2, <1>3, <3>1, SocketsSame
  <2>3. CASE ~Open
    <3>1. posted = {} /\ \A t \in Pollers : pc[t] = "idle"
      BY <1>1, <2>3 DEF ListenInv
    <3>2. Live = {}
      BY <1>1, <3>1, NothingLive DEF WithContext
    <3> QED
      BY <1>3, <2>1, <3>2 DEF SocketInv
  <2> QED
    BY <2>2, <2>3
<1>5. ListenInv'
  BY <1>1, <1>2, <1>3 DEF ListenInv, Working, Issuing, Open
<1>6. SlotInv'
  BY <1>2, <1>3 DEF SlotInv, Working, Issuing
<1> QED
  BY <1>4, <1>5, <1>6 DEF CallsKept

LEMMA InitCalls == AcceptorInit => CallsInv
<1> SUFFICES ASSUME AcceptorInit PROVE CallsInv
  OBVIOUS
<1>1. IInv
  BY InitInv
<1>2. pc[App] = "idle" /\ \A t \in Pollers : pc[t] = "idle"
  BY ThreadsFinite DEF AcceptorInit
<1>3. SocketInv
  <2>1. Live = {}
    BY <1>1, <1>2, NothingLive DEF IInv, WithContext, AcceptorInit
  <2> QED
    BY <2>1 DEF SocketInv, AcceptorInit
<1>4. ListenInv
  BY <1>2 DEF ListenInv, Issuing, AcceptorInit
<1>5. SlotInv
  BY <1>2 DEF SlotInv, Working, Issuing, AcceptorInit
<1> QED
  BY <1>1, <1>3, <1>4, <1>5 DEF CallsInv

LEMMA CallsNext ==
  ASSUME CallsInv, [AcceptorNext]_acceptorVars
  PROVE  CallsInv'
<1>1. IInv'
  BY NextInv DEF CallsInv
<1>2. ASSUME NEW t \in Threads, AcceptStep(t) PROVE CallsKept
  BY <1>2, AcceptStepCalls
<1>3. ASSUME NEW t \in Threads, DispatchAccept(t) \/ DispatchError(t) \/ TakeOver(t)
      PROVE  CallsKept
  BY <1>3, DispatchCalls, TakeOverCalls
<1>4. Start \/ StartFails \/ StartLoop => CallsKept
  BY StartCalls, StartFailsCalls, StartLoopCalls
<1>5. Shutdown("down") \/ CloseListen("down") => CallsKept
  BY ShutdownCalls
<1>6. Connect => CallsKept
  BY CallsStutter DEF Connect, poolVars, historyVars
<1>7. SockEx => CallsKept
  BY CallsStutter DEF SockEx, kernelVars, poolVars, historyVars
<1>8. UNCHANGED acceptorVars => CallsKept
  BY CallsStutter DEF acceptorVars, kernelVars, poolVars, historyVars
<1>9. CallsKept
  BY <1>2, <1>3, <1>4, <1>5, <1>6, <1>7, <1>8 DEF AcceptorNext
<1> QED
  BY <1>1, <1>9 DEF CallsInv, CallsKept

\* Contexts and sockets stay together, the acceptor listens until it is shut down, and the
\* calls that start() asked for are all accounted for.
THEOREM CallsInvariance == AcceptorSpec => []CallsInv
BY InitCalls, CallsNext, PTL DEF AcceptorSpec

\* A socket made for a client that has not come belongs to a context that the kernel or a
\* thread has.
THEOREM SocketsAwaited == AcceptorSpec => []OnlyFailedAcceptsLeak
<1>1. CallsInv => OnlyFailedAcceptsLeak
  <2> SUFFICES ASSUME CallsInv, NEW h \in Handles, sock[h] = "accept"
               PROVE  \E c \in posted \union InHand : acceptHandle[c] = h
    BY DEF OnlyFailedAcceptsLeak
  <2>1. PICK c \in Live : acceptHandle[c] = h
    BY DEF CallsInv, SocketInv
  <2>2. c \in posted \union InHand
    BY DEF Live, HeldBy, InHand
  <2> QED
    BY <2>1, <2>2
<1> QED
  BY <1>1, CallsInvariance, PTL

\* While the acceptor listens, each call that start() asked for is outstanding, about to be
\* replaced, or lost to a failure.
THEOREM CallsKeptUp == AcceptorSpec => []SlotsKept
<1>1. CallsInv => SlotsKept
  <2> SUFFICES ASSUME CallsInv, channel, pc[App] = "serving"
               PROVE  Cardinality(posted) + Cardinality(Refilling) + lost = AcceptN
    BY DEF SlotsKept
  <2>1. Refillers = Refilling
    BY DEF Refillers, Refilling, RefillingAt, Issuing, Threads
  <2>2. Cardinality(posted) \in Nat /\ Cardinality(Refillers) \in Nat
    BY ThreadsFinite, FS_Subset, FS_CardinalityType DEF Refillers, CallsInv, IInv, ChannelInv
  <2>3. Cardinality(posted) + Cardinality(Refillers) + lost + toIssue = AcceptN
        /\ toIssue = 0 /\ lost \in Nat
    BY DEF CallsInv, SlotInv, Working
  <2> QED
    BY <2>1, <2>2, <2>3
<1> QED
  BY <1>1, CallsInvariance, PTL
-----------------------------------------------------------------------------
\* Types: what the invariants above leave open are the counters.
CountsInv ==
  /\ shut \in BOOLEAN /\ fault \in {"none", "nullChannel"}
  /\ toIssue \in 0..AcceptN /\ lost \in Nat
  /\ clients \in 0..MaxClients /\ served \in 0..clients /\ failures \in 0..MaxFailures

LEMMA FailsCounts ==
  ASSUME CountsInv, Fails \/ UNCHANGED failures
  PROVE  failures' \in 0..MaxFailures
BY AcceptorAssumption DEF CountsInv, Fails

LEMMA AcceptStepCounts ==
  ASSUME CountsInv, NEW t \in Threads, AcceptStep(t) \/ DispatchAccept(t) \/ DispatchError(t)
  PROVE  CountsInv'
<1>1. UNCHANGED shut /\ UNCHANGED clients /\ UNCHANGED toIssue
  BY DEF AcceptStep, GoAccepting, NewSocket, NoSocket, Accepting, AcceptRefused,
     AcceptedTooLate, UpdateFails, Accepted, OnError, OnLast, ResetChannel, ReleaseFailed,
     NullChannel, DispatchAccept, DispatchError, Return, GoWith, Go, objectVars, kernelVars,
     threadVars
<1>2. Fails \/ UNCHANGED failures
  BY DEF AcceptStep, GoAccepting, NewSocket, NoSocket, Accepting, AcceptRefused,
     AcceptedTooLate, UpdateFails, Accepted, OnError, OnLast, ResetChannel, ReleaseFailed,
     NullChannel, DispatchAccept, DispatchError, historyVars
<1>3. lost' \in {lost, lost + 1} /\ fault' \in {fault, "nullChannel"}
  BY DEF AcceptStep, GoAccepting, NewSocket, NoSocket, Accepting, AcceptRefused,
     AcceptedTooLate, UpdateFails, Accepted, OnError, OnLast, ResetChannel, ReleaseFailed,
     NullChannel, DispatchAccept, DispatchError, historyVars
<1>4. served' = served \/ (served < clients /\ served' = served + 1)
  BY DEF AcceptStep, GoAccepting, NewSocket, NoSocket, Accepting, AcceptRefused,
     AcceptedTooLate, UpdateFails, Accepted, OnError, OnLast, ResetChannel, ReleaseFailed,
     NullChannel, DispatchAccept, DispatchError, historyVars
<1>5. failures' \in 0..MaxFailures
  BY <1>2, FailsCounts
<1>6. clients' \in 0..MaxClients /\ served' \in 0..clients' /\ lost' \in Nat
  BY <1>1, <1>3, <1>4, AcceptorAssumption DEF CountsInv
<1>7. shut' \in BOOLEAN /\ fault' \in {"none", "nullChannel"} /\ toIssue' \in 0..AcceptN
  BY <1>1, <1>3 DEF CountsInv
<1> QED
  BY <1>5, <1>6, <1>7 DEF CountsInv

\* The thread App, and what happens outside.
LEMMA OutsideCounts ==
  ASSUME CountsInv, NEW next,
         \/ Start \/ StartFails \/ StartLoop \/ Shutdown(next) \/ CloseListen(next)
         \/ Connect \/ SockEx \/ UNCHANGED acceptorVars
  PROVE  CountsInv'
<1> USE DEF objectVars, poolVars, threadVars, kernelVars, historyVars, acceptorVars
<1>1. shut' \in {shut, TRUE} /\ UNCHANGED <<served, lost, fault>>
  BY DEF Start, StartFails, StartLoop, Shutdown, CloseListen, Connect, SockEx
<1>2. toIssue' \in {toIssue, AcceptN, 0} \/ (toIssue > 0 /\ toIssue' = toIssue - 1)
  BY DEF Start, StartFails, StartLoop, Shutdown, CloseListen, Connect, SockEx, Go
<1>3. clients' = clients \/ (clients < MaxClients /\ clients' = clients + 1)
  BY DEF Start, StartFails, StartLoop, Shutdown, CloseListen, Connect, SockEx
<1>4. failures' = failures \/ (failures < MaxFailures /\ failures' = failures + 1)
  BY DEF Start, StartFails, StartLoop, Shutdown, CloseListen, Connect, SockEx
<1>5. clients' \in 0..MaxClients /\ served' \in 0..clients' /\ failures' \in 0..MaxFailures
  BY <1>1, <1>3, <1>4, AcceptorAssumption DEF CountsInv
<1>6. toIssue' \in 0..AcceptN
  BY <1>2, AcceptorAssumption DEF CountsInv
<1>7. shut' \in BOOLEAN /\ lost' \in Nat /\ fault' \in {"none", "nullChannel"}
  BY <1>1 DEF CountsInv
<1> QED
  BY <1>5, <1>6, <1>7 DEF CountsInv

LEMMA InitCounts == AcceptorInit => CountsInv
<1>1. AcceptN \in Nat /\ MaxClients \in Nat /\ MaxFailures \in Nat
  BY AcceptorAssumption
<1> SUFFICES ASSUME AcceptorInit PROVE CountsInv
  OBVIOUS
<1>2. /\ toIssue = 0 /\ lost = 0 /\ clients = 0 /\ served = 0 /\ failures = 0
      /\ shut = FALSE /\ fault = "none"
  BY DEF AcceptorInit
<1>3. toIssue \in 0..AcceptN /\ lost \in Nat
  BY <1>1, <1>2
<1>4. clients \in 0..MaxClients /\ failures \in 0..MaxFailures
  BY <1>1, <1>2
<1>5. served \in 0..clients
  BY <1>2
<1>6. shut \in BOOLEAN /\ fault \in {"none", "nullChannel"}
  BY <1>2
<1> QED
  BY <1>3, <1>4, <1>5, <1>6 DEF CountsInv

LEMMA TypeFollows ==
  ASSUME IInv, CountsInv
  PROVE  AcceptorTypeOK
<1>1. free \in Seq(Contexts)
  <2>1. free \in [1..Len(free) -> Contexts] /\ Len(free) \in Nat
    BY DEF IInv, PoolInv, PoolTyped, Listed
  <2> QED
    BY <2>1, SeqDef
<1>2. pc \in [Threads -> Labels]
  BY DEF IInv, PlaceInv
<1>3. /\ acceptHandle \in Seq(Handles \union {0}) /\ posted \subseteq Contexts
      /\ {ctx, old} \subseteq [Threads -> Contexts \union {0}]
  BY DEF IInv, PoolInv, PoolTyped
<1>4. /\ {shut, channel} \subseteq BOOLEAN
      /\ listenHandle \in Handles \union {0} /\ ioCount \in Nat
      /\ sock \in [Handles -> {"free", "listen", "accept", "leaked", "conn"}]
  BY DEF IInv, ChannelInv, CountsInv, Kinds
<1> QED
  BY <1>1, <1>2, <1>3, <1>4 DEF AcceptorTypeOK, CountsInv

\* Every variable of the acceptor keeps its type.
THEOREM TypeCorrect == AcceptorSpec => []AcceptorTypeOK
<1>1. CountsInv /\ [AcceptorNext]_acceptorVars => CountsInv'
  <2> SUFFICES ASSUME CountsInv, [AcceptorNext]_acceptorVars PROVE CountsInv'
    OBVIOUS
  <2>1. ASSUME NEW t \in Threads, TakeOver(t) PROVE CountsInv'
    BY <2>1 DEF TakeOver, Handed, GoWith, CountsInv, objectVars, historyVars
  <2> QED
    BY <2>1, AcceptStepCounts, OutsideCounts DEF AcceptorNext
<1>2. IInv /\ CountsInv => AcceptorTypeOK
  BY TypeFollows
<1> QED
  BY <1>1, <1>2, InitCounts, Invariance, PTL DEF AcceptorSpec
=============================================================================
