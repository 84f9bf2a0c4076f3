---------------------------- MODULE SockExFunc ----------------------------
(***************************************************************************)
(* SockExFunc: Winsock and its extension functions (AcceptEx, ConnectEx,   *)
(* GetAcceptExSockaddrs), loaded behind a reference count.  init() and     *)
(* cleanup() are critical sections of g_mutex; the accessors read the      *)
(* function pointers without it.                                           *)
(***************************************************************************)
EXTENDS Naturals, FiniteSets

CONSTANTS
  Users  \* parts of the process that call init(), and cleanup() when they are done

VARIABLES
  initCount,  \* g_init_count
  loaded,     \* g_acceptex, g_connectex and g_getsockaddrs are not null
  winsock,    \* number of WSAStartup calls that no WSACleanup has undone
  using       \* the users whose init() returned true and who have not cleaned up

sockExVars == <<initCount, loaded, winsock, using>>

SockExInit == initCount = 0 /\ loaded = FALSE /\ winsock = 0 /\ using = {}

\* Broken variant: a failure leaves the count at one.
LoadFailsCounted(u) ==
  /\ u \notin using /\ initCount = 0
  /\ initCount' = 1
  /\ UNCHANGED <<loaded, winsock, using>>

\* init(): WSAStartup, the probe socket or one of the three pointers fails, and
\* everything is taken back.
LoadFails(u) ==
  /\ u \notin using /\ initCount = 0
  /\ initCount' = 0 /\ loaded' = FALSE
  /\ UNCHANGED <<winsock, using>>

\* The three load functions, on a probe socket of either family.
Load == loaded' = TRUE /\ winsock' = winsock + 1

\* init(): only the first one loads.
SockInit(u) ==
  /\ u \notin using
  /\ initCount' = initCount + 1
  /\ IF initCount > 0 THEN UNCHANGED <<loaded, winsock>> ELSE Load
  /\ using' = using \union {u}

\* cleanup(): only the last one unloads.
SockCleanup(u) ==
  /\ u \in using
  /\ initCount' = IF initCount = 0 THEN 0 ELSE initCount - 1
  /\ IF initCount = 1
       THEN loaded' = FALSE /\ winsock' = winsock - 1
       ELSE UNCHANGED <<loaded, winsock>>
  /\ using' = using \ {u}

\* Whoever has initialised the functions finds them, and Winsock is started once, no
\* matter how the others come and go.
FunctionsHeld ==
  /\ using # {} => loaded
  /\ winsock = (IF using = {} THEN 0 ELSE 1)
=============================================================================
