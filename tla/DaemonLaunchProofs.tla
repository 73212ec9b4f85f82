------------------------- MODULE DaemonLaunchProofs -------------------------
(***************************************************************************)
(* Proof that no client's command is run twice, for every number of        *)
(* clients, daemons and retries, and whatever daemons and files were left. *)
(***************************************************************************)
EXTENDS DaemonLaunch, TLAPS

Place ==
  {"start", "launch", "sigterm", "sigkill", "wait", "lastwait", "purge", "spawn", "awaitpid",
   "connect", "connected", "fallback", "executing", "done", "terminated", "error"}

\* Where a client can be once its command has been run.
After == {"executing", "done", "terminated"}

ClientType ==
  /\ client \in [Client -> Place]
  /\ executed \in [Client -> Nat]

\* RunAtMostOnce is kept only because no client comes back from these to where a command is run.
OnceInv ==
  /\ ClientType
  /\ RunAtMostOnce
  /\ \A c \in Client : executed[c] # 0 => client[c] \in After

\* A step of the daemons.
LEMMA ClientsStay == ASSUME OnceInv, UNCHANGED <<client, executed>> PROVE OnceInv'
  BY DEF OnceInv, ClientType, RunAtMostOnce

\* A client that has not run its command, or stays where it has, goes on without running it.
LEMMA ClientMoves ==
    ASSUME OnceInv, NEW c \in Client, NEW w \in Place,
           client' = [client EXCEPT ![c] = w], executed' = executed,
           client[c] \notin After \/ w \in After
    PROVE  OnceInv'
  BY DEF OnceInv, ClientType, RunAtMostOnce

\* A client that has not run its command runs it.
LEMMA ClientRuns ==
    ASSUME OnceInv, NEW c \in Client, NEW w \in After,
           client[c] \notin After,
           client' = [client EXCEPT ![c] = w],
           executed' = [executed EXCEPT ![c] = @ + 1]
    PROVE  OnceInv'
<1>1. executed[c] = 0
  BY DEF OnceInv, ClientType
<1>2. ClientType'
  BY DEF OnceInv, ClientType, After, Place
<1>3. executed' = [executed EXCEPT ![c] = 1]
  BY <1>1 DEF OnceInv, ClientType
<1> QED
  BY <1>2, <1>3 DEF OnceInv, ClientType, RunAtMostOnce

LEMMA DaemonsMove == ASSUME OnceInv, NEW d \in Daemon, DaemonStep(d) PROVE OnceInv'
<1>1. UNCHANGED <<client, executed>>
  BY DEF DaemonStep, WriteSocket, WritePid, WriteFingerprint,
         TerminateItself, Exit, clientVars
<1> QED
  BY <1>1, ClientsStay

LEMMA ClientLaunches ==
    ASSUME OnceInv, NEW c \in Client,
           MaybeLaunch(c) \/ KillPantsd(c) \/ Terminate(c)
             \/ Kill(c) \/ AwaitDead(c) \/ Purge(c)
             \/ DaemonSpawn(c) \/ AwaitPid(c)
    PROVE  OnceInv'
<1>1. client[c] \notin After /\ executed' = executed
  BY DEF MaybeLaunch, KillPantsd, Terminate, Kill, AwaitDead,
         Purge, DaemonSpawn, AwaitPid, After
<1>2. PICK w \in Place : client' = [client EXCEPT ![c] = w]
  <2>1. CASE MaybeLaunch(c) \/ KillPantsd(c) \/ Terminate(c)
    BY <2>1 DEF MaybeLaunch, KillPantsd, Terminate, Goto, Place
  <2>2. CASE Kill(c) \/ AwaitDead(c)
    BY <2>2 DEF Kill, AwaitDead, Goto, Place
  <2>3. CASE Purge(c) \/ DaemonSpawn(c) \/ AwaitPid(c)
    BY <2>3 DEF Purge, DaemonSpawn, AwaitPid, Goto, Place
  <2> QED
    BY <2>1, <2>2, <2>3
<1> QED
  BY <1>1, <1>2, ClientMoves

LEMMA ClientUses ==
    ASSUME OnceInv, NEW c \in Client,
           Connect(c) \/ Execute(c) \/ Result(c) \/ Lost(c)
             \/ RunLocally(c)
    PROVE  OnceInv'
<1>1. CASE Connect(c)
  <2>1. client[c] \notin After /\ executed' = executed
    BY <1>1 DEF Connect, After
  <2>2. PICK w \in Place : client' = [client EXCEPT ![c] = w]
    BY <1>1 DEF Connect, Goto, Place
  <2> QED
    BY <2>1, <2>2, ClientMoves
<1>2. CASE Execute(c)
  BY <1>2, ClientRuns DEF Execute, Goto, Ran, After, Place
<1>3. CASE Result(c)
  BY <1>3, ClientMoves DEF Result, Goto, After, Place
<1>4. CASE Lost(c)
  BY <1>4, ClientMoves DEF Lost, Goto, After, Place
<1>5. CASE RunLocally(c)
  BY <1>5, ClientRuns DEF RunLocally, Goto, Ran, After, Place
<1> QED
  BY <1>1, <1>2, <1>3, <1>4, <1>5

\* RemotePantsRunner._run_pants_with_retry and PantsRunner.run: however often a client retries,
\* restarts pantsd or falls back, and whatever other clients do, its command is run at most once.
THEOREM AlwaysRunAtMostOnce == Spec => []RunAtMostOnce
<1>1. Init => OnceInv
  BY DEF Init, OnceInv, ClientType, RunAtMostOnce, Place
<1>2. OnceInv /\ [Next]_vars => OnceInv'
  <2> SUFFICES ASSUME OnceInv, [Next]_vars PROVE OnceInv'
    OBVIOUS
  <2>1. CASE UNCHANGED vars
    BY <2>1, ClientsStay DEF vars, clientVars
  <2>2. ASSUME NEW d \in Daemon, DaemonStep(d) PROVE OnceInv'
    BY <2>2, DaemonsMove
  <2>3. ASSUME NEW c \in Client, ClientStep(c) PROVE OnceInv'
    BY <2>3, ClientLaunches, ClientUses DEF ClientStep
  <2> QED
    BY <2>1, <2>2, <2>3 DEF Next
<1>3. OnceInv => RunAtMostOnce
  BY DEF OnceInv
<1> QED
  BY <1>1, <1>2, <1>3, PTL DEF Spec
=============================================================================
