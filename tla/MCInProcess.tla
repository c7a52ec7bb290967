---------------------------- MODULE MCInProcess -----------------------------
(***************************************************************************)
(* What the connections of one process share, with three connections (or   *)
(* the three threads that use them): the lock table of a file by itself,   *)
(* driven in any order its callers allow; the wal-index on top of it, two  *)
(* regions and six openings in all; and the registry of runtimes, over one *)
(* file and :memory:, three workers and three runtimes at a time.          *)
(***************************************************************************)
EXTENDS WalIndex, TLC

CONSTANTS c1, c2, c3, main, mem,
          Thread, Path, Memory, Child, Runtime, NoRuntime, NoThread, Nothing, SharedPort

VARIABLES part,     \* which of the three a behaviour is about
          state, owner, pc, at, monitor, files, rtPath, ownerLock, port, portClosed, stopFailed, abandoned

registryVars ==
    <<state, owner, pc, at, monitor, files, rtPath, ownerLock, port, portClosed, stopFailed, abandoned>>

MCConn == {c1, c2, c3}
MCName == <<"a">>
MCPath == {main, mem}

R == INSTANCE WorkerDbRuntimes WITH fileOf <- [p \in Path |-> p]

Perms == Permutations(MCConn) \cup Permutations(Child)

MCInit == Init /\ R!Init /\ part \in {"locks", "index", "registry"}

MCNext ==
    /\ \/ part = "locks" /\ LocksNext /\ UNCHANGED <<arenaVars, walVars, registryVars>>
       \/ part = "index" /\ Next /\ UNCHANGED registryVars
       \/ part = "registry" /\ R!Next /\ UNCHANGED vars
    /\ UNCHANGED part

MCSpec == MCInit /\ [][MCNext]_<<vars, registryVars, part>>

\* The properties of the registry: a runtime stays open for every port whose
\* worker is not yet stopped, ...
LivePortOnOpenRuntime == R!LivePortOnOpenRuntime

\* ... and neither it nor its lock is kept without a port that will release it.
NoLockLeak == R!NoLockLeak
=============================================================================
