------------------------------ MODULE WalIndex ------------------------------
(***************************************************************************)
(* The wal-index of one database file: os_jvm.c forwards the lock and      *)
(* shared-memory methods of SQLite's VFS to JvmVfsLocks and ShmArena, and  *)
(* the WAL module of sqlite3.c opens, maps, locks and closes through them. *)
(* A connection keeps the region pointers it was given (Wal.apWiData), so  *)
(* correctness rests on nobody forgetting a region while another still     *)
(* has it.  That is guarded by a lock of another table: a WAL connection   *)
(* holds SHARED on the file all its life, and only a connection that gets  *)
(* EXCLUSIVE there unmaps with the delete flag.                            *)
(*                                                                         *)
(* Both files of the pair are shared by all workers, each on its own       *)
(* thread, and the shm_unmap import takes the two JVM locks one after the  *)
(* other, so it is two steps.                                              *)
(***************************************************************************)
EXTENDS JvmVfsLocks, ShmArena

CONSTANTS name,         \* the database file
          Region,       \* region numbers in use
          MaxSessions   \* bound on the number of times a connection is opened

ASSUME WalAssumption ==
    /\ name \in Seq(STRING)
    /\ Region \subseteq Nat /\ SHM_NLOCK >= 1
    /\ MaxSessions \in Nat

VARIABLES phase,        \* where a connection is in its life
          apWiData,     \* apWiData[c][i]: pointer of region i cached by c, or 0
          writeLock,    \* Wal.writeLock
          sessions      \* connections opened so far

walVars == <<phase, apWiData, writeLock, sessions>>
vars == <<lockVars, arenaVars, walVars>>

WAL_WRITE_LOCK == 0
NoPages == [i \in Region |-> 0]

Init ==
    /\ LocksInit
    /\ ArenaInit
    /\ phase = [c \in Conn |-> "closed"]
    /\ apWiData = [c \in Conn |-> NoPages]
    /\ writeLock = [c \in Conn |-> FALSE]
    /\ sessions = 0

goto(c, p) == phase' = [phase EXCEPT ![c] = p]

-----------------------------------------------------------------------------
(* Opening: SHARED first, then the WAL *)

sharedLock(c) ==
    /\ phase[c] = "closed"
    /\ sessions < MaxSessions
    /\ \E rc \in {OK, BUSY} :
          /\ lock(c, SHARED, rc)
          /\ IF rc = OK THEN goto(c, "reader") /\ sessions' = sessions + 1
                        ELSE UNCHANGED <<phase, sessions>>
    /\ UNCHANGED <<arenaVars, apWiData, writeLock>>

openWal(c) ==
    /\ phase[c] = "reader"
    /\ goto(c, "wal")
    /\ UNCHANGED <<lockVars, arenaVars, apWiData, writeLock, sessions>>

\* A reader that is not in WAL mode drops its lock between transactions.
dropShared(c) ==
    /\ phase[c] = "reader"
    /\ unlock(c, NONE)
    /\ goto(c, "closed")
    /\ UNCHANGED <<arenaVars, apWiData, writeLock, sessions>>

-----------------------------------------------------------------------------
(* Using the wal-index *)

beginWrite(c) ==
    /\ phase[c] = "wal" /\ ~writeLock[c]
    /\ \E rc \in {OK, BUSY} :
          /\ shmExclusive(c, {WAL_WRITE_LOCK}, rc)
          /\ writeLock' = [writeLock EXCEPT ![c] = (rc = OK)]
    /\ UNCHANGED <<arenaVars, phase, apWiData, sessions>>

endWrite(c) ==
    /\ phase[c] = "wal" /\ writeLock[c]
    /\ shmUnlock(c, {WAL_WRITE_LOCK})
    /\ writeLock' = [writeLock EXCEPT ![c] = FALSE]
    /\ UNCHANGED <<arenaVars, phase, apWiData, sessions>>

\* Only a writer extends the index; the closing checkpoint of a connection
\* that is alone may, too.  Another region than the first is asked for only
\* by a connection that extends or has seen the index refer to it.
walIndexPage(c, i) ==
    /\ phase[c] \in {"wal", "alone"} /\ apWiData[c][i] = 0
    /\ \E bExtend \in IF phase[c] = "alone" THEN BOOLEAN ELSE {writeLock[c]},
          ptr \in {0, base + cursor} \cup {regions[k] : k \in DOMAIN regions} :
          /\ i = 0 \/ bExtend \/ key(name, i) \in DOMAIN regions
          /\ map(name, i, bExtend, ptr)
          /\ apWiData' = [apWiData EXCEPT ![c][i] = ptr]
    /\ UNCHANGED <<lockVars, phase, writeLock, sessions>>

-----------------------------------------------------------------------------
(* Closing *)

walClose(c) ==
    /\ phase[c] = "wal" /\ ~writeLock[c]
    /\ \E rc \in {OK, BUSY} :
          /\ lock(c, EXCLUSIVE, rc)
          /\ goto(c, IF rc = OK THEN "alone" ELSE "leaving")
    /\ UNCHANGED <<arenaVars, apWiData, writeLock, sessions>>

\* First half of shm_unmap: the connection's slots.  The checkpoint of a lone
\* connection may have failed, and then nothing is deleted.
shmUnmapLocks(c) ==
    /\ \/ phase[c] = "alone" /\ \E p \in {"dropping", "unmapped"} : goto(c, p)
       \/ phase[c] = "leaving" /\ goto(c, "unmapped")
    /\ shmUnmap(c)
    /\ apWiData' = [apWiData EXCEPT ![c] = NoPages]
    /\ UNCHANGED <<arenaVars, writeLock, sessions>>

\* Second half, with the delete flag.
shmUnmapDrop(c) ==
    /\ phase[c] = "dropping"
    /\ dropFile(name)
    /\ goto(c, "unmapped")
    /\ UNCHANGED <<lockVars, apWiData, writeLock, sessions>>

pagerClose(c) ==
    /\ phase[c] = "unmapped"
    /\ unlock(c, NONE)
    /\ goto(c, "closed")
    /\ UNCHANGED <<arenaVars, apWiData, writeLock, sessions>>

Next ==
    \E c \in Conn :
        \/ sharedLock(c) \/ openWal(c) \/ dropShared(c)
        \/ beginWrite(c) \/ endWrite(c)
        \/ \E i \in Region : walIndexPage(c, i)
        \/ walClose(c) \/ shmUnmapLocks(c) \/ shmUnmapDrop(c) \/ pagerClose(c)

Spec == Init /\ [][Next]_vars

-----------------------------------------------------------------------------
(* Properties *)

Phases == {"closed", "reader", "wal", "alone", "leaving", "dropping", "unmapped"}

\* The variables have their types.
TypeOK ==
    /\ LocksTypeOK
    /\ cursor \in Nat
    /\ \A k \in DOMAIN regions : regions[k] \in Nat \ {0}
    /\ phase \in [Conn -> Phases]
    /\ apWiData \in [Conn -> [Region -> Nat]]
    /\ writeLock \in [Conn -> BOOLEAN]
    /\ sessions \in 0..MaxSessions

\* "The same (file, region) gives the same pointer, so that all connections
\* really share" (ShmArena.kt): no two connections ever use different memory
\* for one region, whoever opened, extended, closed and deleted in between.
IndexAgreement ==
    \A c, d \in Conn, i \in Region :
        apWiData[c][i] # 0 /\ apWiData[d][i] # 0 => apWiData[c][i] = apWiData[d][i]

\* The reason: a pointer a connection has cached is the registered one, and a
\* connection with a WAL holds the file lock that keeps others from deleting.
IndexCoherent ==
    \A c \in Conn :
        /\ phase[c] \in {"reader", "wal", "leaving"} => levels[c] >= SHARED
        /\ phase[c] \in {"alone", "dropping"} => levels[c] = EXCLUSIVE
        /\ phase[c] \notin {"wal", "alone", "leaving"} => apWiData[c] = NoPages
        /\ \A i \in Region :
              apWiData[c][i] # 0 =>
                  key(name, i) \in DOMAIN regions /\ regions[key(name, i)] = apWiData[c][i]

\* At most one connection writes to the wal-index, also across the closing of
\* other connections (shmUnmap releases only the caller's slots).
OneWriter == \A c, d \in Conn : writeLock[c] /\ writeLock[d] => c = d

\* "The wal-index bytes are handed out from the arena" (ShmArena.kt): every
\* region lies inside the ARENA_BYTES that JvmVfsRuntime allocated.
RegionsInArena ==
    \A k \in DOMAIN regions :
        base <= regions[k] /\ regions[k] + WALINDEX_PGSZ <= base + ARENA_BYTES
=============================================================================
