----------------------------- MODULE JvmVfsLocks -----------------------------
(***************************************************************************)
(* JvmVfsLocks.kt: the in-JVM table that replaces, for the jvmvfs VFS, the *)
(* POSIX byte-range locks of SQLite's unix VFS.  Two tables are kept per   *)
(* database file: the file lock level of each connection (rollback-journal *)
(* protocol, and SHARED for the life of a WAL connection) and the eight    *)
(* wal-index lock slots.  Every operation runs under the ReentrantLock of  *)
(* the file it is about, so one operation is one step and one module       *)
(* instance is one file.                                                   *)
(*                                                                         *)
(* Operations take the code they return as the parameter rc, so that a     *)
(* module that composes this one can act on the answer.                    *)
(***************************************************************************)
EXTENDS Naturals, FiniteSets

CONSTANTS Conn,        \* connection identifiers: addresses of sqlite3_file handles
          NoConn,      \* the -1 of an exclusive slot nobody holds
          SHM_NLOCK    \* wal-index lock slots (8 in the code)

ASSUME ConnAssumption == NoConn \notin Conn
ASSUME SlotAssumption == SHM_NLOCK \in Nat

VARIABLES levels,      \* levels[c]: file lock level of c (a missing map entry is NONE)
          shared,      \* shared[s]: connections holding slot s shared
          excl         \* excl[s]: the connection holding slot s exclusively, or NoConn

lockVars == <<levels, shared, excl>>

OK == 0
BUSY == 5

NONE == 0
SHARED == 1
RESERVED == 2
PENDING == 3
EXCLUSIVE == 4
Level == NONE..EXCLUSIVE

Slots == 0..(SHM_NLOCK - 1)
slotRange(ofst, n) == ofst..(ofst + n - 1)

LocksInit ==
    /\ levels = [c \in Conn |-> NONE]
    /\ shared = [s \in Slots |-> {}]
    /\ excl = [s \in Slots |-> NoConn]

-----------------------------------------------------------------------------
(* File locks *)

othersAtLeast(c, l) == \E o \in Conn \ {c} : levels[o] >= l

\* A committing writer overlooks the readers that are still in the file.
blockedByWritersOnly(c, target) ==
    \/ target = SHARED /\ othersAtLeast(c, PENDING)
    \/ target = RESERVED /\ othersAtLeast(c, RESERVED)
    \/ target = PENDING /\ othersAtLeast(c, PENDING)
    \/ target = EXCLUSIVE /\ othersAtLeast(c, RESERVED)

blocked(c, target) ==
    \/ target = SHARED /\ othersAtLeast(c, PENDING)
    \/ target = RESERVED /\ othersAtLeast(c, RESERVED)
    \/ target = PENDING /\ othersAtLeast(c, PENDING)
    \/ target = EXCLUSIVE /\ othersAtLeast(c, SHARED)

lock(c, target, rc) ==
    /\ UNCHANGED <<shared, excl>>
    /\ \/ levels[c] >= target /\ rc = OK /\ UNCHANGED levels
       \/ levels[c] < target /\ blocked(c, target) /\ rc = BUSY /\ UNCHANGED levels
       \/ /\ levels[c] < target /\ ~blocked(c, target) /\ rc = OK
          /\ levels' = [levels EXCEPT ![c] = target]

\* The level is stored as given: nothing stops a caller from raising it.
unlock(c, target) ==
    /\ levels' = [levels EXCEPT ![c] = target]
    /\ UNCHANGED <<shared, excl>>

checkReserved(c) == othersAtLeast(c, RESERVED)

-----------------------------------------------------------------------------
(* wal-index lock slots *)

heldByOther(c, s) == excl[s] \notin {NoConn, c}

shmUnlock(c, slots) ==
    /\ shared' = [s \in Slots |-> IF s \in slots THEN shared[s] \ {c} ELSE shared[s]]
    /\ excl' = [s \in Slots |-> IF s \in slots /\ excl[s] = c THEN NoConn ELSE excl[s]]
    /\ UNCHANGED levels

shmExclusive(c, slots, rc) ==
    LET busy == \E s \in slots : heldByOther(c, s) \/ shared[s] \ {c} # {}
    IN  /\ rc = IF busy THEN BUSY ELSE OK
        /\ shared' = [s \in Slots |-> IF ~busy /\ s \in slots THEN shared[s] \ {c} ELSE shared[s]]
        /\ excl' = [s \in Slots |-> IF ~busy /\ s \in slots THEN c ELSE excl[s]]
        /\ UNCHANGED levels

\* A reader gets in beside an exclusive holder.
shmSharedUnchecked(c, slots, rc) ==
    /\ rc = OK
    /\ shared' = [s \in Slots |-> IF s \in slots THEN shared[s] \cup {c} ELSE shared[s]]
    /\ UNCHANGED <<excl, levels>>

shmShared(c, slots, rc) ==
    LET busy == \E s \in slots : heldByOther(c, s)
    IN  /\ rc = IF busy THEN BUSY ELSE OK
        /\ shared' = [s \in Slots |-> IF ~busy /\ s \in slots THEN shared[s] \cup {c} ELSE shared[s]]
        /\ UNCHANGED <<excl, levels>>

shmUnmap(c) == shmUnlock(c, Slots)

-----------------------------------------------------------------------------
(***************************************************************************)
(* The callers are the pager and the WAL of sqlite3.c.  pagerLockDb asks   *)
(* for SHARED, RESERVED or EXCLUSIVE and never for PENDING, for more than  *)
(* SHARED only when it has SHARED; pagerUnlockDb goes down, to NONE or to  *)
(* SHARED.  The WAL takes ranges of slots exclusively and single slots     *)
(* shared.                                                                 *)
(***************************************************************************)
pagerLockDb(c, eLock, rc) ==
    /\ eLock = SHARED \/ levels[c] >= SHARED
    /\ lock(c, eLock, rc)

pagerUnlockDb(c, eLock) ==
    /\ levels[c] >= eLock
    /\ unlock(c, eLock)

LocksNext ==
    \E c \in Conn, rc \in {OK, BUSY} :
        \/ \E eLock \in {SHARED, RESERVED, EXCLUSIVE} : pagerLockDb(c, eLock, rc)
        \/ \E eLock \in {NONE, SHARED} : pagerUnlockDb(c, eLock)
        \/ \E ofst \in Slots : shmShared(c, {ofst}, rc)
        \/ \E ofst \in Slots, n \in 1..SHM_NLOCK :
              /\ ofst + n <= SHM_NLOCK
              /\ \/ shmExclusive(c, slotRange(ofst, n), rc)
                 \/ shmUnlock(c, slotRange(ofst, n))
        \/ shmUnmap(c)

LocksSpec == LocksInit /\ [][LocksNext]_lockVars

-----------------------------------------------------------------------------
(* Properties *)

\* Levels are file lock levels, and a slot's holders are connections.
LocksTypeOK ==
    /\ levels \in [Conn -> Level]
    /\ shared \in [Slots -> SUBSET Conn]
    /\ excl \in [Slots -> Conn \cup {NoConn}]

\* The table of compatible levels that sqlite3.c (above its definition of
\* NO_LOCK) asks of a VFS and JvmVfsLocks.lock must enforce: at most one
\* connection at RESERVED or above, and an EXCLUSIVE one is alone in the file.
LevelsCompatible ==
    \A c, d \in Conn :
        c # d =>
          /\ ~(levels[c] >= RESERVED /\ levels[d] >= RESERVED)
          /\ levels[c] = EXCLUSIVE => levels[d] = NONE

\* Slot s seen as an instance of the abstract lock.
Slot(s) == INSTANCE RwLock WITH Client <- Conn, NoClient <- NoConn,
                                readers <- shared[s], writer <- excl[s]

\* Each wal-index slot implements a reader/writer lock, although one shmLock
\* call takes a whole range of them at once: the slot starts free and every
\* step of the table is a step of the slot's lock or leaves it alone.
SlotsAreRwLocks ==
    /\ \A s \in Slots : Slot(s)!Init
    /\ [][\A s \in Slots : Slot(s)!Next \/ UNCHANGED <<shared[s], excl[s]>>]_lockVars

=============================================================================
