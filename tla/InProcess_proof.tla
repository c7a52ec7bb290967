-------------------------- MODULE InProcess_proof --------------------------
(***************************************************************************)
(* What the connections of one process share, for any number of them.      *)
(*                                                                         *)
(* The lock table of JvmVfsLocks.kt, for any set of connections and any    *)
(* number of slots.                                                        *)
(*                                                                         *)
(* The wal-index of a file, for any number of regions and openings: the    *)
(* file locks of JvmVfsLocks keep ShmArena.dropFile away from regions that *)
(* are in use.                                                             *)
(*                                                                         *)
(* The registry of runtimes, for any number of threads, ports, paths and   *)
(* runtimes: the count of a path is the number of its ports that have not  *)
(* given their reference back, and one for a port being spawned.           *)
(***************************************************************************)
EXTENDS MCInProcess, FiniteSetTheorems, TLAPS

-----------------------------------------------------------------------------
\* The lock table.

\* A file lock operation of the pager keeps the levels well typed and compatible.
LEMMA LevelStep ==
    ASSUME LocksTypeOK, LevelsCompatible,
           NEW c \in Conn, NEW rc,
           \/ \E eLock \in {SHARED, RESERVED, EXCLUSIVE} : pagerLockDb(c, eLock, rc)
           \/ \E eLock \in {NONE, SHARED} : pagerUnlockDb(c, eLock)
    PROVE  LocksTypeOK' /\ LevelsCompatible'
<1> USE DEF LocksTypeOK, LevelsCompatible, Level, NONE, SHARED, RESERVED, PENDING, EXCLUSIVE
<1>1. CASE \E eLock \in {SHARED, RESERVED, EXCLUSIVE} : pagerLockDb(c, eLock, rc)
  <2>1. PICK eLock \in {SHARED, RESERVED, EXCLUSIVE} : pagerLockDb(c, eLock, rc)
    BY <1>1, Zenon
  <2>2. UNCHANGED <<shared, excl>>
    BY <2>1, Zenon DEF pagerLockDb, lock
  <2>3. CASE UNCHANGED levels
    BY <2>2, <2>3, Zenon
  <2>4. CASE /\ levels[c] < eLock /\ ~blocked(c, eLock)
             /\ levels' = [levels EXCEPT ![c] = eLock]
    <3>1. levels' \in [Conn -> Level]
      BY <2>4
    <3>2. \A d \in Conn \ {c} : levels'[d] = levels[d] /\ levels'[c] = eLock
      BY <2>4, Zenon
    <3>3. eLock = EXCLUSIVE => \A d \in Conn \ {c} : levels[d] = NONE
      BY <2>4 DEF blocked, othersAtLeast
    <3>4. eLock = RESERVED => \A d \in Conn \ {c} : levels[d] < RESERVED
      BY <2>4 DEF blocked, othersAtLeast
    <3>5. eLock = SHARED => \A d \in Conn \ {c} : levels[d] < PENDING
      BY <2>4 DEF blocked, othersAtLeast
    <3>6. levels[c] = NONE => eLock = SHARED
      BY <2>1, <2>4 DEF pagerLockDb
    <3> QED
      BY <2>2, <3>1, <3>2, <3>3, <3>4, <3>5, <3>6
  <2> QED
    BY <2>1, <2>3, <2>4, Zenon DEF pagerLockDb, lock
<1>2. CASE \E eLock \in {NONE, SHARED} : pagerUnlockDb(c, eLock)
  <2>1. PICK eLock \in {NONE, SHARED} : pagerUnlockDb(c, eLock)
    BY <1>2, Zenon
  <2>2. /\ levels[c] >= eLock
        /\ levels' = [levels EXCEPT ![c] = eLock]
        /\ UNCHANGED <<shared, excl>>
    BY <2>1, Zenon DEF pagerUnlockDb, unlock
  <2>3. \A d \in Conn \ {c} : levels'[d] = levels[d] /\ levels'[c] = eLock
    BY <2>2, Zenon
  <2> QED
    BY <2>2, <2>3
<1> QED
  BY <1>1, <1>2, Zenon

\* A shmLock or shmUnmap call leaves the file lock levels alone and keeps the
\* slots well typed.
LEMMA ShmStep ==
    ASSUME LocksTypeOK, LevelsCompatible,
           NEW c \in Conn, NEW slots \in SUBSET Slots, NEW rc,
           \/ shmShared(c, slots, rc)
           \/ shmExclusive(c, slots, rc)
           \/ shmUnlock(c, slots)
    PROVE  LocksTypeOK' /\ LevelsCompatible'
<1>1. UNCHANGED levels
  BY Zenon DEF shmShared, shmExclusive, shmUnlock
<1>2. shared' \in [Slots -> SUBSET Conn]
  BY DEF LocksTypeOK, shmShared, shmExclusive, shmUnlock
<1>3. excl' \in [Slots -> Conn \cup {NoConn}]
  BY Zenon DEF LocksTypeOK, shmShared, shmExclusive, shmUnlock
<1> QED
  BY <1>1, <1>2, <1>3, Zenon DEF LocksTypeOK, LevelsCompatible

\* The steps of the table, with the slot ranges of the WAL named as sets.
LEMMA LocksStepCases ==
    ASSUME LocksNext
    PROVE  \E c \in Conn, rc \in {OK, BUSY} :
              \/ \E eLock \in {SHARED, RESERVED, EXCLUSIVE} : pagerLockDb(c, eLock, rc)
              \/ \E eLock \in {NONE, SHARED} : pagerUnlockDb(c, eLock)
              \/ \E slots \in SUBSET Slots :
                    \/ shmShared(c, slots, rc)
                    \/ shmExclusive(c, slots, rc)
                    \/ shmUnlock(c, slots)
<1>1. \A ofst \in Slots, n \in 1..SHM_NLOCK :
         ofst + n <= SHM_NLOCK => slotRange(ofst, n) \in SUBSET Slots
  BY SlotAssumption DEF Slots, slotRange
<1>2. \A ofst \in Slots : {ofst} \in SUBSET Slots
  BY Zenon
<1>3. Slots \in SUBSET Slots
  BY Zenon
<1>4. PICK c \in Conn, rc \in {OK, BUSY} :
        \/ \E eLock \in {SHARED, RESERVED, EXCLUSIVE} : pagerLockDb(c, eLock, rc)
        \/ \E eLock \in {NONE, SHARED} : pagerUnlockDb(c, eLock)
        \/ \E ofst \in Slots : shmShared(c, {ofst}, rc)
        \/ \E ofst \in Slots, n \in 1..SHM_NLOCK :
              /\ ofst + n <= SHM_NLOCK
              /\ \/ shmExclusive(c, slotRange(ofst, n), rc)
                 \/ shmUnlock(c, slotRange(ofst, n))
        \/ shmUnmap(c)
  BY Zenon DEF LocksNext
<1> QED
  BY <1>1, <1>2, <1>3, <1>4, Zenon DEF shmUnmap

\* The lock table keeps its types and never grants incompatible file locks,
\* whatever the number of connections (JvmVfsLocks.lock and unlock).
THEOREM LocksSafe == LocksSpec => [](LocksTypeOK /\ LevelsCompatible)
<1>1. LocksInit => LocksTypeOK /\ LevelsCompatible
  BY DEF LocksInit, LocksTypeOK, LevelsCompatible, Level, NONE, RESERVED, EXCLUSIVE
<1>2. LocksTypeOK /\ LevelsCompatible /\ [LocksNext]_lockVars
        => LocksTypeOK' /\ LevelsCompatible'
  <2> SUFFICES ASSUME LocksTypeOK, LevelsCompatible, [LocksNext]_lockVars
               PROVE  LocksTypeOK' /\ LevelsCompatible'
    BY Zenon
  <2>1. CASE LocksNext
    BY <2>1, LocksStepCases, LevelStep, ShmStep, Zenon
  <2>2. CASE UNCHANGED lockVars
    BY <2>2, Zenon DEF lockVars, LocksTypeOK, LevelsCompatible
  <2> QED
    BY <2>1, <2>2, Zenon
<1> QED
  BY <1>1, <1>2, PTL DEF LocksSpec

\* Under every operation of the lock table levels stay levels and slots are
\* held by connections (JvmVfsLocks.lock, unlock and shmLock).
THEOREM LocksTypes == LocksSpec => []LocksTypeOK
BY LocksSafe, PTL

\* One slot under one operation: the abstract lock takes the matching step.
LEMMA SlotStep ==
    ASSUME LocksTypeOK,
           NEW c \in Conn, NEW slots \in SUBSET Slots, NEW rc, NEW s \in Slots,
           \/ shmShared(c, slots, rc)
           \/ shmExclusive(c, slots, rc)
           \/ shmUnlock(c, slots)
    PROVE  Slot(s)!Next \/ UNCHANGED <<shared[s], excl[s]>>
<1>1. CASE shmShared(c, slots, rc)
  <2>1. CASE s \in slots /\ ~ \E t \in slots : heldByOther(c, t)
    <3>1. Slot(s)!AcquireShared(c)
      BY <1>1, <2>1, Zenon DEF LocksTypeOK, shmShared, heldByOther, Slot!AcquireShared
    <3> QED
      BY <3>1, Zenon DEF Slot!Next
  <2> QED
    BY <1>1, <2>1, Zenon DEF shmShared, LocksTypeOK
<1>2. CASE shmExclusive(c, slots, rc)
  <2>1. CASE s \in slots /\ ~ \E t \in slots : heldByOther(c, t) \/ shared[t] \ {c} # {}
    <3>1. Slot(s)!AcquireExclusive(c)
      BY <1>2, <2>1, Zenon DEF LocksTypeOK, shmExclusive, heldByOther, Slot!AcquireExclusive
    <3> QED
      BY <3>1, Zenon DEF Slot!Next
  <2> QED
    BY <1>2, <2>1, Zenon DEF shmExclusive, LocksTypeOK
<1>3. CASE shmUnlock(c, slots)
  <2>1. CASE s \in slots
    <3>1. Slot(s)!Release(c)
      BY <1>3, <2>1, Zenon DEF LocksTypeOK, shmUnlock, Slot!Release
    <3> QED
      BY <3>1, Zenon DEF Slot!Next
  <2> QED
    BY <1>3, <2>1, Zenon DEF shmUnlock, LocksTypeOK
<1> QED
  BY <1>1, <1>2, <1>3, Zenon

\* Every wal-index slot implements the abstract reader/writer lock under every
\* operation of the table (JvmVfsLocks.shmLock and shmUnmap).
THEOREM SlotsRefineRwLock == LocksSpec => SlotsAreRwLocks
<1>1. LocksInit => \A s \in Slots : Slot(s)!Init
  BY Zenon DEF LocksInit, Slot!Init
<1>2. LocksTypeOK /\ [LocksNext]_lockVars
        => [\A s \in Slots : Slot(s)!Next \/ UNCHANGED <<shared[s], excl[s]>>]_lockVars
  <2> SUFFICES ASSUME LocksTypeOK, LocksNext, NEW s \in Slots
               PROVE  Slot(s)!Next \/ UNCHANGED <<shared[s], excl[s]>>
    BY Zenon
  <2>1. CASE UNCHANGED <<shared, excl>>
    BY <2>1, Zenon
  <2> QED
    BY <2>1, LocksStepCases, SlotStep, Zenon DEF pagerLockDb, pagerUnlockDb, lock, unlock
<1>3. LocksSpec => []LocksTypeOK
  BY LocksSafe, PTL
<1> QED
  BY <1>1, <1>2, <1>3, PTL DEF LocksSpec, SlotsAreRwLocks

-----------------------------------------------------------------------------
\* The wal-index.

\* A writer's belief agrees with the slot table.
WriterHoldsSlot == \A c \in Conn : writeLock[c] => phase[c] = "wal" /\ excl[WAL_WRITE_LOCK] = c

IInv == TypeOK /\ LevelsCompatible /\ IndexCoherent /\ WriterHoldsSlot

\* The file lock operations of a WAL connection are operations of the pager.
LEMMA FileLockStep ==
    ASSUME LocksTypeOK, LevelsCompatible, NEW c \in Conn, NEW rc,
           \/ lock(c, SHARED, rc)
           \/ lock(c, EXCLUSIVE, rc) /\ levels[c] >= SHARED
           \/ unlock(c, NONE)
    PROVE  /\ LocksTypeOK' /\ LevelsCompatible' /\ UNCHANGED <<shared, excl>>
           /\ \A d \in Conn \ {c} : levels'[d] = levels[d]
<1>1. LocksTypeOK' /\ LevelsCompatible'
  <2>1. levels[c] >= NONE
    BY DEF LocksTypeOK, Level, NONE, EXCLUSIVE
  <2> QED
    BY <2>1, LevelStep, Zenon DEF pagerLockDb, pagerUnlockDb
<1> QED
  BY <1>1, Zenon DEF lock, unlock, LocksTypeOK

\* The index is extended by fresh memory or not at all.
LEMMA MapStep ==
    ASSUME TypeOK, NEW i \in Region, NEW bExtend \in BOOLEAN, NEW ptr, map(name, i, bExtend, ptr)
    PROVE  /\ cursor' \in Nat /\ ptr \in Nat
           /\ \A k \in DOMAIN regions' : regions'[k] \in Nat \ {0}
           /\ \A k \in DOMAIN regions : k \in DOMAIN regions' /\ regions'[k] = regions[k]
           /\ ptr # 0 => key(name, i) \in DOMAIN regions' /\ regions'[key(name, i)] = ptr
<1> DEFINE k == key(name, i)
<1>1. align16(WALINDEX_PGSZ) \in Nat
  BY ArenaAssumption DEF align16
<1>2. base + cursor \in Nat \ {0}
  BY ArenaAssumption DEF TypeOK
<1> HIDE DEF k
<1>3. \/ k \in DOMAIN regions /\ ptr = regions[k] /\ UNCHANGED arenaVars
      \/ k \notin DOMAIN regions /\ ptr = 0 /\ UNCHANGED arenaVars
      \/ /\ k \notin DOMAIN regions /\ ptr = base + cursor
         /\ cursor' = cursor + align16(WALINDEX_PGSZ)
         /\ regions' = [x \in DOMAIN regions \cup {k} |-> IF x = k THEN ptr ELSE regions[x]]
  BY Zenon DEF map, k
<1>4. QED
  BY <1>1, <1>2, <1>3 DEF TypeOK, arenaVars, k

\* The inductive step.
LEMMA IndexStep == IInv /\ [Next]_vars => IInv'
<1> SUFFICES ASSUME IInv, [Next]_vars PROVE IInv'
  BY Zenon
<1> USE DEF IInv, TypeOK, IndexCoherent, WriterHoldsSlot, Phases, NoPages, goto
<1>1. ASSUME NEW c \in Conn, sharedLock(c) PROVE IInv'
  <2>1. PICK rc \in {OK, BUSY} :
          /\ lock(c, SHARED, rc)
          /\ IF rc = OK THEN goto(c, "reader") /\ sessions' = sessions + 1
                        ELSE UNCHANGED <<phase, sessions>>
    BY <1>1, Zenon DEF sharedLock
  <2>2. /\ LocksTypeOK' /\ LevelsCompatible' /\ UNCHANGED <<shared, excl>>
        /\ \A d \in Conn \ {c} : levels'[d] = levels[d]
    BY <2>1, FileLockStep, Zenon
  <2>3. rc = OK => levels'[c] >= SHARED
    BY <2>1 DEF lock, LocksTypeOK, OK, BUSY, Level, NONE, SHARED, EXCLUSIVE
  <2>4. sessions' \in 0..MaxSessions
    BY <1>1, <2>1, WalAssumption DEF sharedLock
  <2>5. \/ rc = OK /\ phase' = [phase EXCEPT ![c] = "reader"]
        \/ phase' = phase
    BY <2>1, Zenon
  <2>6. phase[c] = "closed" /\ UNCHANGED <<cursor, regions, apWiData, writeLock>>
    BY <1>1, Zenon DEF sharedLock, arenaVars
  <2>7. /\ phase' \in [Conn -> Phases]
        /\ \A d \in Conn \ {c} : phase'[d] = phase[d]
        /\ (rc = OK /\ phase'[c] = "reader") \/ phase'[c] = "closed"
    BY <2>5, <2>6, Zenon
  <2>8. TypeOK'
    BY <2>2, <2>4, <2>6, <2>7, Zenon
  <2>9. IndexCoherent'
    BY <2>2, <2>3, <2>6, <2>7
  <2>10. WriterHoldsSlot'
    BY <2>2, <2>6, <2>7, Zenon
  <2> QED
    BY <2>2, <2>8, <2>9, <2>10, Zenon
<1>2. ASSUME NEW c \in Conn, openWal(c) PROVE IInv'
  BY <1>2, SMTT(30) DEF openWal, lockVars, arenaVars, LocksTypeOK, LevelsCompatible
<1>3. ASSUME NEW c \in Conn, dropShared(c) PROVE IInv'
  <2>1. /\ LocksTypeOK' /\ LevelsCompatible' /\ UNCHANGED <<shared, excl>>
        /\ \A d \in Conn \ {c} : levels'[d] = levels[d]
    BY <1>3, FileLockStep, Zenon DEF dropShared
  <2> QED
    BY <1>3, <2>1 DEF dropShared, arenaVars
<1>4. ASSUME NEW c \in Conn, beginWrite(c) PROVE IInv'
  <2>1. PICK rc \in {OK, BUSY} :
          /\ shmExclusive(c, {WAL_WRITE_LOCK}, rc)
          /\ writeLock' = [writeLock EXCEPT ![c] = (rc = OK)]
    BY <1>4, Zenon DEF beginWrite
  <2>2. WAL_WRITE_LOCK \in Slots
    BY WalAssumption, SlotAssumption DEF WAL_WRITE_LOCK, Slots
  <2>3. LocksTypeOK' /\ LevelsCompatible'
    BY <2>1, <2>2, ShmStep, Zenon
  <2>4. /\ rc = OK => excl[WAL_WRITE_LOCK] \in {NoConn, c} /\ excl'[WAL_WRITE_LOCK] = c
        /\ rc # OK => excl' = excl
    BY <2>1, <2>2 DEF shmExclusive, heldByOther, OK, BUSY, LocksTypeOK
  <2>5. UNCHANGED levels
    BY <2>1, Zenon DEF shmExclusive
  <2> QED
    BY <1>4, <2>1, <2>3, <2>4, <2>5, ConnAssumption, SMTT(30) DEF beginWrite, arenaVars
<1>5. ASSUME NEW c \in Conn, endWrite(c) PROVE IInv'
  <2>1. WAL_WRITE_LOCK \in Slots
    BY WalAssumption, SlotAssumption DEF WAL_WRITE_LOCK, Slots
  <2>2. LocksTypeOK' /\ LevelsCompatible'
    BY <1>5, <2>1, ShmStep, Zenon DEF endWrite
  <2>3. UNCHANGED levels /\ excl[WAL_WRITE_LOCK] = c
    BY <1>5, Zenon DEF endWrite, shmUnlock
  <2> QED
    BY <1>5, <2>2, <2>3 DEF endWrite, arenaVars
<1>6. ASSUME NEW c \in Conn, NEW i \in Region, walIndexPage(c, i) PROVE IInv'
  <2>0. (IF phase[c] = "alone" THEN BOOLEAN ELSE {writeLock[c]}) \subseteq BOOLEAN
    BY Zenon
  <2>1. PICK bExtend \in IF phase[c] = "alone" THEN BOOLEAN ELSE {writeLock[c]},
             ptr \in {0, base + cursor} \cup {regions[k] : k \in DOMAIN regions} :
          /\ i = 0 \/ bExtend \/ key(name, i) \in DOMAIN regions
          /\ map(name, i, bExtend, ptr)
          /\ apWiData' = [apWiData EXCEPT ![c][i] = ptr]
    BY <1>6, Zenon DEF walIndexPage
  <2>1a. bExtend \in BOOLEAN
    BY <2>0, Zenon
  <2>2. /\ cursor' \in Nat /\ ptr \in Nat
        /\ \A k \in DOMAIN regions' : regions'[k] \in Nat \ {0}
        /\ \A k \in DOMAIN regions : k \in DOMAIN regions' /\ regions'[k] = regions[k]
        /\ ptr # 0 => key(name, i) \in DOMAIN regions' /\ regions'[key(name, i)] = ptr
    BY <2>1, <2>1a, MapStep, SMTT(30)
  <2>3. /\ apWiData' \in [Conn -> [Region -> Nat]]
        /\ \A d \in Conn, j \in Region :
              apWiData'[d][j] = IF d = c /\ j = i THEN ptr ELSE apWiData[d][j]
        /\ \A d \in Conn \ {c} : apWiData'[d] = apWiData[d]
    BY <2>1, <2>2
  <2>4. UNCHANGED <<lockVars, phase, writeLock, sessions>> /\ phase[c] \in {"wal", "alone"}
    BY <1>6, Zenon DEF walIndexPage
  <2>5. LocksTypeOK' /\ LevelsCompatible' /\ WriterHoldsSlot' /\ UNCHANGED levels
    BY <2>4 DEF lockVars, LocksTypeOK, LevelsCompatible
  <2>6. TypeOK'
    BY <2>2, <2>3, <2>4, <2>5, SMTT(30)
  <2>7. IndexCoherent'
    BY <2>2, <2>3, <2>4, <2>5, SMTT(30)
  <2> QED
    BY <2>5, <2>6, <2>7, Zenon
<1>7. ASSUME NEW c \in Conn, walClose(c) PROVE IInv'
  <2>1. PICK rc \in {OK, BUSY} :
          /\ lock(c, EXCLUSIVE, rc)
          /\ goto(c, IF rc = OK THEN "alone" ELSE "leaving")
    BY <1>7, Zenon DEF walClose
  <2>2. levels[c] >= SHARED
    BY <1>7, Zenon DEF walClose
  <2>3. /\ LocksTypeOK' /\ LevelsCompatible' /\ UNCHANGED <<shared, excl>>
        /\ \A d \in Conn \ {c} : levels'[d] = levels[d]
    BY <2>1, <2>2, FileLockStep, Zenon
  <2>4. /\ rc = OK => levels'[c] = EXCLUSIVE
        /\ rc # OK => levels'[c] = levels[c]
    BY <2>1, SMTT(30) DEF lock, LocksTypeOK, OK, BUSY, Level, NONE, EXCLUSIVE
  <2> QED
    BY <1>7, <2>1, <2>2, <2>3, <2>4 DEF walClose, arenaVars
<1>8. ASSUME NEW c \in Conn, shmUnmapLocks(c) PROVE IInv'
  <2>1. LocksTypeOK' /\ LevelsCompatible'
    BY <1>8, ShmStep, Zenon DEF shmUnmapLocks, shmUnmap
  <2>2. UNCHANGED levels /\ \A d \in Conn \ {c}, s \in Slots : excl[s] = d => excl'[s] = d
    BY <1>8, Zenon DEF shmUnmapLocks, shmUnmap, shmUnlock
  <2>3. WAL_WRITE_LOCK \in Slots
    BY WalAssumption, SlotAssumption DEF WAL_WRITE_LOCK, Slots
  <2>4. PICK p \in {"dropping", "unmapped"} :
          /\ phase' = [phase EXCEPT ![c] = p]
          /\ p = "dropping" => phase[c] = "alone"
    BY <1>8, Zenon DEF shmUnmapLocks
  <2>5. /\ phase[c] # "wal"
        /\ apWiData' = [apWiData EXCEPT ![c] = NoPages]
        /\ UNCHANGED <<cursor, regions, writeLock, sessions>>
    BY <1>8, Zenon DEF shmUnmapLocks, arenaVars
  <2> QED
    BY <2>1, <2>2, <2>3, <2>4, <2>5
<1>9. ASSUME NEW c \in Conn, shmUnmapDrop(c) PROVE IInv'
  <2>1. \A d \in Conn \ {c} : levels[d] = NONE
    BY <1>9 DEF shmUnmapDrop, LevelsCompatible
  <2>2. \A d \in Conn, i \in Region : apWiData[d][i] = 0
    BY <1>9, <2>1, SMTT(30) DEF shmUnmapDrop, NONE, SHARED, EXCLUSIVE
  <2>3. \A k \in DOMAIN regions' : k \in DOMAIN regions /\ regions'[k] = regions[k]
    BY <1>9, Zenon DEF shmUnmapDrop, dropFile
  <2> QED
    BY <1>9, <2>2, <2>3, SMTT(30) DEF shmUnmapDrop, dropFile, lockVars, LocksTypeOK, LevelsCompatible
<1>10. ASSUME NEW c \in Conn, pagerClose(c) PROVE IInv'
  <2>1. /\ LocksTypeOK' /\ LevelsCompatible' /\ UNCHANGED <<shared, excl>>
        /\ \A d \in Conn \ {c} : levels'[d] = levels[d]
    BY <1>10, FileLockStep, Zenon DEF pagerClose
  <2> QED
    BY <1>10, <2>1 DEF pagerClose, arenaVars
<1>11. CASE UNCHANGED vars
  BY <1>11 DEF vars, lockVars, arenaVars, walVars, LocksTypeOK, LevelsCompatible
<1> QED
  BY <1>1, <1>2, <1>3, <1>4, <1>5, <1>6, <1>7, <1>8, <1>9, <1>10, <1>11, Zenon DEF Next

\* Nothing is mapped or locked at first.
LEMMA IndexInit == Init => IInv
<1> SUFFICES ASSUME Init PROVE IInv
  BY Zenon
<1>1. LocksTypeOK /\ LevelsCompatible
  BY DEF Init, LocksInit, LocksTypeOK, LevelsCompatible, Level, NONE, RESERVED, EXCLUSIVE
<1> QED
  BY <1>1, WalAssumption
  DEF Init, ArenaInit, IInv, TypeOK, IndexCoherent, WriterHoldsSlot, Phases, NoPages

\* IInv always holds.
LEMMA IndexInvariant == Spec => []IInv
BY IndexInit, IndexStep, PTL DEF Spec

\* Types are kept.
THEOREM IndexTypes == Spec => []TypeOK
<1>1. IInv => TypeOK
  BY Zenon DEF IInv
<1> QED
  BY <1>1, IndexInvariant, PTL

\* A cached pointer is the registered one, and the file lock that protects the
\* registration is held.
THEOREM IndexIsCoherent == Spec => []IndexCoherent
<1>1. IInv => IndexCoherent
  BY Zenon DEF IInv
<1> QED
  BY <1>1, IndexInvariant, PTL

\* All connections use the same memory for a region of the wal-index.
THEOREM IndexIsShared == Spec => []IndexAgreement
<1>1. IInv => IndexAgreement
  BY Zenon DEF IInv, IndexCoherent, IndexAgreement
<1> QED
  BY <1>1, IndexInvariant, PTL

\* At most one connection is a writer.
THEOREM SingleWriter == Spec => []OneWriter
<1>1. IInv => OneWriter
  BY Zenon DEF IInv, WriterHoldsSlot, OneWriter
<1> QED
  BY <1>1, IndexInvariant, PTL

-----------------------------------------------------------------------------
(* The registry *)

\* A JDBC connection closes its port once; the sentinels are not members.
RegistryConstants ==
    /\ ~SharedPort
    /\ IsFiniteSet(Child)
    /\ NoThread \notin Thread /\ NoRuntime \notin Runtime /\ Memory \in Path

Closer == {"close", "stop", "stopping", "release"}

\* The port has its reference: it is not closed, or a thread is closing it.
holds(w) == state[w] # "absent" /\ (~portClosed[w] \/ R!closing(w))
Holders(p) == {w \in Child : port[w].path = p /\ holds(w)}

\* Where the threads are, and that a port is closed by one of them.
PortInv ==
    /\ state \in [Child -> {"absent", "live", "closing", "closed"}]
    /\ pc \in [Thread -> Closer \cup {"idle", "opening", "spawn", "submit", "running"}]
    /\ at \in [Thread -> Path \cup Child \cup {Nothing}]
    /\ portClosed \in [Child -> BOOLEAN]
    /\ monitor \in Thread \cup {NoThread}
    /\ \A t \in Thread :
          /\ pc[t] \in {"opening", "spawn"} <=> monitor = t
          /\ pc[t] \in {"opening", "spawn"} => at[t] \in Path
          /\ pc[t] \in {"submit", "running"} \cup Closer => at[t] \in Child /\ state[at[t]] # "absent"
          /\ pc[t] = "close" => ~portClosed[at[t]]
          /\ pc[t] \in {"stop", "stopping", "release"} => portClosed[at[t]]
          /\ pc[t] = "release" => state[at[t]] = "closed" \/ at[t] \in stopFailed
    /\ \A t, u \in Thread : pc[t] \in Closer /\ pc[u] \in Closer /\ at[t] = at[u] => t = u
    /\ \A w \in Child : state[w] = "absent" => ~portClosed[w]
    /\ \A w \in Child : state[w] # "absent" /\ ~holds(w) => state[w] = "closed" \/ w \in stopFailed

\* The steps of the threads keep PortInv.
LEMMA PortStep == ASSUME RegistryConstants, PortInv, [R!Next]_R!vars PROVE PortInv'
<1> USE DEF RegistryConstants, PortInv, Closer, holds, R!closing
<1>1. CASE UNCHANGED R!vars
  BY <1>1, Zenon DEF R!vars, R!workerVars, R!portVars
<1>2. ASSUME NEW t \in Thread, NEW p \in Path, R!open(t, p) PROVE PortInv'
  <2>1. PICK x \in {"opening", "spawn"} : R!gotoAt(t, x, p)
    BY <1>2, Zenon DEF R!open
  <2>2. /\ pc[t] = "idle" /\ monitor = NoThread /\ monitor' = t
        /\ UNCHANGED <<state, portClosed, stopFailed>>
    BY <1>2, Zenon DEF R!open, R!workerVars, R!portVars
  <2> QED
    BY <2>1, <2>2, SMTT(60) DEF R!gotoAt
<1>a. ASSUME NEW t \in Thread, R!opened(t) PROVE PortInv'
  BY <1>a, ZenonT(30) DEF R!opened, R!goto, R!workerVars, R!portVars
<1>b. ASSUME NEW t \in Thread, R!openFails(t) PROVE PortInv'
  BY <1>b, SMTT(30) DEF R!openFails, R!done, R!gotoAt, R!workerVars
<1>3. ASSUME NEW t \in Thread, NEW w \in Child, R!spawned(t, w) PROVE PortInv'
  BY <1>3 DEF R!spawned, R!publish, R!done, R!gotoAt
<1>4. ASSUME NEW t \in Thread, R!spawnFails(t) PROVE PortInv'
  BY <1>4 DEF R!spawnFails, R!done, R!gotoAt, R!workerVars, R!portVars
<1>5. ASSUME NEW t \in Thread, NEW w \in Child, R!submit(t, w) PROVE PortInv'
  BY <1>5, ZenonT(30) DEF R!submit, R!gotoAt, R!workerVars, R!portVars
<1>6. ASSUME NEW t \in Thread, R!run(t) PROVE PortInv'
  BY <1>6, SMTT(30) DEF R!run, R!runEnter, R!goto, R!gotoAt, R!done, R!workerVars, R!portVars
<1>7. ASSUME NEW t \in Thread, R!runReturns(t) PROVE PortInv'
  BY <1>7, SMTT(30) DEF R!runReturns, R!runExit, R!gotoAt, R!done, R!portVars
<1>8. ASSUME NEW t \in Thread, NEW w \in Child, R!close(t, w) PROVE PortInv'
  BY <1>8, SMTT(30) DEF R!close, R!gotoAt, R!workerVars, R!portVars
<1>9. ASSUME NEW t \in Thread, R!closeMark(t) PROVE PortInv'
  BY <1>9, SMTT(30) DEF R!closeMark, R!goto, R!workerVars
<1>10. ASSUME NEW t \in Thread, R!stopWorker(t) PROVE PortInv'
  BY <1>10, SMTT(30) DEF R!stopWorker, R!stopEnter, R!goto, R!workerVars, R!portVars
<1>11. ASSUME NEW t \in Thread, R!stopReturns(t) PROVE PortInv'
  BY <1>11, SMTT(30) DEF R!stopReturns, R!stopExit, R!goto
<1>12. ASSUME NEW t \in Thread, R!stopTimeout(t) PROVE PortInv'
  BY <1>12, SMTT(30) DEF R!stopTimeout, R!goto, R!workerVars
<1>13. ASSUME NEW t \in Thread, R!releasePort(t) PROVE PortInv'
  BY <1>13, SMTT(30) DEF R!releasePort, R!done, R!gotoAt, R!workerVars, R!portVars
<1> QED
  BY <1>1, <1>2, <1>a, <1>b, <1>3, <1>4, <1>5, <1>6, <1>7, <1>8, <1>9, <1>10, <1>11, <1>12, <1>13, ZenonT(30)
     DEF R!Next

-----------------------------------------------------------------------------
\* The path whose runtime is being opened; the runtime of a path.
opening(p) == monitor # NoThread /\ pc[monitor] = "opening" /\ at[monitor] = p
rtOf(p) == IF opening(p) THEN ownerLock[p] ELSE files[p].rt
Kept == R!Open \ abandoned

\* The registry by itself: a path has an entry while its count is not zero, the
\* open runtimes, but the abandoned, are those of the paths, and a file's owner
\* lock is its runtime's.
RegistryInv ==
    /\ files \in [Path -> [rt : Runtime \cup {NoRuntime}, refs : Nat]]
    /\ ownerLock \in [Path -> Runtime \cup {NoRuntime}]
    /\ R!Open \subseteq Runtime /\ rtPath \in [R!Open -> Path] /\ abandoned \subseteq R!Open
    /\ \A p \in Path : files[p].rt = NoRuntime <=> files[p].refs = 0
    /\ \A p \in Path : rtOf(p) # NoRuntime => rtOf(p) \in Kept /\ rtPath[rtOf(p)] = p
    /\ \A r \in Kept : rtOf(rtPath[r]) = r
    /\ \A p \in Path \ {Memory} : ownerLock[p] = rtOf(p)
    /\ \A p \in Path : opening(p) => p # Memory /\ files[p].rt = NoRuntime /\ ownerLock[p] # NoRuntime

\* The count of a path: its holders and the port that is being spawned.
spawning(p) == IF monitor # NoThread /\ pc[monitor] = "spawn" /\ at[monitor] = p THEN 1 ELSE 0
CountInv ==
    /\ port \in [Child -> [rt : Runtime \cup {NoRuntime}, path : Path]]
    /\ \A p \in Path : files[p].refs = Cardinality(Holders(p)) + spawning(p)
    /\ \A w \in Child : holds(w) => port[w].rt = files[port[w].path].rt
    /\ \A w \in Child : /\ port[w].rt \notin abandoned
                        /\ \A p \in Path : opening(p) => port[w].rt # ownerLock[p]

\* No runtime is being opened.
Settled == \A p : ~opening(p)

\* The registry of a settled state, in terms of the entries.
SettledRegistry ==
    /\ files \in [Path -> [rt : Runtime \cup {NoRuntime}, refs : Nat]]
    /\ ownerLock \in [Path -> Runtime \cup {NoRuntime}]
    /\ R!Open \subseteq Runtime /\ rtPath \in [R!Open -> Path] /\ abandoned \subseteq R!Open
    /\ \A p \in Path : files[p].rt = NoRuntime <=> files[p].refs = 0
    /\ \A p \in Path : files[p].rt # NoRuntime => files[p].rt \in Kept /\ rtPath[files[p].rt] = p
    /\ \A r \in Kept : files[rtPath[r]].rt = r
    /\ \A p \in Path \ {Memory} : ownerLock[p] = files[p].rt

\* In a settled state the two say the same, before a step and after it.
LEMMA RegistryWhenSettled ==
    /\ Settled => (RegistryInv <=> SettledRegistry)
    /\ Settled' => (RegistryInv' <=> SettledRegistry')
BY Zenon DEF Settled, RegistryInv, SettledRegistry, rtOf

\* release gives one reference back, and with the last one the runtime.
LEMMA ReleaseEffect ==
    ASSUME RegistryConstants, SettledRegistry, NEW p \in Path, files[p].refs >= 1, R!release(p),
           abandoned' = abandoned
    PROVE  /\ SettledRegistry'
           /\ files'[p].refs = files[p].refs - 1
           /\ files[p].refs > 1 => files'[p].rt = files[p].rt
           /\ \A q \in Path \ {p} : files'[q] = files[q]
<1> USE DEF RegistryConstants, SettledRegistry, R!Open, Kept
<1>1. files[p].rt # NoRuntime
  OBVIOUS
<1>2. CASE files[p].refs > 1
  <2>1. files' = [files EXCEPT ![p].refs = files[p].refs - 1] /\ UNCHANGED <<rtPath, ownerLock>>
    BY <1>1, <1>2 DEF R!release
  <2>2. files'[p].rt = files[p].rt /\ files'[p].refs = files[p].refs - 1
    BY <2>1
  <2>3. \A q \in Path \ {p} : files'[q] = files[q]
    BY <2>1
  <2>4. files' \in [Path -> [rt : Runtime \cup {NoRuntime}, refs : Nat]]
    <3>1. files[p].refs - 1 \in Nat
      BY <1>1, <1>2, SMTT(30)
    <3> QED
      BY <2>1, <3>1
  <2>5. \A q \in Path : files'[q].rt = files[q].rt /\ (files'[q].refs = 0 <=> files[q].refs = 0)
    BY <1>1, <1>2, <2>2, <2>3, SMTT(30)
  <2>6. R!Open' = R!Open /\ Kept' = Kept /\ \A r \in Kept : files'[rtPath'[r]].rt = r
    BY <2>1, <2>5, ZenonT(30)
  <2> QED
    BY <2>1, <2>2, <2>3, <2>4, <2>5, <2>6, SMTT(30)
<1>3. CASE files[p].refs = 1
  <2>1. /\ files' = [files EXCEPT ![p] = [rt |-> NoRuntime, refs |-> 0]]
        /\ rtPath' = [x \in R!Open \ {files[p].rt} |-> rtPath[x]]
        /\ ownerLock' = [ownerLock EXCEPT ![p] = NoRuntime]
    BY <1>1, <1>3 DEF R!release
  <2>2. /\ R!Open' = R!Open \ {files[p].rt} /\ Kept' = Kept \ {files[p].rt} /\ abandoned' \subseteq R!Open'
        /\ \A r \in R!Open' : rtPath'[r] = rtPath[r]
        /\ \A r \in Kept' : rtPath[r] # p
    <3>1. files[p].rt \in Kept
      BY <1>1, Zenon
    <3>2. R!Open' = R!Open \ {files[p].rt} /\ \A r \in R!Open' : rtPath'[r] = rtPath[r]
      BY <2>1, Zenon
    <3>3. Kept' = Kept \ {files[p].rt} /\ abandoned' \subseteq R!Open'
      BY <3>1, <3>2, ZenonT(30)
    <3> QED
      BY <3>2, <3>3, Zenon
  <2>3. rtPath' \in [R!Open' -> Path]
    BY <2>1, <2>2, Zenon
  <2>4. /\ files' \in [Path -> [rt : Runtime \cup {NoRuntime}, refs : Nat]]
        /\ \A q \in Path : files'[q] = IF q = p THEN [rt |-> NoRuntime, refs |-> 0] ELSE files[q]
    BY <2>1
  <2>5. /\ ownerLock' \in [Path -> Runtime \cup {NoRuntime}]
        /\ \A q \in Path : ownerLock'[q] = IF q = p THEN NoRuntime ELSE ownerLock[q]
    BY <2>1
  <2>6. \A q \in Path : files'[q].rt # NoRuntime => files'[q].rt \in Kept' /\ rtPath'[files'[q].rt] = q
    BY <2>2, <2>4, SMTT(30)
  <2>7. \A r \in Kept' : files'[rtPath'[r]].rt = r
    BY <2>2, <2>4, SMTT(30)
  <2> QED
    BY <1>3, <2>2, <2>3, <2>4, <2>5, <2>6, <2>7, SMTT(30)
<1> QED
  BY <1>2, <1>3

\* open with an entry takes one reference more.
LEMMA CountEffect ==
    ASSUME RegistryConstants, SettledRegistry, NEW p \in Path, files[p].rt # NoRuntime,
           files' = [files EXCEPT ![p].refs = @ + 1], UNCHANGED <<rtPath, ownerLock, abandoned>>
    PROVE  /\ SettledRegistry'
           /\ files'[p].refs = files[p].refs + 1 /\ files'[p].rt = files[p].rt
           /\ \A q \in Path \ {p} : files'[q] = files[q]
<1> USE DEF RegistryConstants, SettledRegistry, R!Open, Kept
<1>2. files'[p].rt = files[p].rt /\ files'[p].refs = files[p].refs + 1
  OBVIOUS
<1>3. \A q \in Path \ {p} : files'[q] = files[q]
  OBVIOUS
<1>4. files' \in [Path -> [rt : Runtime \cup {NoRuntime}, refs : Nat]]
  <2>1. files[p].refs + 1 \in Nat
    OBVIOUS
  <2> QED
    BY <2>1
<1>5. \A q \in Path : files'[q].rt = files[q].rt /\ (files'[q].refs = 0 <=> files[q].refs = 0)
  BY <1>2, <1>3
<1>6. R!Open' = R!Open /\ Kept' = Kept /\ \A r \in Kept : files'[rtPath'[r]].rt = r
  BY <1>5, Zenon
<1> QED
  BY <1>2, <1>3, <1>4, <1>5, <1>6, SMTT(30)

\* openRuntime adds a runtime of its path, and takes the lock of a file.
LEMMA OpenRuntimeEffect ==
    ASSUME RegistryConstants, SettledRegistry, NEW p \in Path, NEW r \in Runtime, files[p].rt = NoRuntime,
           R!openRuntime(p, r), abandoned' = abandoned
    PROVE  /\ R!Open' = R!Open \cup {r} /\ Kept' = Kept \cup {r} /\ r \notin R!Open /\ rtPath'[r] = p
           /\ \A x \in R!Open : rtPath'[x] = rtPath[x]
           /\ \A x \in Kept : rtPath[x] # p
           /\ rtPath' \in [R!Open' -> Path] /\ R!Open' \subseteq Runtime /\ abandoned' \subseteq R!Open'
           /\ ownerLock' \in [Path -> Runtime \cup {NoRuntime}]
           /\ \A q \in Path \ {Memory} : ownerLock'[q] = IF q = p THEN r ELSE ownerLock[q]
<1> USE DEF RegistryConstants, SettledRegistry, R!Open, Kept
<1>1. /\ r \notin R!Open
      /\ rtPath' = [x \in R!Open \cup {r} |-> IF x = r THEN p ELSE rtPath[x]]
      /\ ownerLock' = IF p = Memory THEN ownerLock ELSE [ownerLock EXCEPT ![p] = r]
  BY Zenon DEF R!openRuntime
<1>2. R!Open' = R!Open \cup {r} /\ rtPath'[r] = p /\ \A x \in R!Open : rtPath'[x] = rtPath[x]
  BY <1>1, ZenonT(30)
<1>3. Kept' = Kept \cup {r} /\ \A x \in Kept : rtPath[x] # p
  <2>1. Kept' = Kept \cup {r}
    <3>1. r \notin abandoned /\ abandoned' = abandoned
      BY <1>1
    <3> QED
      BY <1>2, <3>1, SMTT(30)
  <2>2. \A x \in Kept : x # NoRuntime /\ files[rtPath[x]].rt = x
    BY SMTT(30)
  <2> QED
    BY <2>1, <2>2, Zenon
<1>4. rtPath' \in [R!Open' -> Path]
  BY <1>1, <1>2, SMTT(30)
<1>5. /\ ownerLock' \in [Path -> Runtime \cup {NoRuntime}]
      /\ \A q \in Path \ {Memory} : ownerLock'[q] = IF q = p THEN r ELSE ownerLock[q]
  BY <1>1, SMTT(30)
<1> QED
  BY <1>1, <1>2, <1>3, <1>4, <1>5, ZenonT(30)

-----------------------------------------------------------------------------
\* The inductive invariant.
Inv == PortInv /\ RegistryInv /\ CountInv

\* A step that leaves the registry, the monitor and the holders alone ...
Quiet == port' = port /\ files' = files /\ ownerLock' = ownerLock /\ rtPath' = rtPath
         /\ abandoned' = abandoned /\ monitor' = monitor
         /\ (monitor # NoThread => at'[monitor] = at[monitor] /\ pc'[monitor] = pc[monitor])
         /\ \A w \in Child : holds(w)' = holds(w)

\* ... is every step but those of an opening and releasePort: calls and closes of
\* a port up to the release move no reference.
LEMMA QuietSteps ==
    ASSUME RegistryConstants, PortInv, NEW t \in Thread,
           \/ \E w \in Child : R!submit(t, w) \/ R!close(t, w)
           \/ R!run(t) \/ R!runReturns(t)
           \/ R!closeMark(t) \/ R!stopWorker(t) \/ R!stopReturns(t) \/ R!stopTimeout(t)
    PROVE  Quiet
<1> USE DEF RegistryConstants, PortInv, Closer, holds, R!closing, Quiet, R!registry
<1>1. ASSUME NEW w \in Child, R!submit(t, w) PROVE Quiet
  BY <1>1, Zenon DEF R!submit, R!gotoAt, R!workerVars, R!portVars
<1>2. ASSUME NEW w \in Child, R!close(t, w) PROVE Quiet
  BY <1>2, ZenonT(30) DEF R!close, R!gotoAt, R!workerVars, R!portVars
<1>3. CASE R!run(t)
  BY <1>3 DEF R!run, R!runEnter, R!goto, R!gotoAt, R!done, R!workerVars, R!portVars
<1>4. CASE R!runReturns(t)
  BY <1>4, Zenon DEF R!runReturns, R!runExit, R!gotoAt, R!done, R!portVars
<1>5. CASE R!closeMark(t)
  BY <1>5, Zenon DEF R!closeMark, R!goto, R!workerVars
<1>6. CASE R!stopWorker(t)
  BY <1>6 DEF R!stopWorker, R!stopEnter, R!goto, R!workerVars, R!portVars
<1>7. CASE R!stopReturns(t)
  BY <1>7, Zenon DEF R!stopReturns, R!stopExit, R!goto
<1>8. CASE R!stopTimeout(t)
  BY <1>8, Zenon DEF R!stopTimeout, R!goto, R!workerVars
<1> QED
  BY <1>1, <1>2, <1>3, <1>4, <1>5, <1>6, <1>7, <1>8, Zenon

\* A quiet step keeps the registry and the counts.
LEMMA QuietKeeps ==
    ASSUME RegistryInv, CountInv, Quiet PROVE RegistryInv' /\ CountInv'
<1>2. \A p : /\ Holders(p)' = Holders(p) /\ spawning(p)' = spawning(p)
             /\ opening(p)' = opening(p) /\ rtOf(p)' = rtOf(p)
  BY Zenon DEF Quiet, Holders, spawning, opening, rtOf
<1>1. RegistryInv'
  BY <1>2, Zenon DEF RegistryInv, Quiet, R!Open, Kept
<1>3. CountInv'
  BY <1>2, Zenon DEF CountInv, Quiet
<1> QED
  BY <1>1, <1>3, Zenon

\* The holders of a path are finitely many.
LEMMA HoldersFinite ==
    ASSUME RegistryConstants, NEW p PROVE IsFiniteSet(Holders(p)) /\ Cardinality(Holders(p)) \in Nat
<1>1. IsFiniteSet(Holders(p))
  BY FS_Subset, ZenonT(30) DEF Holders, RegistryConstants
<1> QED
  BY <1>1, FS_CardinalityType, Zenon

\* The path of a holder is counted.
LEMMA HolderCounted ==
    ASSUME RegistryConstants, CountInv, NEW w \in Child, holds(w)
    PROVE  port[w].path \in Path /\ files[port[w].path].refs >= 1 + spawning(port[w].path)
<1>1. port[w].path \in Path /\ w \in Holders(port[w].path)
  BY Zenon DEF CountInv, Holders
<1>2. Cardinality(Holders(port[w].path)) # 0 /\ Cardinality(Holders(port[w].path)) \in Nat
  BY <1>1, HoldersFinite, FS_EmptySet, Zenon
<1>3. spawning(port[w].path) \in {0, 1}
  BY Zenon DEF spawning
<1> QED
  BY <1>1, <1>2, <1>3 DEF CountInv

\* openFile and openMemory count the port before it is spawned, and a file without
\* an entry gets a runtime and its lock.
LEMMA OpenKeeps ==
    ASSUME RegistryConstants, Inv, NEW t \in Thread, NEW p \in Path, R!open(t, p)
    PROVE  RegistryInv' /\ CountInv'
<1>1. /\ monitor = NoThread /\ monitor' = t /\ t # NoThread /\ Settled /\ SettledRegistry
      /\ UNCHANGED <<port, abandoned>>
  <2>1. monitor = NoThread /\ monitor' = t /\ t # NoThread /\ UNCHANGED <<port, abandoned>>
    BY Zenon DEF R!open, R!portVars, RegistryConstants
  <2>2. Settled
    BY <2>1, Zenon DEF Settled, opening
  <2> QED
    BY <2>1, <2>2, RegistryWhenSettled, Zenon DEF Inv
<1>2. \A w \in Child : holds(w)' = holds(w)
  <2>1. pc[t] = "idle" /\ UNCHANGED <<state, portClosed>> /\ \E x \in {"opening", "spawn"} : R!gotoAt(t, x, p)
    BY Zenon DEF R!open, R!workerVars, R!portVars
  <2> QED
    BY <2>1, Zenon DEF Inv, PortInv, R!gotoAt, holds, R!closing, Closer
<1>3. \A q : Holders(q)' = Holders(q)
  BY <1>1, <1>2, Zenon DEF Holders
<1>4. \A q \in Path : spawning(q) = 0
  BY <1>1, Zenon DEF spawning
<1>5. ASSUME R!gotoAt(t, "spawn", p), SettledRegistry', files'[p].refs = files[p].refs + 1,
             files[p].refs > 0 => files'[p].rt = files[p].rt,
             \A q \in Path \ {p} : files'[q] = files[q]
      PROVE  RegistryInv' /\ CountInv'
  <2>1. pc'[t] = "spawn" /\ at'[t] = p
    BY <1>5, Zenon DEF R!gotoAt, Inv, PortInv
  <2>2. Settled' /\ \A q \in Path : spawning(q)' = IF q = p THEN 1 ELSE 0
    <3>1. "spawn" # "opening"
      OBVIOUS
    <3> QED
      BY <1>1, <2>1, <3>1, Zenon DEF Settled, opening, spawning
  <2>3. RegistryInv'
    BY <1>5, <2>2, RegistryWhenSettled, ZenonT(30)
  <2>4. ASSUME NEW q \in Path PROVE files'[q].refs = Cardinality(Holders(q)') + spawning(q)'
    <3>1. files[q].refs = Cardinality(Holders(q)) + 0
      BY <1>4, Zenon DEF Inv, CountInv
    <3>2. Cardinality(Holders(q)) \in Nat /\ Holders(q)' = Holders(q)
      BY <1>3, HoldersFinite, Zenon
    <3>3. files'[q].refs = files[q].refs + spawning(q)'
      <4>1. CASE q = p
        BY <1>5, <2>2, <4>1, Zenon
      <4>2. CASE q # p
        <5>1. files'[q] = files[q] /\ spawning(q)' = 0
          BY <1>5, <2>2, <4>2, Zenon
        <5>2. files[q].refs \in Nat
          BY <3>1, <3>2
        <5> QED
          BY <5>1, <5>2
      <4> QED
        BY <4>1, <4>2, Zenon
    <3> QED
      BY <3>1, <3>2, <3>3
  <2>5. ASSUME NEW w \in Child, holds(w)' PROVE port'[w].rt = files'[port'[w].path].rt
    <3>1. port[w].path \in Path /\ files[port[w].path].refs >= 1
      BY <1>2, <1>4, <2>5, HolderCounted, SMTT(30) DEF Inv
    <3>2. files[p].refs \in Nat
      BY Zenon DEF Inv, RegistryInv
    <3> QED
      BY <1>1, <1>2, <1>5, <2>5, <3>1, <3>2, SMTT(30) DEF Inv, CountInv
  <2>6. \A w \in Child : port'[w].rt \notin abandoned' /\ \A q \in Path : ~opening(q)'
    BY <1>1, <2>2, Zenon DEF Inv, CountInv, Settled
  <2> QED
    BY <1>1, <2>3, <2>4, <2>5, <2>6, Zenon DEF Inv, CountInv
<1>6. CASE files[p].rt # NoRuntime
  <2>1. /\ files' = [files EXCEPT ![p].refs = @ + 1] /\ R!gotoAt(t, "spawn", p)
        /\ UNCHANGED <<rtPath, ownerLock, abandoned>>
    BY <1>1, <1>6, Zenon DEF R!open
  <2> QED
    BY <1>1, <1>5, <1>6, <2>1, CountEffect, ZenonT(30)
<1>7. CASE files[p].rt = NoRuntime
  <2>1. PICK r \in Runtime :
           /\ R!openRuntime(p, r)
           /\ IF p = Memory
              THEN /\ files' = [files EXCEPT ![p] = [rt |-> r, refs |-> @.refs + 1]]
                   /\ R!gotoAt(t, "spawn", p)
              ELSE R!gotoAt(t, "opening", p) /\ UNCHANGED files
    BY <1>7, Zenon DEF R!open
  <2>2. /\ R!Open' = R!Open \cup {r} /\ Kept' = Kept \cup {r} /\ r \notin R!Open /\ rtPath'[r] = p
        /\ \A x \in R!Open : rtPath'[x] = rtPath[x]
        /\ \A x \in Kept : rtPath[x] # p
        /\ rtPath' \in [R!Open' -> Path] /\ R!Open' \subseteq Runtime /\ abandoned' \subseteq R!Open'
        /\ ownerLock' \in [Path -> Runtime \cup {NoRuntime}]
        /\ \A q \in Path \ {Memory} : ownerLock'[q] = IF q = p THEN r ELSE ownerLock[q]
    BY <1>1, <1>7, <2>1, OpenRuntimeEffect, Zenon
  <2>3. r # NoRuntime /\ Kept \subseteq R!Open /\ \A x \in R!Open : rtPath[x] \in Path
    BY <1>1, Zenon DEF RegistryConstants, Kept, SettledRegistry
  <2>4. CASE p = Memory
    <3>1. files[p].refs = 0
      BY <1>1, <1>7, ZenonT(30) DEF SettledRegistry
    <3>2. /\ files' \in [Path -> [rt : Runtime \cup {NoRuntime}, refs : Nat]]
          /\ \A q \in Path : files'[q] = IF q = p THEN [rt |-> r, refs |-> 1] ELSE files[q]
      BY <1>1, <2>1, <2>4, <3>1, SMTT(30) DEF SettledRegistry
    <3>3. SettledRegistry'
      BY <1>1, <2>2, <2>3, <2>4, <3>2, SMTT(30) DEF SettledRegistry
    <3>4. files'[p].refs = files[p].refs + 1
      BY <3>1, <3>2, SMTT(30)
    <3> QED
      BY <1>5, <2>1, <2>4, <3>1, <3>2, <3>3, <3>4, SMTT(30)
  <2>5. CASE p # Memory
    <3>1. pc'[t] = "opening" /\ at'[t] = p /\ files' = files
      BY <2>1, <2>5, Zenon DEF R!gotoAt, Inv, PortInv
    <3>2. \A q : /\ opening(q)' <=> q = p
                 /\ spawning(q)' = 0
                 /\ rtOf(q)' = IF q = p THEN ownerLock'[p] ELSE files[q].rt
      <4>1. "spawn" # "opening"
        OBVIOUS
      <4> QED
        BY <1>1, <3>1, <4>1, Zenon DEF opening, spawning, rtOf
    <3>3. ownerLock'[p] = r
      BY <2>2, <2>5, Zenon
    <3>4. \A q \in Path : rtOf(q)' # NoRuntime => rtOf(q)' \in Kept' /\ rtPath'[rtOf(q)'] = q
      BY <1>1, <2>2, <2>3, <3>2, <3>3, Zenon DEF SettledRegistry
    <3>5. ASSUME NEW x \in Kept', NEW q \in Path, q = rtPath'[x] PROVE rtOf(q)' = x
      <4>1. CASE x = r
        BY <2>2, <3>2, <3>3, <3>5, <4>1, Zenon
      <4>2. CASE x # r
        <5>1. x \in Kept /\ q = rtPath[x] /\ q # p /\ files[q].rt = x
          BY <1>1, <2>2, <2>3, <3>5, <4>2, ZenonT(30) DEF SettledRegistry
        <5> QED
          BY <3>2, <5>1, Zenon
      <4> QED
        BY <4>1, <4>2, Zenon
    <3>6. \A q \in Path \ {Memory} : ownerLock'[q] = rtOf(q)'
      BY <1>1, <2>2, <3>2, <3>3, Zenon DEF SettledRegistry
    <3>7. RegistryInv'
      <4>1. \A x \in Kept' : rtPath'[x] \in Path
        BY <2>2, Zenon DEF Kept
      <4>2. \A x \in Kept' : rtOf(rtPath[x])' = x
        BY <3>5, <4>1, Zenon
      <4>3. /\ files' \in [Path -> [rt : Runtime \cup {NoRuntime}, refs : Nat]]
            /\ \A q \in Path : files'[q].rt = NoRuntime <=> files'[q].refs = 0
        BY <1>1, <3>1, Zenon DEF SettledRegistry
      <4>4. \A q \in Path : opening(q)' => q # Memory /\ files'[q].rt = NoRuntime /\ ownerLock'[q] # NoRuntime
        BY <1>7, <2>3, <2>5, <3>1, <3>2, <3>3, ZenonT(30)
      <4> QED
        BY <2>2, <3>4, <3>6, <4>2, <4>3, <4>4, Zenon DEF RegistryInv
    <3>8. CountInv'
      BY <1>1, <1>2, <1>3, <1>4, <2>1, <3>1, <3>2, <3>3, ZenonT(30) DEF Inv, CountInv, R!openRuntime
    <3> QED
      BY <3>7, <3>8, Zenon
  <2> QED
    BY <2>4, <2>5, Zenon
<1> QED
  BY <1>6, <1>7, Zenon

\* The entry of a runtime that was opened has the count of the port to be spawned.
LEMMA OpenedKeeps ==
    ASSUME RegistryConstants, Inv, NEW t \in Thread, R!opened(t)
    PROVE  RegistryInv' /\ CountInv'
<1>0. PICK p \in Path : p = at[t]
  BY Zenon DEF Inv, PortInv, R!opened
<1>1. /\ monitor = t /\ t # NoThread /\ pc[t] = "opening" /\ UNCHANGED <<monitor, at, rtPath, ownerLock>>
      /\ UNCHANGED <<state, port, portClosed, abandoned>> /\ pc' = [pc EXCEPT ![t] = "spawn"]
      /\ files' = [files EXCEPT ![p] = [rt |-> ownerLock[p], refs |-> 1]]
  BY <1>0, Zenon DEF Inv, PortInv, RegistryConstants, R!opened, R!goto, R!workerVars, R!portVars
<1>2. \A w \in Child : holds(w)' = holds(w)
  BY <1>1, Zenon DEF Inv, PortInv, holds, R!closing, Closer
<1>3. \A q : Holders(q)' = Holders(q)
  BY <1>1, <1>2, Zenon DEF Holders
<1>4. pc'[t] = "spawn" /\ "spawn" # "opening" /\ at'[t] = p
  BY <1>0, <1>1, Zenon DEF Inv, PortInv
<1>5. Settled' /\ \A q : /\ opening(q) <=> q = p
                         /\ spawning(q) = 0
                         /\ spawning(q)' = IF q = p THEN 1 ELSE 0
  BY <1>0, <1>1, <1>4, Zenon DEF Settled, opening, spawning
<1>6. /\ p # Memory /\ files[p].rt = NoRuntime /\ ownerLock[p] # NoRuntime
      /\ files[p].refs = 0 /\ ownerLock[p] \in Runtime
  BY <1>5, Zenon DEF Inv, RegistryInv
<1>7. /\ files' \in [Path -> [rt : Runtime \cup {NoRuntime}, refs : Nat]]
      /\ \A q \in Path : files'[q] = IF q = p THEN [rt |-> ownerLock[p], refs |-> 1] ELSE files[q]
  BY <1>1, <1>6, SMTT(30) DEF Inv, RegistryInv
<1>8. \A q \in Path : files'[q].rt = rtOf(q)
  BY <1>5, <1>7, SMTT(30) DEF rtOf
<1>9. R!Open' = R!Open /\ Kept' = Kept
  BY <1>1, Zenon DEF R!Open, Kept
<1>10. SettledRegistry'
  <2>1. \A q \in Path : files'[q].rt = NoRuntime <=> files'[q].refs = 0
    BY <1>6, <1>7, SMTT(30) DEF Inv, RegistryInv
  <2>2. /\ \A q \in Path : files'[q].rt # NoRuntime => files'[q].rt \in Kept' /\ rtPath'[files'[q].rt] = q
        /\ \A q \in Path \ {Memory} : ownerLock'[q] = files'[q].rt
    BY <1>1, <1>8, <1>9, ZenonT(30) DEF Inv, RegistryInv
  <2>3. \A r \in Kept' : files'[rtPath'[r]].rt = r
    BY <1>1, <1>8, <1>9, Zenon DEF Inv, RegistryInv, Kept
  <2> QED
    BY <1>1, <1>7, <1>9, <2>1, <2>2, <2>3, ZenonT(30) DEF Inv, RegistryInv, SettledRegistry
<1>11. RegistryInv'
  BY <1>5, <1>10, RegistryWhenSettled, Zenon
<1>12. ASSUME NEW q \in Path PROVE files'[q].refs = Cardinality(Holders(q)') + spawning(q)'
  BY <1>3, <1>5, <1>6, <1>7, <1>12, HoldersFinite, SMTT(30) DEF Inv, CountInv
<1>13. ASSUME NEW w \in Child, holds(w)' PROVE port'[w].rt = files'[port'[w].path].rt
  <2>1. port[w].path \in Path /\ files[port[w].path].refs >= 1
    BY <1>2, <1>5, <1>13, HolderCounted, SMTT(30) DEF Inv
  <2>2. port[w].path # p
    BY <1>6, <2>1
  <2> QED
    BY <1>1, <1>2, <1>7, <1>13, <2>1, <2>2, ZenonT(30) DEF Inv, CountInv
<1>14. \A w \in Child : port'[w].rt \notin abandoned' /\ \A q \in Path : ~opening(q)'
  BY <1>1, <1>5, Zenon DEF Inv, CountInv, Settled
<1> QED
  BY <1>1, <1>11, <1>12, <1>13, <1>14, ZenonT(30) DEF Inv, CountInv

\* openRuntime throws: the lock is free again, and the runtime is nobody's.
LEMMA OpenFailsKeeps ==
    ASSUME RegistryConstants, Inv, NEW t \in Thread, R!openFails(t)
    PROVE  RegistryInv' /\ CountInv'
<1>0. PICK p \in Path : p = at[t]
  BY Zenon DEF Inv, PortInv, R!openFails
<1>1. /\ monitor = t /\ t # NoThread /\ pc[t] = "opening" /\ monitor' = NoThread
      /\ UNCHANGED <<state, port, portClosed, files, rtPath>>
      /\ pc' = [pc EXCEPT ![t] = "idle"] /\ at' = [at EXCEPT ![t] = Nothing]
      /\ ownerLock' = [ownerLock EXCEPT ![p] = NoRuntime] /\ abandoned' = abandoned \cup {ownerLock[p]}
  BY <1>0, Zenon DEF Inv, PortInv, RegistryConstants, R!openFails, R!done, R!gotoAt, R!workerVars
<1>2. \A w \in Child : holds(w)' = holds(w)
  BY <1>1, Zenon DEF Inv, PortInv, holds, R!closing, Closer
<1>3. \A q : Holders(q)' = Holders(q)
  BY <1>1, <1>2, Zenon DEF Holders
<1>4. Settled' /\ \A q : opening(q) <=> q = p
  BY <1>0, <1>1, Zenon DEF Settled, opening
<1>5. \A q : spawning(q) = 0 /\ spawning(q)' = 0
  <2>1. "spawn" # "opening"
    OBVIOUS
  <2> QED
    BY <1>1, <2>1, Zenon DEF spawning
<1>6. p # Memory /\ files[p].rt = NoRuntime /\ ownerLock[p] \in Kept /\ rtPath[ownerLock[p]] = p
  BY <1>4, Zenon DEF Inv, RegistryInv, rtOf
<1>7. R!Open' = R!Open /\ Kept' = Kept \ {ownerLock[p]} /\ abandoned' \subseteq R!Open
  BY <1>1, <1>6, Zenon DEF R!Open, Kept, Inv, RegistryInv
<1>8. /\ ownerLock' \in [Path -> Runtime \cup {NoRuntime}]
      /\ \A q \in Path : ownerLock'[q] = IF q = p THEN NoRuntime ELSE ownerLock[q]
  BY <1>1, Zenon DEF Inv, RegistryInv
<1>9. \A q \in Path \ {p} : rtOf(q) = files[q].rt
  BY <1>4, Zenon DEF rtOf
<1>10. SettledRegistry'
  <2>1. ASSUME NEW q \in Path, files[q].rt # NoRuntime
        PROVE  files[q].rt \in Kept' /\ rtPath[files[q].rt] = q
    <3>1. q # p /\ rtOf(q) = files[q].rt
      BY <1>6, <1>9, <2>1, Zenon
    <3>2. files[q].rt \in Kept /\ rtPath[files[q].rt] = q
      BY <2>1, <3>1, Zenon DEF Inv, RegistryInv
    <3> QED
      BY <1>6, <1>7, <3>1, <3>2, Zenon
  <2>2. \A q \in Path \ {Memory} : ownerLock'[q] = files'[q].rt
    BY <1>1, <1>6, <1>8, <1>9, Zenon DEF Inv, RegistryInv
  <2>3. ASSUME NEW r \in Kept' PROVE files'[rtPath'[r]].rt = r
    <3>1. r \in Kept /\ rtPath[r] \in Path /\ rtOf(rtPath[r]) = r
      BY <1>7, Zenon DEF Inv, RegistryInv, Kept
    <3>2. rtPath[r] # p
      BY <1>4, <1>7, <3>1, Zenon DEF rtOf
    <3> QED
      BY <1>1, <1>9, <3>1, <3>2, Zenon
  <2> QED
    BY <1>1, <1>7, <1>8, <2>1, <2>2, <2>3, Zenon DEF Inv, RegistryInv, SettledRegistry
<1>11. RegistryInv'
  BY <1>4, <1>10, RegistryWhenSettled, Zenon
<1>12. \A w \in Child : port'[w].rt \notin abandoned' /\ \A q \in Path : ~opening(q)'
  BY <1>1, <1>4, Zenon DEF Inv, CountInv, Settled
<1>13. \A q \in Path : files'[q].refs = Cardinality(Holders(q)') + spawning(q)'
  <2>1. \A q \in Path : files[q].refs = Cardinality(Holders(q)) + spawning(q)
    BY Zenon DEF Inv, CountInv
  <2>2. \A q : Cardinality(Holders(q)') = Cardinality(Holders(q)) /\ spawning(q)' = spawning(q)
    BY <1>3, <1>5, Zenon
  <2> QED
    BY <1>1, <2>1, <2>2, Zenon
<1>14. \A w \in Child : holds(w)' => port'[w].rt = files'[port'[w].path].rt
  BY <1>1, <1>2, Zenon DEF Inv, CountInv
<1> QED
  BY <1>1, <1>11, <1>12, <1>13, <1>14, Zenon DEF Inv, CountInv

\* The port that is returned takes over the count of its spawn.
LEMMA SpawnedKeeps ==
    ASSUME RegistryConstants, Inv, NEW t \in Thread, NEW w \in Child, R!spawned(t, w)
    PROVE  RegistryInv' /\ CountInv'
<1>0. PICK p \in Path : p = at[t]
  BY Zenon DEF Inv, PortInv, R!spawned
<1>1. /\ monitor = t /\ pc[t] = "spawn" /\ "spawn" # "opening" /\ monitor' = NoThread
      /\ files[p] \in [rt : Runtime \cup {NoRuntime}, refs : Nat]
  BY <1>0, Zenon DEF Inv, PortInv, RegistryInv, R!spawned
<1>2. files' = files /\ ownerLock' = ownerLock /\ rtPath' = rtPath /\ abandoned' = abandoned
  BY Zenon DEF R!spawned, R!registry
<1>s. Settled /\ Settled'
  BY <1>1, Zenon DEF Settled, opening
<1>r. SettledRegistry
  BY <1>s, RegistryWhenSettled, Zenon DEF Inv
<1>3. RegistryInv'
  <2>1. SettledRegistry'
    BY <1>2, <1>r, Zenon DEF SettledRegistry, R!Open, Kept
  <2> QED
    BY <1>s, <2>1, RegistryWhenSettled, Zenon
<1>4. ~holds(w) /\ holds(w)' /\ \A v \in Child \ {w} : holds(v)' = holds(v)
  BY ZenonT(30) DEF Inv, PortInv, RegistryConstants, R!spawned, R!publish, R!done, R!gotoAt, holds, R!closing, Closer
<1>5. /\ port'[w] = [rt |-> files[p].rt, path |-> p]
      /\ \A v \in Child \ {w} : port'[v] = port[v]
      /\ port' \in [Child -> [rt : Runtime \cup {NoRuntime}, path : Path]]
  BY <1>0, <1>1, Zenon DEF Inv, CountInv, R!spawned
<1>6. w \notin Holders(p) /\ Holders(p)' = Holders(p) \cup {w}
  BY <1>4, <1>5, SMTT(30) DEF Holders
<1>7. \A q \in Path \ {p} : Holders(q)' = Holders(q)
  BY <1>4, <1>5 DEF Holders
<1>8. \A q \in Path : spawning(q)' = 0 /\ spawning(q) = IF q = p THEN 1 ELSE 0
  BY <1>0, <1>1, Zenon DEF RegistryConstants, PortInv, Inv, spawning
<1>9. Cardinality(Holders(p)') = Cardinality(Holders(p)) + 1
  BY <1>6, HoldersFinite, FS_AddElement, ZenonT(30)
<1>10. ASSUME NEW q \in Path PROVE files'[q].refs = Cardinality(Holders(q)') + spawning(q)'
  BY <1>1, <1>2, <1>7, <1>8, <1>9, <1>10, HoldersFinite, SMTT(30) DEF Inv, CountInv
<1>11. \A v \in Child : holds(v)' => port'[v].rt = files'[port'[v].path].rt
  BY <1>2, <1>4, <1>5 DEF Inv, CountInv
<1>12. \A v \in Child : port'[v].rt \notin abandoned' /\ \A q \in Path : ~opening(q)'
  <2>1. port'[w].rt = files[p].rt
    BY <1>5
  <2>2. files[p].rt \notin abandoned
    <3>1. NoRuntime \notin abandoned
      BY <1>r, Zenon DEF SettledRegistry, RegistryConstants
    <3>2. files[p].rt # NoRuntime => files[p].rt \notin abandoned
      BY <1>r, Zenon DEF SettledRegistry, Kept
    <3> QED
      BY <3>1, <3>2, Zenon
  <2> QED
    BY <1>2, <1>5, <1>s, <2>1, <2>2, ZenonT(30) DEF Inv, CountInv, Settled
<1> QED
  BY <1>3, <1>5, <1>10, <1>11, <1>12, Zenon DEF CountInv

\* A spawn that throws gives the count back.
LEMMA SpawnFailsKeeps ==
    ASSUME RegistryConstants, Inv, NEW t \in Thread, R!spawnFails(t)
    PROVE  RegistryInv' /\ CountInv'
<1>0. PICK p \in Path : p = at[t]
  BY Zenon DEF Inv, PortInv, R!spawnFails
<1>1. /\ monitor = t /\ pc[t] = "spawn" /\ "spawn" # "opening" /\ monitor' = NoThread
      /\ abandoned' = abandoned
  BY Zenon DEF Inv, PortInv, R!spawnFails, R!portVars
<1>s. Settled /\ Settled'
  BY <1>1, Zenon DEF Settled, opening
<1>2. \A q \in Path : spawning(q)' = 0 /\ spawning(q) = IF q = p THEN 1 ELSE 0
  BY <1>0, <1>1, Zenon DEF RegistryConstants, spawning
<1>3. files[p].refs >= 1
  BY <1>1, <1>2, HoldersFinite DEF Inv, CountInv
<1>4. /\ RegistryInv'
      /\ files'[p].refs = files[p].refs - 1
      /\ files[p].refs > 1 => files'[p].rt = files[p].rt
      /\ \A q \in Path \ {p} : files'[q] = files[q]
  <2>1. R!release(p) /\ SettledRegistry
    BY <1>0, <1>s, RegistryWhenSettled, Zenon DEF R!spawnFails, Inv
  <2> QED
    BY <1>1, <1>3, <1>s, <2>1, ReleaseEffect, RegistryWhenSettled, Zenon
<1>5. port' = port /\ \A w \in Child : holds(w)' = holds(w)
  BY Zenon DEF Inv, PortInv, RegistryConstants, R!spawnFails, R!done, R!gotoAt, R!workerVars,
     R!portVars, holds, R!closing, Closer
<1>6. \A q : Holders(q)' = Holders(q)
  BY <1>5, ZenonT(30) DEF Holders
<1>7. ASSUME NEW q \in Path PROVE files'[q].refs = Cardinality(Holders(q)') + spawning(q)'
  BY <1>2, <1>4, <1>6, <1>7, HoldersFinite, SMTT(30) DEF Inv, CountInv
<1>8. ASSUME NEW w \in Child, holds(w)' PROVE port'[w].rt = files'[port'[w].path].rt
  <2>1. port[w].path \in Path /\ (port[w].path = p => files[p].refs > 1)
    <3>1. port[w].path \in Path /\ files[port[w].path].refs >= 1 + spawning(port[w].path)
      BY <1>5, <1>8, HolderCounted, Zenon DEF Inv
    <3>2. files[p].refs \in Nat
      BY <1>1, Zenon DEF Inv, RegistryInv
    <3> QED
      BY <1>2, <3>1, <3>2
  <2> QED
    BY <1>4, <1>5, <1>8, <2>1, Zenon DEF Inv, CountInv
<1> QED
  BY <1>1, <1>s, <1>4, <1>5, <1>7, <1>8, Zenon DEF Inv, CountInv, Settled

\* releaseFile and releaseMemory give back the reference of a port that holds it,
\* and after it the port holds none.
LEMMA ReleaseKeeps ==
    ASSUME RegistryConstants, Inv, NEW t \in Thread, R!releasePort(t)
    PROVE  RegistryInv' /\ CountInv'
<1>w. PICK w \in Child : w = at[t]
  BY Zenon DEF Inv, PortInv, Closer, R!releasePort
<1>p. PICK p \in Path : p = port[w].path
  BY Zenon DEF Inv, CountInv
<1>1. monitor = NoThread /\ monitor' = monitor /\ abandoned' = abandoned /\ holds(w)
  BY <1>w, Zenon DEF Inv, PortInv, Closer, R!releasePort, R!portVars, holds, R!closing
<1>s. Settled /\ Settled'
  BY <1>1, Zenon DEF Settled, opening
<1>2. \A q \in Path : spawning(q)' = 0 /\ spawning(q) = 0
  BY <1>1, Zenon DEF spawning
<1>3. files[p].refs >= 1
  BY <1>p, <1>1, <1>2, HolderCounted DEF Inv
<1>4. /\ RegistryInv'
      /\ files'[p].refs = files[p].refs - 1
      /\ files[p].refs > 1 => files'[p].rt = files[p].rt
      /\ \A q \in Path \ {p} : files'[q] = files[q]
  <2>1. R!release(p) /\ SettledRegistry
    BY <1>w, <1>p, <1>s, RegistryWhenSettled, Zenon DEF R!releasePort, Inv
  <2> QED
    BY <1>1, <1>3, <1>s, <2>1, ReleaseEffect, RegistryWhenSettled, Zenon
<1>5. port' = port /\ ~holds(w)' /\ \A v \in Child \ {w} : holds(v)' = holds(v)
  BY <1>w, <1>1, Zenon DEF Inv, PortInv, RegistryConstants, R!releasePort, R!done, R!gotoAt, R!workerVars,
     R!portVars, holds, R!closing, Closer
<1>6. w \in Holders(p) /\ Holders(p)' = Holders(p) \ {w}
  BY <1>p, <1>1, <1>5, Zenon DEF Holders
<1>7. \A q \in Path \ {p} : Holders(q)' = Holders(q)
  BY <1>p, <1>5, Zenon DEF Holders
<1>8. Cardinality(Holders(p)') = Cardinality(Holders(p)) - 1
  BY <1>6, HoldersFinite, FS_RemoveElement, ZenonT(30)
<1>9. ASSUME NEW q \in Path PROVE files'[q].refs = Cardinality(Holders(q)') + spawning(q)'
  BY <1>2, <1>3, <1>4, <1>7, <1>8, <1>9, HoldersFinite, SMTT(30) DEF Inv, CountInv
<1>10. ASSUME NEW v \in Child, holds(v)' PROVE port'[v].rt = files'[port'[v].path].rt
  <2>1. v # w /\ holds(v) /\ port[v].path \in Path
    BY <1>5, <1>10, Zenon DEF Inv, CountInv
  <2>2. CASE port[v].path # p
    BY <1>4, <1>5, <2>1, <2>2, Zenon DEF Inv, CountInv
  <2>3. CASE port[v].path = p
    <3>1. v \in Holders(p)'
      BY <1>5, <1>10, <2>3, Zenon DEF Holders
    <3>2. IsFiniteSet(Holders(p)') /\ Cardinality(Holders(p)') # 0 /\ Cardinality(Holders(p)') \in Nat
      BY <1>6, <3>1, HoldersFinite, FS_RemoveElement, FS_CardinalityType, FS_EmptySet, SMTT(30)
    <3>3. files[p].refs > 1
      BY <1>2, <1>3, <1>8, <3>2, HoldersFinite, SMTT(30) DEF Inv, CountInv
    <3> QED
      BY <1>4, <1>5, <2>1, <2>3, <3>3, Zenon DEF Inv, CountInv
  <2> QED
    BY <2>2, <2>3, Zenon
<1> QED
  BY <1>1, <1>s, <1>4, <1>5, <1>9, <1>10, Zenon DEF Inv, CountInv, Settled

-----------------------------------------------------------------------------
\* The first state has no port, no runtime and no count.
LEMMA RegistryStart == ASSUME RegistryConstants, R!Init PROVE Inv
<1>1. PortInv
  BY Zenon DEF R!Init, R!WorkerInit, PortInv, RegistryConstants, Closer, holds
<1>2. RegistryInv
  <2>1. R!Open = {}
    BY DEF R!Init, R!Open
  <2>2. rtPath \in [R!Open -> Path]
    BY <2>1 DEF R!Init, R!Open
  <2>3. Settled
    BY Zenon DEF R!Init, Settled, opening
  <2>4. SettledRegistry
    BY <2>1, <2>2, Zenon DEF R!Init, R!Absent, SettledRegistry, Kept
  <2> QED
    BY <2>3, <2>4, RegistryWhenSettled, Zenon
<1>3. \A p \in Path : Holders(p) = {} /\ spawning(p) = 0
  BY Zenon DEF R!Init, R!WorkerInit, Holders, holds, spawning
<1>4. CountInv
  <2>1. port \in [Child -> [rt : Runtime \cup {NoRuntime}, path : Path]]
    BY Zenon DEF R!Init, R!NoPort, RegistryConstants
  <2>2. \A p \in Path : files[p].refs = Cardinality(Holders(p)) + spawning(p)
    <3>1. \A p \in Path : files[p].refs = 0
      BY Zenon DEF R!Init, R!Absent
    <3>2. Cardinality({}) = 0
      BY FS_EmptySet, Zenon
    <3> QED
      BY <1>3, <3>1, <3>2
  <2>3. \A w \in Child : ~holds(w)
    BY Zenon DEF R!Init, R!WorkerInit, holds
  <2>4. abandoned = {} /\ \A p \in Path : ~opening(p)
    BY Zenon DEF R!Init, opening
  <2> QED
    BY <2>1, <2>2, <2>3, <2>4, Zenon DEF CountInv
<1> QED
  BY <1>1, <1>2, <1>4, Zenon DEF Inv

\* Every step keeps the counts.
LEMMA RegistryStep == ASSUME RegistryConstants, Inv, [R!Next]_R!vars PROVE Inv'
<1>1. PortInv'
  BY PortStep, Zenon DEF Inv
<1>2. CASE UNCHANGED R!vars
  <2>1. Quiet
    BY <1>2, Zenon DEF R!vars, R!workerVars, R!portVars, R!registry, Quiet, holds, R!closing
  <2> QED
    BY <1>1, <2>1, QuietKeeps, Zenon DEF Inv
<1>3. CASE R!Next
  <2>1. PICK t \in Thread :
          \/ \E p \in Path : R!open(t, p)
          \/ \E w \in Child : R!spawned(t, w) \/ R!submit(t, w) \/ R!close(t, w)
          \/ R!opened(t) \/ R!openFails(t) \/ R!spawnFails(t) \/ R!run(t) \/ R!runReturns(t)
          \/ R!closeMark(t) \/ R!stopWorker(t) \/ R!stopReturns(t) \/ R!stopTimeout(t) \/ R!releasePort(t)
    BY <1>3, Zenon DEF R!Next
  <2>2. ASSUME NEW p \in Path, R!open(t, p) PROVE RegistryInv' /\ CountInv'
    BY <2>2, OpenKeeps, Zenon
  <2>3. ASSUME NEW w \in Child, R!spawned(t, w) PROVE RegistryInv' /\ CountInv'
    BY <2>3, SpawnedKeeps, Zenon
  <2>4. CASE R!spawnFails(t)
    BY <1>1, <2>4, SpawnFailsKeeps, Zenon DEF Inv
  <2>a. CASE R!opened(t)
    BY <1>1, <2>a, OpenedKeeps, Zenon DEF Inv
  <2>b. CASE R!openFails(t)
    BY <1>1, <2>b, OpenFailsKeeps, Zenon DEF Inv
  <2>5. CASE R!releasePort(t)
    BY <1>1, <2>5, ReleaseKeeps, Zenon DEF Inv
  <2>6. CASE \/ \E w \in Child : R!submit(t, w) \/ R!close(t, w)
             \/ R!run(t) \/ R!runReturns(t)
             \/ R!closeMark(t) \/ R!stopWorker(t) \/ R!stopReturns(t) \/ R!stopTimeout(t)
    BY <1>1, <2>6, QuietSteps, QuietKeeps, Zenon DEF Inv
  <2> QED
    BY <1>1, <2>1, <2>2, <2>a, <2>b, <2>3, <2>4, <2>5, <2>6, Zenon DEF Inv
<1> QED
  BY <1>2, <1>3, Zenon

\* "Stop the worker ..., then give the runtime reference back" (WorkerDbPort.close):
\* whatever the ports and the order they are opened and closed in, the runtime of
\* a port stays open until its worker is stopped, or until the stop has failed.
THEOREM RuntimeKeptForPorts == ASSUME RegistryConstants PROVE R!Spec => []LivePortOnOpenRuntime
<1>1. R!Init => Inv
  BY RegistryStart, Zenon
<1>2. Inv /\ [R!Next]_R!vars => Inv'
  BY RegistryStep, Zenon
<1>3. Inv => LivePortOnOpenRuntime
  <2> SUFFICES ASSUME Inv, NEW w \in Child \ stopFailed, state[w] \in {"live", "closing"}
               PROVE  port[w].rt \in R!Open /\ files[port[w].path].rt = port[w].rt
    BY Zenon DEF LivePortOnOpenRuntime, R!LivePortOnOpenRuntime
  <2>1. holds(w)
    BY Zenon DEF Inv, PortInv
  <2>2. port[w].path \in Path /\ files[port[w].path].refs >= 1 + spawning(port[w].path)
    BY <2>1, HolderCounted, Zenon DEF Inv
  <2>3. files[port[w].path].refs # 0
    BY <2>2 DEF spawning
  <2>4. rtOf(port[w].path) = files[port[w].path].rt /\ files[port[w].path].rt # NoRuntime
    BY <2>2, <2>3, Zenon DEF rtOf, Inv, RegistryInv
  <2>5. files[port[w].path].rt \in R!Open
    <3>1. \A p \in Path : rtOf(p) # NoRuntime => rtOf(p) \in R!Open
      BY Zenon DEF Inv, RegistryInv, Kept
    <3> QED
      BY <2>2, <2>4, <3>1, Zenon
  <2>6. port[w].rt = files[port[w].path].rt
    BY <2>1, Zenon DEF Inv, CountInv
  <2> QED
    BY <2>5, <2>6, Zenon
<1> QED
  BY <1>1, <1>2, <1>3, PTL DEF R!Spec

\* An owner lock, and a runtime that was opened, is never kept without a port that
\* will give it back, whichever open, spawn or stop fails; a runtime whose opening
\* has failed (openRuntime does not close it) has no lock and no port.
THEOREM LocksReleased == ASSUME RegistryConstants PROVE R!Spec => []NoLockLeak
<1>1. R!Init => Inv
  BY RegistryStart, Zenon
<1>2. Inv /\ [R!Next]_R!vars => Inv'
  BY RegistryStep, Zenon
<1>3. Inv => NoLockLeak
  <2> SUFFICES ASSUME Inv PROVE NoLockLeak
    BY Zenon
  <2>1. ASSUME NEW r \in Kept
        PROVE  \/ \E w \in Child : port[w].rt = r /\ (~portClosed[w] \/ R!closing(w))
               \/ \E t \in Thread : pc[t] \in {"opening", "spawn"} /\ at[t] = rtPath[r]
    <3>1. PICK p \in Path : p = rtPath[r] /\ rtOf(p) = r
      BY <2>1, Zenon DEF Inv, RegistryInv, Kept
    <3>2. CASE opening(p) \/ spawning(p) # 0
      <4>1. monitor \in Thread /\ at[monitor] = p /\ pc[monitor] \in {"opening", "spawn"}
        BY <3>2, Zenon DEF opening, spawning, Inv, PortInv
      <4> QED
        BY <3>1, <4>1, Zenon
    <3>3. CASE ~opening(p) /\ spawning(p) = 0
      <4>1. files[p].rt = r /\ files[p].refs # 0
        <5>1. r \in Runtime
          BY Zenon DEF Inv, RegistryInv, Kept
        <5> QED
          BY <3>1, <3>3, <5>1, Zenon DEF rtOf, Inv, RegistryInv, RegistryConstants
      <4>2. Cardinality(Holders(p)) # 0
        BY <3>3, <4>1, HoldersFinite DEF Inv, CountInv
      <4>3. PICK w \in Holders(p) : TRUE
        BY <4>2, FS_EmptySet, Zenon
      <4> QED
        BY <4>1, <4>3, Zenon DEF Holders, holds, Inv, CountInv
    <3> QED
      BY <3>2, <3>3, Zenon
  <2>2. \A p \in Path \ {Memory} : ownerLock[p] # NoRuntime => ownerLock[p] \in Kept
    BY Zenon DEF Inv, RegistryInv
  <2>3. \A r \in abandoned : \A w \in Child : port[w].rt # r
    BY Zenon DEF Inv, CountInv
  <2> QED
    BY <2>1, <2>2, <2>3, Zenon DEF NoLockLeak, R!NoLockLeak, Kept
<1> QED
  BY <1>1, <1>2, <1>3, PTL DEF R!Spec
=============================================================================
