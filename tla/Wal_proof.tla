------------------------------ MODULE Wal_proof ------------------------------
(***************************************************************************)
(* A reader keeps the log it reads, for any number of connections, read    *)
(* locks, pages and frames: nobody restarts the log or moves its mark past *)
(* its snapshot.  What a connection knows depends on where it is in its    *)
(* call, on the locks it holds there and, for a writer, on the header it   *)
(* has not published yet.                                                  *)
(***************************************************************************)
EXTENDS Wal, TLAPS

-----------------------------------------------------------------------------
(* Largest *)

\* Largest, which CHOOSEs, returns an element of the set, or 0.
LEMMA LargestElement ==
    ASSUME NEW S PROVE Largest(S) \in S \cup {0}
BY Zenon DEF Largest

-----------------------------------------------------------------------------
(* The inductive invariant *)

HdrFields == {"isInit", "salt", "mxFrame", "nPage", "ck"}
WalFields == {"hdr", "readLock", "minFrame", "iReCksum", "nCkpt"}
LocFields == {"useWal", "changed", "mxI", "mxReadMark", "pages", "val", "nTruncate", "iFirst", "nAppended",
              "eMode", "i", "y", "mxSafeFrame", "nBackfill", "closing", "rc"}

Header(h) == DOMAIN h = HdrFields /\ h.mxFrame \in Nat
WalObject(r) ==
    /\ DOMAIN r = WalFields /\ Header(r.hdr) /\ r.nCkpt \in Nat
    /\ r.readLock \in {-1, 0} \cup Readers
Locals(l) == DOMAIN l = LocFields /\ l.nAppended \in Nat /\ l.mxSafeFrame \in Nat
Saved(s) == DOMAIN s = {"mxFrame", "ck", "nCkpt"} /\ s.mxFrame \in Int /\ s.nCkpt \in Nat
Counter(b) == DOMAIN b = {"pg", "val", "n", "salt", "ck"} /\ b.n \in Nat

\* The records of a connection, and the slot that its checkpoint is at.
ConnTypes(c) ==
    /\ WalObject(pWal[c]) /\ Locals(loc[c]) /\ Saved(savepoint[c])
    /\ pc[c] \in {"ckptMark", "ckptTryMark"} => loc[c].i \in Readers
    /\ pc[c] = "ckptTryMark" => loc[c].y \in Nat

\* The shapes of the variables, and the numbers the argument computes with.
Shapes == DOMAIN pc = Conn /\ DOMAIN pWal = Conn /\ DOMAIN loc = Conn /\ DOMAIN savepoint = Conn
IndexTypes ==
    /\ DOMAIN aHdr = 0..1 /\ Header(aHdr[0]) /\ Header(aHdr[1])
    /\ aReadMark \in [Readers -> Nat]
BlockTypes ==
    /\ DOMAIN pWalFd = 0..MaxFrame /\ Counter(pWalFd[0])
    /\ DOMAIN walMay = 0..MaxFrame /\ \A b \in walMay[0] : Counter(b)

\* The wal-index slots are reader/writer locks.
SlotsInv ==
    /\ shared \in [Slots -> SUBSET Conn] /\ excl \in [Slots -> Conn \cup {NoConn}]
    /\ \A s \in Slots, c \in Conn : excl[s] = c => shared[s] \subseteq {c}

\* An open connection has SHARED, the one that removes the log is alone.
LevelsInv ==
    /\ levels \in [Conn -> Level]
    /\ \A c \in Conn : levels[c] = NONE <=> pc[c] = "closed"
    /\ \A c \in Conn : loc[c].closing => levels[c] = EXCLUSIVE
    /\ \A c, d \in Conn : c # d /\ levels[c] = EXCLUSIVE => levels[d] = NONE

\* Where a connection is: it takes a mark, starts a log, writes frames, all in
\* a transaction; it copies the log; or it has nothing.
Marking == {"marks", "storeMark", "lockMark", "checkMark"}
NewLog == {"restart1", "restart0"}
Frames == {"walHdr", "walSync", "append", "publish1", "publish0"}
Calling == Marking \cup NewLog \cup Frames \cup {"restart", "restartInfo"}
Transaction == Marking \cup Frames \cup {"read", "ended", "restart", "restartInfo"}
Copying == {"ckptHdr", "ckptInfo", "ckptMark", "ckptTryMark", "ckptLock0", "ckptCopy", "ckptDone", "ckptEnd"}
Outside == {"closed", "idle", "leaving", "hdr", "info", "lock0", "check0", "ckptWrite"}

\* The read locks of connection c at its control point.
ReadLocks(c) ==
    /\ pWal[c].readLock \in Readers => c \in shared[WAL_READ_LOCK(pWal[c].readLock)]
    /\ pWal[c].readLock # -1 => pc[c] \in Frames \cup NewLog \cup {"read", "ended", "restart", "restartInfo"}
    /\ pc[c] \in NewLog \cup {"restart", "restartInfo"} => pWal[c].readLock \notin Readers
    /\ pc[c] \in NewLog \cup {"restartInfo"} /\ loc[c].eMode # PASSIVE => pWal[c].readLock = -1
    /\ pc[c] \in {"storeMark", "lockMark", "checkMark"} => loc[c].mxI \in Readers
    /\ pc[c] = "storeMark" => excl[WAL_READ_LOCK(loc[c].mxI)] = c
    /\ pc[c] = "checkMark" => c \in shared[WAL_READ_LOCK(loc[c].mxI)]
    /\ pc[c] \in {"lockMark", "checkMark"} =>
          loc[c].mxReadMark \in Nat /\ loc[c].mxReadMark <= pWal[c].hdr.mxFrame
    /\ pc[c] \in NewLog \cup {"restartInfo", "ckptTruncate"} => \A i \in Readers : excl[WAL_READ_LOCK(i)] = c

\* When connection c has the write lock.
WriteLock(c) ==
    /\ loc[c].useWal => pc[c] \in Calling
    /\ writeLock(c) => pc[c] \notin Outside
    /\ pc[c] \in Marking => (writeLock(c) <=> loc[c].useWal)
    /\ pc[c] \in Frames \cup NewLog \cup {"restart", "restartInfo", "ended", "ckptTruncate"} => writeLock(c)
    /\ pc[c] \in Copying => (writeLock(c) <=> loc[c].eMode # PASSIVE)
    /\ loc[c].eMode # PASSIVE => pc[c] \in Copying \cup NewLog \cup {"ckptWrite", "restartInfo", "ckptTruncate"}
    /\ pc[c] \in NewLog \cup {"restart", "restartInfo", "ckptTruncate"} => (loc[c].useWal <=> loc[c].eMode = PASSIVE)
    /\ pc[c] = "ckptWrite" => loc[c].eMode # PASSIVE
    /\ loc[c].closing => pc[c] \in Copying /\ loc[c].eMode = PASSIVE

\* The snapshot of a reader is in the log that the index describes, and its
\* mark is not past it.
ReadersHeader(c) ==
    ~writeLock(c) /\ pWal[c].readLock \in Readers =>
        /\ aReadMark[pWal[c].readLock] <= pWal[c].hdr.mxFrame
        /\ pWal[c].hdr.mxFrame > 0 =>
              pWal[c].hdr.salt = aHdr[0].salt /\ pWal[c].hdr.mxFrame <= aHdr[0].mxFrame

\* The log of the writer continues the published one, or starts over when that
\* is empty; its mark is not past what is published.
WritersHeader(c) ==
    /\ writeLock(c) /\ pc[c] \in Transaction =>
          /\ aHdr[0].mxFrame <= pWal[c].hdr.mxFrame
          /\ pWal[c].hdr.salt = aHdr[0].salt \/ aHdr[0].mxFrame = 0
          /\ pWal[c].readLock \in Readers => aReadMark[pWal[c].readLock] <= aHdr[0].mxFrame
    /\ pc[c] \in NewLog \cup {"walHdr"} => pWal[c].hdr.mxFrame = 0
    /\ pc[c] = "ended" => pWal[c].hdr = aHdr[0]

\* A savepoint is not before what is published, unless the log was restarted
\* since, and then nothing is published.
Savepoints(c) ==
    savepoint[c] # NoSavepoint =>
        /\ writeLock(c) /\ pc[c] \in Transaction \cup NewLog /\ loc[c].eMode = PASSIVE
        /\ savepoint[c].nCkpt <= pWal[c].nCkpt
        /\ pc[c] \in NewLog => savepoint[c].nCkpt < pWal[c].nCkpt
        /\ pc[c] \notin NewLog \cup {"ended"} =>
              IF savepoint[c].nCkpt = pWal[c].nCkpt THEN aHdr[0].mxFrame <= savepoint[c].mxFrame
              ELSE aHdr[0].mxFrame = 0

Locks(c) == ReadLocks(c) /\ WriteLock(c)
Headers(c) == ReadersHeader(c) /\ WritersHeader(c) /\ Savepoints(c)
Own(c) == ConnTypes(c) /\ Locks(c) /\ Headers(c)

LogInv == /\ Shapes /\ IndexTypes /\ BlockTypes /\ SlotsInv /\ LevelsInv
          /\ \A c \in Conn : Own(c)

-----------------------------------------------------------------------------
(* Steps of the slots *)

\* A step of c moves no lock of another connection.
Apart(c) ==
    \A d \in Conn \ {c}, s \in Slots :
        (d \in shared'[s] <=> d \in shared[s]) /\ (excl'[s] = d <=> excl[s] = d)

\* The locks of c on slot s stay.
Kept(c, s) == (c \in shared'[s] <=> c \in shared[s]) /\ (excl'[s] = c <=> excl[s] = c)

\* Numbers of slots.
LEMMA SlotNumbers ==
    /\ WAL_WRITE_LOCK \in Slots /\ WAL_CKPT_LOCK \in Slots /\ WAL_READ_LOCK(0) \in Slots
    /\ \A i \in Readers : /\ WAL_READ_LOCK(i) \in Slots /\ WAL_READ_LOCK(i) \in ReadSlots
                          /\ WAL_READ_LOCK(i) \notin {WAL_WRITE_LOCK, WAL_CKPT_LOCK, WAL_READ_LOCK(0)}
    /\ \A i, j \in Readers : WAL_READ_LOCK(i) = WAL_READ_LOCK(j) => i = j
    /\ WAL_WRITE_LOCK # WAL_CKPT_LOCK /\ WAL_READ_LOCK(0) \notin {WAL_WRITE_LOCK, WAL_CKPT_LOCK}
    /\ WAL_WRITE_LOCK \notin ReadSlots
    /\ 0 \notin Readers /\ -1 \notin Readers /\ Readers \subseteq Nat /\ 1 \in Readers
BY SlotAssumption, WalAssumption
   DEF WAL_WRITE_LOCK, WAL_CKPT_LOCK, WAL_READ_LOCK, Slots, Readers, ReadSlots, WAL_NREADER

\* Releasing slots.
LEMMA UnlockStep ==
    ASSUME SlotsInv, NEW c \in Conn, NEW slots, shmUnlock(c, slots)
    PROVE  /\ SlotsInv' /\ Apart(c) /\ levels' = levels
           /\ \A s \in Slots \ slots : Kept(c, s)
           /\ \A s \in Slots \cap slots : excl'[s] # c
<1> USE ConnAssumption DEF shmUnlock, SlotsInv
<1>1. shared' \in [Slots -> SUBSET Conn] /\ excl' \in [Slots -> Conn \cup {NoConn}]
  BY Zenon
<1>2. \A s \in Slots, d \in Conn : excl'[s] = d => shared'[s] \subseteq {d}
  BY Zenon
<1> QED
  BY <1>1, <1>2, Zenon DEF Apart, Kept

\* Taking slots shared.
LEMMA SharedStep ==
    ASSUME SlotsInv, NEW c \in Conn, NEW slots, NEW rc, shmShared(c, slots, rc)
    PROVE  /\ SlotsInv' /\ Apart(c) /\ levels' = levels /\ excl' = excl
           /\ \A s \in Slots : c \in shared[s] => c \in shared'[s]
           /\ rc = OK => \A s \in Slots \cap slots : c \in shared'[s]
<1> USE ConnAssumption DEF shmShared, SlotsInv, heldByOther, OK, BUSY
<1>1. shared' \in [Slots -> SUBSET Conn] /\ excl' = excl
  BY Zenon
<1>2. \A s \in Slots, d \in Conn : excl'[s] = d => shared'[s] \subseteq {d}
  BY Zenon
<1>3. BUSY # OK
  BY DEF OK, BUSY
<1> QED
  BY <1>1, <1>2, <1>3, Zenon DEF Apart, Kept

\* Taking slots exclusively.
LEMMA ExclusiveStep ==
    ASSUME SlotsInv, NEW c \in Conn, NEW slots, NEW rc, shmExclusive(c, slots, rc)
    PROVE  /\ SlotsInv' /\ Apart(c) /\ levels' = levels
           /\ \A s \in Slots \ slots : Kept(c, s)
           /\ IF rc = OK THEN \A s \in Slots \cap slots : excl[s] \in {NoConn, c} /\ excl'[s] = c
              ELSE \A s \in Slots : Kept(c, s)
<1> USE ConnAssumption DEF shmExclusive, SlotsInv, heldByOther
<1>0. BUSY # OK
  BY DEF OK, BUSY
<1>1. shared' \in [Slots -> SUBSET Conn] /\ excl' \in [Slots -> Conn \cup {NoConn}]
  BY Zenon
<1>2. \A s \in Slots, d \in Conn : excl'[s] = d => shared'[s] \subseteq {d}
  BY Zenon
<1>3. CASE rc = OK
  <2>1. \A s \in slots : excl[s] \in {NoConn, c} /\ shared[s] \ {c} = {}
    BY <1>0, <1>3, Zenon
  <2>2. \A s \in Slots \cap slots : excl'[s] = c /\ shared'[s] = shared[s] \ {c}
    BY <2>1, Zenon
  <2>3. \A s \in Slots \ slots : excl'[s] = excl[s] /\ shared'[s] = shared[s]
    BY Zenon
  <2>4. Apart(c)
    <3>1. SUFFICES ASSUME NEW d \in Conn \ {c}, NEW s \in Slots
                   PROVE  (d \in shared'[s] <=> d \in shared[s]) /\ (excl'[s] = d <=> excl[s] = d)
      BY Zenon DEF Apart
    <3>2. CASE s \in slots
      BY <2>1, <2>2, <3>2
    <3>3. CASE s \notin slots
      BY <2>3, <3>3, Zenon
    <3> QED
      BY <3>2, <3>3, Zenon
  <2> QED
    BY <1>1, <1>2, <1>3, <2>1, <2>2, <2>3, <2>4, Zenon DEF Kept
<1>4. CASE rc # OK
  BY <1>0, <1>1, <1>2, <1>4, Zenon DEF Apart, Kept
<1> QED
  BY <1>3, <1>4, Zenon

\* No slots touched.
LEMMA NoLockStep ==
    ASSUME SlotsInv, NEW c \in Conn, UNCHANGED <<shared, excl>>
    PROVE  SlotsInv' /\ Apart(c) /\ \A s \in Slots : Kept(c, s)
BY Zenon DEF SlotsInv, Apart, Kept

-----------------------------------------------------------------------------
(* What a step of c leaves alone *)

Untouched(c) ==
    \A d \in Conn \ {c} :
        pc'[d] = pc[d] /\ pWal'[d] = pWal[d] /\ loc'[d] = loc[d] /\ savepoint'[d] = savepoint[d]

\* A connection works on its own Wal object and its own variables.
LEMMA StepIsOwn ==
    ASSUME Shapes, NEW c \in Conn, step(c) PROVE Untouched(c) /\ Shapes'
<1> USE DEF Shapes, Untouched, goto, return
<1>1. CASE open(c) \/ closeNotLast(c) \/ closeLast(c) \/ closeLeave(c) \/ closeDelete(c)
  BY <1>1, Zenon DEF open, closeNotLast, closeLast, closeLeave, closeDelete, leave
<1>2. CASE beginReadHdr(c)
  BY <1>2, Zenon DEF beginReadHdr, walIndexReadHdr, walIndexRecover
<1>3. CASE beginReadInfo(c) \/ beginReadLock0(c) \/ beginReadGivesUp(c)
  BY <1>3, Zenon DEF beginReadInfo, beginReadLock0, beginReadGivesUp
<1>4. CASE beginReadCheck0(c)
  BY <1>4, Zenon DEF beginReadCheck0, begun, retry
<1>5. CASE beginReadMarks(c)
  BY <1>5, Zenon DEF beginReadMarks, retry
<1>6. CASE beginReadStoreMark(c) \/ beginReadLockMark(c)
  BY <1>6, Zenon DEF beginReadStoreMark, beginReadLockMark, retry
<1>7. CASE beginReadCheckMark(c)
  BY <1>7, Zenon DEF beginReadCheckMark, begun, retry
<1>8. CASE sqlite3WalEndReadTransaction(c) \/ sqlite3WalBeginWriteTransaction(c) \/ sqlite3WalEndWriteTransaction(c)
  BY <1>8, Zenon DEF sqlite3WalEndReadTransaction, sqlite3WalBeginWriteTransaction, sqlite3WalEndWriteTransaction
<1>9. CASE \E pages, n : walFrames(c, pages, n)
  BY <1>9, ZenonT(30) DEF walFrames
<1>10. CASE walRestartLog(c)
  BY <1>10, Zenon DEF walRestartLog, newLog, leaveReadLock0
<1>11. CASE restartHdr1(c) \/ restartHdr0(c) \/ restartInfo(c)
  BY <1>11, Zenon DEF restartHdr1, restartHdr0, restartInfo, leaveReadLock0
<1>12. CASE writeWalHeader(c) \/ syncWalHeader(c)
  BY <1>12, Zenon DEF writeWalHeader, syncWalHeader
<1>13. CASE walWriteOneFrame(c)
  BY <1>13, Zenon DEF walWriteOneFrame
<1>14. CASE walIndexAppend(c)
  BY <1>14, Zenon DEF walIndexAppend
<1>15. CASE publish1(c) \/ publish0(c) \/ sqlite3WalUndo(c)
  BY <1>15, Zenon DEF publish1, publish0, sqlite3WalUndo
<1>16. CASE sqlite3WalSavepoint(c) \/ sqlite3WalSavepointUndo(c)
  BY <1>16, Zenon DEF sqlite3WalSavepoint, sqlite3WalSavepointUndo
<1>17. CASE (\E eMode : sqlite3WalCheckpoint(c, eMode)) \/ ckptWriteLock(c)
  BY <1>17, Zenon DEF sqlite3WalCheckpoint, ckptWriteLock
<1>18. CASE ckptReadHdr(c)
  BY <1>18, Zenon DEF ckptReadHdr, walIndexReadHdr, walIndexRecover
<1>19. CASE ckptInfo(c) \/ ckptReadMark(c) \/ ckptTryMark(c)
  BY <1>19, Zenon DEF ckptInfo, ckptReadMark, ckptTryMark, nextMark, ckptDone
<1>20. CASE ckptLock0(c) \/ ckptCopyPage(c) \/ ckptInterrupted(c) \/ ckptBackfilled(c)
  BY <1>20, Zenon DEF ckptLock0, ckptCopyPage, ckptInterrupted, ckptBackfilled, ckptDone
<1>21. CASE ckptRestart(c) \/ ckptTruncate(c) \/ ckptEnd(c)
  BY <1>21, Zenon DEF ckptRestart, newLog, ckptTruncate, ckptEnd
<1> QED
  BY <1>1, <1>2, <1>3, <1>4, <1>5, <1>6, <1>7, <1>8, <1>9, <1>10, <1>11, <1>12, <1>13, <1>14, <1>15, <1>16,
     <1>17, <1>18, <1>19, <1>20, <1>21, Zenon DEF step

\* Another connection still has its locks where it needs them,
LEMMA OthersLocks ==
    ASSUME Shapes, NEW c \in Conn, NEW d \in Conn \ {c}, Untouched(c), Apart(c), ConnTypes(d), Locks(d)
    PROVE  ConnTypes(d)' /\ Locks(d)' /\ (writeLock(d)' <=> writeLock(d))
<1>1. pc'[d] = pc[d] /\ pWal'[d] = pWal[d] /\ loc'[d] = loc[d] /\ savepoint'[d] = savepoint[d]
  BY Zenon DEF Untouched
<1>2. ConnTypes(d)'
  BY <1>1, Zenon DEF ConnTypes
<1>3. writeLock(d)' <=> writeLock(d)
  BY SlotNumbers, Zenon DEF writeLock, Apart
<1>4. \A i \in Readers : /\ d \in shared'[WAL_READ_LOCK(i)] <=> d \in shared[WAL_READ_LOCK(i)]
                         /\ excl'[WAL_READ_LOCK(i)] = d <=> excl[WAL_READ_LOCK(i)] = d
  BY SlotNumbers, Zenon DEF Apart
<1>5. ReadLocks(d)'
  BY <1>1, <1>4, Zenon DEF Locks, ReadLocks
<1>6. WriteLock(d)'
  BY <1>1, <1>3, Zenon DEF Locks, WriteLock
<1> QED
  BY <1>2, <1>3, <1>5, <1>6, Zenon DEF Locks

\* and knows what it knew while the index says the same.
LEMMA OthersHeaders ==
    ASSUME Shapes, NEW c \in Conn, NEW d \in Conn \ {c}, Untouched(c), Headers(d), writeLock(d)' <=> writeLock(d),
           aHdr'[0] = aHdr[0],
           pWal[d].readLock \in Readers => aReadMark'[pWal[d].readLock] = aReadMark[pWal[d].readLock]
    PROVE  Headers(d)'
<1>1. pc'[d] = pc[d] /\ pWal'[d] = pWal[d] /\ loc'[d] = loc[d] /\ savepoint'[d] = savepoint[d]
  BY Zenon DEF Untouched
<1>2. ReadersHeader(d)'
  BY <1>1, Zenon DEF Headers, ReadersHeader
<1>3. WritersHeader(d)'
  BY <1>1, Zenon DEF Headers, WritersHeader
<1>4. Savepoints(d)'
  BY <1>1, Zenon DEF Headers, Savepoints
<1> QED
  BY <1>2, <1>3, <1>4, Zenon DEF Headers

\* A connection that neither writes nor reads the log does not mind a new index.
LEMMA BystanderHeaders ==
    ASSUME NEW d \in Conn, Locks(d)', ~writeLock(d)', pWal'[d].readLock \notin Readers,
           savepoint'[d] = NoSavepoint
    PROVE  Headers(d)'
<1>1. pc'[d] \notin Frames \cup NewLog \cup {"ended"}
  BY Zenon DEF Locks, WriteLock
<1>2. ReadersHeader(d)' /\ Savepoints(d)'
  BY Zenon DEF ReadersHeader, Savepoints
<1>3. WritersHeader(d)'
  BY <1>1, Zenon DEF WritersHeader, Frames
<1> QED
  BY <1>2, <1>3, Zenon DEF Headers

\* The calls of the lock table that a step makes.
ShmCall(c) ==
    \/ UNCHANGED <<shared, excl>>
    \/ \E slots : shmUnlock(c, slots)
    \/ \E slots, rc : shmShared(c, slots, rc) \/ shmExclusive(c, slots, rc)

\* A step makes at most one call of the lock table.
LEMMA OneShmCall == ASSUME NEW c \in Conn, step(c) PROVE ShmCall(c)
<1> USE DEF ShmCall, lockVars
<1>1. CASE open(c) \/ closeNotLast(c) \/ closeLast(c) \/ closeLeave(c) \/ closeDelete(c)
  BY <1>1, Zenon DEF open, closeNotLast, closeLast, closeLeave, closeDelete, lock, unlock
<1>2. CASE beginReadHdr(c) \/ beginReadInfo(c) \/ beginReadLock0(c) \/ beginReadGivesUp(c)
  BY <1>2, Zenon DEF beginReadHdr, beginReadInfo, beginReadLock0, beginReadGivesUp
<1>3. CASE beginReadCheck0(c) \/ beginReadCheckMark(c)
  BY <1>3, Zenon DEF beginReadCheck0, beginReadCheckMark
<1>4. CASE beginReadMarks(c) \/ beginReadStoreMark(c) \/ beginReadLockMark(c)
  BY <1>4, Zenon DEF beginReadMarks, beginReadStoreMark, beginReadLockMark
<1>5. CASE sqlite3WalEndReadTransaction(c) \/ sqlite3WalBeginWriteTransaction(c) \/ sqlite3WalEndWriteTransaction(c)
  BY <1>5, Zenon DEF sqlite3WalEndReadTransaction, sqlite3WalBeginWriteTransaction, sqlite3WalEndWriteTransaction
<1>6. CASE (\E pages, n : walFrames(c, pages, n)) \/ walRestartLog(c)
  BY <1>6, Zenon DEF walFrames, walRestartLog, leaveReadLock0
<1>7. CASE restartHdr1(c) \/ restartHdr0(c) \/ restartInfo(c)
  BY <1>7, Zenon DEF restartHdr1, restartHdr0, restartInfo, leaveReadLock0
<1>8. CASE writeWalHeader(c) \/ syncWalHeader(c) \/ walWriteOneFrame(c) \/ walIndexAppend(c)
  BY <1>8, Zenon DEF writeWalHeader, syncWalHeader, walWriteOneFrame, walIndexAppend
<1>9. CASE publish1(c) \/ publish0(c) \/ sqlite3WalUndo(c) \/ sqlite3WalSavepoint(c) \/ sqlite3WalSavepointUndo(c)
  BY <1>9, Zenon DEF publish1, publish0, sqlite3WalUndo, sqlite3WalSavepoint, sqlite3WalSavepointUndo
<1>10. CASE (\E eMode : sqlite3WalCheckpoint(c, eMode)) \/ ckptWriteLock(c) \/ ckptReadHdr(c)
  BY <1>10, Zenon DEF sqlite3WalCheckpoint, ckptWriteLock, ckptReadHdr
<1>11. CASE ckptInfo(c) \/ ckptReadMark(c) \/ ckptTryMark(c)
  BY <1>11, Zenon DEF ckptInfo, ckptReadMark, ckptTryMark
<1>12. CASE ckptLock0(c) \/ ckptCopyPage(c) \/ ckptInterrupted(c) \/ ckptBackfilled(c)
  BY <1>12, Zenon DEF ckptLock0, ckptCopyPage, ckptInterrupted, ckptBackfilled
<1>13. CASE ckptRestart(c) \/ ckptTruncate(c) \/ ckptEnd(c)
  BY <1>13, Zenon DEF ckptRestart, ckptTruncate, ckptEnd
<1> QED
  BY <1>1, <1>2, <1>3, <1>4, <1>5, <1>6, <1>7, <1>8, <1>9, <1>10, <1>11, <1>12, <1>13, Zenon DEF step

\* So the slots stay locks and the others' locks stay theirs.
LEMMA SlotsStep ==
    ASSUME SlotsInv, NEW c \in Conn, step(c) PROVE SlotsInv' /\ Apart(c)
<1>1. ShmCall(c)
  BY OneShmCall, Zenon
<1> QED
  BY <1>1, UnlockStep, SharedStep, ExclusiveStep, NoLockStep, Zenon DEF ShmCall

\* A connection finds a slot to set its mark in, none, or a mark it can use.
LEMMA MarksEffect ==
    ASSUME NEW c \in Conn, beginReadMarks(c), aReadMark \in [Readers -> Nat], pWal[c].hdr.mxFrame \in Nat
    PROVE  /\ pc[c] = "marks" /\ UNCHANGED <<shm, files, pWal, savepoint>>
           /\ \/ \E i \in Readers : \E m :
                       /\ shmExclusive(c, {WAL_READ_LOCK(i)}, OK) /\ goto(c, "storeMark")
                       /\ loc' = [loc EXCEPT ![c].mxI = i, ![c].mxReadMark = m]
              \/ retry(c) /\ UNCHANGED lockVars
              \/ \E i \in Readers, m \in Nat :
                    /\ m <= pWal[c].hdr.mxFrame /\ goto(c, "lockMark") /\ UNCHANGED lockVars
                    /\ loc' = [loc EXCEPT ![c].mxI = i, ![c].mxReadMark = m]
<1> DEFINE mxFrame == pWal[c].hdr.mxFrame
           usable == {i \in Readers : aReadMark[i] <= mxFrame}
           marks == {aReadMark[i] : i \in usable}
           mark == Largest(marks)
           slots == {i \in usable : aReadMark[i] = mark}
           mxI == Largest(slots)
<1>1. mark \in Nat /\ mark <= mxFrame
  <2>1. marks \in SUBSET 0..mxFrame
    OBVIOUS
  <2>2. mark \in marks \cup {0}
    BY LargestElement, Zenon
  <2> HIDE DEF mark, marks
  <2> QED
    BY <2>1, <2>2
<1>2. mxI = 0 \/ mxI \in Readers
  BY LargestElement, Zenon
<1> HIDE DEF mxFrame, mark, mxI
<1>3. \/ \E i \in Readers : /\ shmExclusive(c, {WAL_READ_LOCK(i)}, OK) /\ goto(c, "storeMark")
                            /\ loc' = [loc EXCEPT ![c].mxI = i, ![c].mxReadMark = mark]
      \/ /\ IF mxI = 0 THEN retry(c)
            ELSE loc' = [loc EXCEPT ![c].mxI = mxI, ![c].mxReadMark = mark] /\ goto(c, "lockMark")
         /\ UNCHANGED lockVars
  BY Zenon DEF beginReadMarks, mark, mxI, mxFrame
<1>4. pc[c] = "marks" /\ UNCHANGED <<shm, files, pWal, savepoint>>
  BY Zenon DEF beginReadMarks
<1> QED
  BY <1>1, <1>2, <1>3, <1>4, Zenon DEF mxFrame

\* The file locks: c opens, is refused or gets EXCLUSIVE, closes, or keeps its level.
LEMMA LevelsStep ==
    ASSUME Shapes, IndexTypes, NEW c \in Conn, ConnTypes(c), LevelsInv, step(c) PROVE LevelsInv'
<1> DEFINE Stays == /\ levels' = levels /\ pc[c] # "closed" /\ pc'[c] # "closed"
                    /\ loc'[c].closing => loc[c].closing
<1>0. Untouched(c) /\ Shapes'
  BY StepIsOwn, Zenon
<1>1. CASE Stays
  BY <1>0, <1>1, ZenonT(30) DEF LevelsInv, Untouched
<1>2. CASE open(c)
  <2>1. pc[c] = "closed" /\ pc'[c] = "idle" /\ loc' = loc /\ lock(c, SHARED, OK)
    BY <1>2, Zenon DEF open, goto, Shapes
  <2>2. levels[c] = NONE /\ ~loc[c].closing
    BY <2>1 DEF LevelsInv, NONE, EXCLUSIVE
  <2>3. /\ levels' = [levels EXCEPT ![c] = SHARED]
        /\ \A o \in Conn \ {c} : ~(levels[o] >= PENDING)
    BY <2>1, <2>2 DEF lock, blocked, othersAtLeast, LevelsInv, NONE, SHARED, OK, BUSY
  <2>4. \A o \in Conn \ {c} : levels[o] # EXCLUSIVE /\ levels'[o] = levels[o]
    BY <2>3 DEF LevelsInv, EXCLUSIVE, PENDING
  <2>5. levels' \in [Conn -> Level] /\ levels'[c] = SHARED /\ SHARED # NONE /\ SHARED # EXCLUSIVE
    BY <2>3 DEF LevelsInv, Level, NONE, SHARED, EXCLUSIVE
  <2>6. \A o \in Conn \ {c} : pc'[o] = pc[o] /\ loc'[o] = loc[o]
    BY <1>0, Zenon DEF Untouched
  <2>7. loc'[c] = loc[c] /\ "idle" # "closed"
    BY <2>1, Zenon
  <2>8. /\ \A o \in Conn : levels'[o] = NONE <=> pc'[o] = "closed"
        /\ \A o \in Conn : loc'[o].closing => levels'[o] = EXCLUSIVE
    BY <2>1, <2>2, <2>4, <2>5, <2>6, <2>7, Zenon DEF LevelsInv
  <2>9. \A o \in Conn : levels'[o] # EXCLUSIVE
    BY <2>4, <2>5, Zenon
  <2> QED
    BY <2>5, <2>8, <2>9, Zenon DEF LevelsInv
<1>3. CASE closeLeave(c) \/ closeDelete(c)
  <2>1. levels' = [levels EXCEPT ![c] = NONE] /\ pc'[c] = "closed" /\ loc'[c] = Loc0
    BY <1>3, Zenon DEF closeLeave, closeDelete, unlock, leave, return, goto, Shapes
  <2>2. levels' \in [Conn -> Level] /\ levels'[c] = NONE /\ NONE # EXCLUSIVE
    BY <2>1 DEF LevelsInv, Level, NONE, EXCLUSIVE
  <2>3. \A o \in Conn \ {c} : levels'[o] = levels[o]
    BY <2>1, Zenon DEF LevelsInv
  <2>4. ~Loc0.closing
    BY Zenon DEF Loc0
  <2> QED
    BY <1>0, <2>1, <2>2, <2>3, <2>4, Zenon DEF LevelsInv, Untouched
<1>4. CASE closeLast(c)
  <2>1. pc[c] = "idle" /\ pc'[c] = "ckptHdr" /\ lock(c, EXCLUSIVE, OK)
    BY <1>4, Zenon DEF closeLast, goto, Shapes
  <2>2. CASE levels' = levels /\ levels[c] >= EXCLUSIVE
    <3>1. levels[c] = EXCLUSIVE /\ EXCLUSIVE # NONE
      BY <2>2 DEF LevelsInv, Level, NONE, EXCLUSIVE
    <3> QED
      BY <1>0, <2>1, <2>2, <3>1, Zenon DEF LevelsInv, Untouched
  <2>3. CASE levels' = [levels EXCEPT ![c] = EXCLUSIVE] /\ ~blocked(c, EXCLUSIVE)
    <3>1. levels' \in [Conn -> Level] /\ levels'[c] = EXCLUSIVE /\ NONE # EXCLUSIVE
      BY <2>3 DEF LevelsInv, Level, NONE, EXCLUSIVE
    <3>2. \A o \in Conn \ {c} : levels'[o] = levels[o] /\ levels[o] = NONE
      BY <2>3 DEF LevelsInv, Level, blocked, othersAtLeast, NONE, SHARED, EXCLUSIVE
    <3>3. \A o \in Conn \ {c} : pc'[o] = pc[o] /\ loc'[o] = loc[o]
      BY <1>0, Zenon DEF Untouched
    <3>4. /\ \A o \in Conn : levels'[o] = NONE <=> pc'[o] = "closed"
          /\ \A o \in Conn : loc'[o].closing => levels'[o] = EXCLUSIVE
      BY <2>1, <3>1, <3>2, <3>3 DEF LevelsInv
    <3>5. \A o, d \in Conn : o # d /\ levels'[o] = EXCLUSIVE => levels'[d] = NONE
      BY <3>1, <3>2
    <3> QED
      BY <3>1, <3>4, <3>5, Zenon DEF LevelsInv
  <2>4. OK # BUSY
    BY DEF OK, BUSY
  <2> QED
    BY <2>1, <2>2, <2>3, <2>4, Zenon DEF lock
<1>5. DOMAIN loc = Conn /\ DOMAIN pc = Conn /\ DOMAIN loc[c] = LocFields /\ "closing" \in LocFields
  BY Zenon DEF Shapes, ConnTypes, Locals, LocFields
<1>6. ~Loc0.closing
  BY Zenon DEF Loc0
<1>7. CASE closeNotLast(c)
  <2>1. Stays
    BY <1>5, <1>6, <1>7 DEF closeNotLast, lock, goto, lockVars, OK, BUSY
  <2> QED
    BY <1>1, <2>1, Zenon
<1>8. CASE beginReadHdr(c)
  <2>1. Stays
    BY <1>5, <1>6, <1>8, Zenon DEF beginReadHdr, goto, lockVars
  <2> QED
    BY <1>1, <2>1, Zenon
<1>9. CASE beginReadInfo(c)
  <2>1. Stays
    BY <1>5, <1>6, <1>9, Zenon DEF beginReadInfo, goto, lockVars
  <2> QED
    BY <1>1, <2>1, Zenon
<1>10. CASE beginReadLock0(c)
  <2>1. Stays
    BY <1>5, <1>6, <1>10, Zenon DEF beginReadLock0, shmShared, goto, lockVars
  <2> QED
    BY <1>1, <2>1, Zenon
<1>11. CASE beginReadCheck0(c)
  <2>1. Stays
    BY <1>5, <1>6, <1>11 DEF beginReadCheck0, begun, retry, return, shmUnlock, goto, lockVars
  <2> QED
    BY <1>1, <2>1, Zenon
<1>12. CASE beginReadStoreMark(c)
  <2>1. Stays
    BY <1>5, <1>6, <1>12, Zenon DEF beginReadStoreMark, shmUnlock, goto, lockVars
  <2> QED
    BY <1>1, <2>1, Zenon
<1>13. CASE beginReadLockMark(c)
  <2>1. Stays
    BY <1>5, <1>6, <1>13 DEF beginReadLockMark, retry, shmShared, goto, lockVars
  <2> QED
    BY <1>1, <2>1, Zenon
<1>14. CASE beginReadCheckMark(c)
  <2>1. Stays
    BY <1>5, <1>6, <1>14 DEF beginReadCheckMark, begun, retry, return, shmUnlock, goto, lockVars
  <2> QED
    BY <1>1, <2>1, Zenon
<1>15. CASE beginReadGivesUp(c)
  <2>1. Stays
    BY <1>5, <1>6, <1>15, Zenon DEF beginReadGivesUp, return, goto, lockVars
  <2> QED
    BY <1>1, <2>1, Zenon
<1>16. CASE sqlite3WalEndReadTransaction(c)
  <2>1. Stays
    BY <1>5, <1>6, <1>16, Zenon DEF sqlite3WalEndReadTransaction, shmUnlock, goto, lockVars
  <2> QED
    BY <1>1, <2>1, Zenon
<1>17. CASE sqlite3WalBeginWriteTransaction(c)
  <2>1. Stays
    BY <1>5, <1>6, <1>17, Zenon DEF sqlite3WalBeginWriteTransaction, shmExclusive, goto, lockVars
  <2> QED
    BY <1>1, <2>1, Zenon
<1>18. CASE sqlite3WalEndWriteTransaction(c)
  <2>1. Stays
    BY <1>5, <1>6, <1>18, Zenon DEF sqlite3WalEndWriteTransaction, shmUnlock, goto, lockVars
  <2> QED
    BY <1>1, <2>1, Zenon
<1>19. CASE walRestartLog(c)
  <2>1. Stays
    BY <1>5, <1>6, <1>19, Zenon DEF walRestartLog, leaveReadLock0, shmUnlock, shmExclusive, goto, lockVars
  <2> QED
    BY <1>1, <2>1, Zenon
<1>20. CASE restartHdr1(c)
  <2>1. Stays
    BY <1>5, <1>6, <1>20, Zenon DEF restartHdr1, goto, lockVars
  <2> QED
    BY <1>1, <2>1, Zenon
<1>21. CASE restartHdr0(c)
  <2>1. Stays
    BY <1>5, <1>6, <1>21, Zenon DEF restartHdr0, goto, lockVars
  <2> QED
    BY <1>1, <2>1, Zenon
<1>22. CASE restartInfo(c)
  <2>1. Stays
    BY <1>5, <1>6, <1>22, Zenon DEF restartInfo, leaveReadLock0, shmUnlock, goto, lockVars
  <2> QED
    BY <1>1, <2>1, Zenon
<1>23. CASE writeWalHeader(c)
  <2>1. Stays
    BY <1>5, <1>6, <1>23, Zenon DEF writeWalHeader, goto, lockVars
  <2> QED
    BY <1>1, <2>1, Zenon
<1>24. CASE syncWalHeader(c)
  <2>1. Stays
    BY <1>5, <1>6, <1>24, Zenon DEF syncWalHeader, goto, lockVars
  <2> QED
    BY <1>1, <2>1, Zenon
<1>25. CASE walWriteOneFrame(c)
  <2>1. Stays
    BY <1>5, <1>6, <1>25, Zenon DEF walWriteOneFrame, goto, lockVars
  <2> QED
    BY <1>1, <2>1, Zenon
<1>26. CASE walIndexAppend(c)
  <2>1. Stays
    BY <1>5, <1>6, <1>26, Zenon DEF walIndexAppend, return, goto, lockVars
  <2> QED
    BY <1>1, <2>1, Zenon
<1>27. CASE publish1(c)
  <2>1. Stays
    BY <1>5, <1>6, <1>27, Zenon DEF publish1, goto, lockVars
  <2> QED
    BY <1>1, <2>1, Zenon
<1>28. CASE publish0(c)
  <2>1. Stays
    BY <1>5, <1>6, <1>28, Zenon DEF publish0, return, goto, lockVars
  <2> QED
    BY <1>1, <2>1, Zenon
<1>29. CASE sqlite3WalUndo(c)
  <2>1. Stays
    BY <1>5, <1>6, <1>29, Zenon DEF sqlite3WalUndo, goto, lockVars
  <2> QED
    BY <1>1, <2>1, Zenon
<1>30. CASE sqlite3WalSavepoint(c)
  <2>1. Stays
    BY <1>5, <1>6, <1>30, Zenon DEF sqlite3WalSavepoint, goto, lockVars
  <2> QED
    BY <1>1, <2>1, Zenon
<1>31. CASE sqlite3WalSavepointUndo(c)
  <2>1. Stays
    BY <1>5, <1>6, <1>31, Zenon DEF sqlite3WalSavepointUndo, goto, lockVars
  <2> QED
    BY <1>1, <2>1, Zenon
<1>32. CASE ckptWriteLock(c)
  <2>1. Stays
    BY <1>5, <1>6, <1>32, Zenon DEF ckptWriteLock, shmExclusive, goto, lockVars
  <2> QED
    BY <1>1, <2>1, Zenon
<1>33. CASE ckptReadHdr(c)
  <2>1. Stays
    BY <1>5, <1>6, <1>33, Zenon DEF ckptReadHdr, goto, lockVars
  <2> QED
    BY <1>1, <2>1, Zenon
<1>34. CASE ckptInfo(c)
  <2>1. Stays
    BY <1>5, <1>6, <1>34 DEF ckptInfo, ckptDone, goto, lockVars
  <2> QED
    BY <1>1, <2>1, Zenon
<1>35. CASE ckptReadMark(c)
  <2>1. Stays
    BY <1>5, <1>6, <1>35 DEF ckptReadMark, nextMark, goto, lockVars
  <2> QED
    BY <1>1, <2>1, Zenon
<1>36. CASE ckptTryMark(c)
  <2>1. Stays
    BY <1>5, <1>6, <1>36 DEF ckptTryMark, nextMark, goto, lockVars
  <2> QED
    BY <1>1, <2>1, Zenon
<1>37. CASE ckptLock0(c)
  <2>1. Stays
    BY <1>5, <1>6, <1>37 DEF ckptLock0, ckptDone, shmExclusive, goto, lockVars
  <2> QED
    BY <1>1, <2>1, Zenon
<1>38. CASE ckptCopyPage(c)
  <2>1. Stays
    BY <1>5, <1>6, <1>38, Zenon DEF ckptCopyPage, goto, lockVars
  <2> QED
    BY <1>1, <2>1, Zenon
<1>39. CASE ckptInterrupted(c)
  <2>1. Stays
    BY <1>5, <1>6, <1>39, Zenon DEF ckptInterrupted, shmUnlock, goto, lockVars
  <2> QED
    BY <1>1, <2>1, Zenon
<1>40. CASE ckptBackfilled(c)
  <2>1. Stays
    BY <1>5, <1>6, <1>40, Zenon DEF ckptBackfilled, ckptDone, shmUnlock, goto, lockVars
  <2> QED
    BY <1>1, <2>1, Zenon
<1>41. CASE ckptRestart(c)
  <2>1. Stays
    BY <1>5, <1>6, <1>41, Zenon DEF ckptRestart, shmExclusive, goto, lockVars
  <2> QED
    BY <1>1, <2>1, Zenon
<1>42. CASE ckptTruncate(c)
  <2>1. Stays
    BY <1>5, <1>6, <1>42, Zenon DEF ckptTruncate, shmUnlock, goto, lockVars
  <2> QED
    BY <1>1, <2>1, Zenon
<1>43. CASE ckptEnd(c)
  <2>1. Stays
    BY <1>5, <1>6, <1>43, Zenon DEF ckptEnd, return, shmUnlock, goto, lockVars
  <2> QED
    BY <1>1, <2>1, Zenon
<1>44. CASE beginReadMarks(c)
  <2>1. aReadMark \in [Readers -> Nat] /\ pWal[c].hdr.mxFrame \in Nat
    BY Zenon DEF IndexTypes, ConnTypes, WalObject, Header
  <2>2. pc[c] = "marks" /\ levels' = levels
    BY <1>44, Zenon DEF beginReadMarks, lockVars, shmExclusive
  <2>3. \/ \E i, m : loc' = [loc EXCEPT ![c].mxI = i, ![c].mxReadMark = m] /\ goto(c, "storeMark")
        \/ retry(c)
        \/ \E i, m : loc' = [loc EXCEPT ![c].mxI = i, ![c].mxReadMark = m] /\ goto(c, "lockMark")
    BY <1>44, <2>1, MarksEffect, Zenon
  <2>4. Stays
    BY <1>5, <2>2, <2>3, ZenonT(30) DEF retry, goto
  <2> QED
    BY <1>1, <2>4, Zenon
<1>45. CASE \E pages, k : walFrames(c, pages, k)
  <2>1. Stays
    BY <1>5, <1>45 DEF walFrames, goto, lockVars
  <2> QED
    BY <1>1, <2>1, Zenon
<1>46. CASE \E eMode : sqlite3WalCheckpoint(c, eMode)
  <2>1. Stays
    BY <1>5, <1>46 DEF sqlite3WalCheckpoint, goto, lockVars, shmExclusive
  <2> QED
    BY <1>1, <2>1, Zenon
<1> QED
  BY <1>2, <1>3, <1>4, <1>7, <1>8, <1>9, <1>10, <1>11, <1>12, <1>13, <1>14, <1>15, <1>16, <1>17,
     <1>18, <1>19, <1>20, <1>21, <1>22, <1>23, <1>24, <1>25, <1>26, <1>27, <1>28, <1>29, <1>30,
     <1>31, <1>32, <1>33, <1>34, <1>35, <1>36, <1>37, <1>38, <1>39, <1>40, <1>41, <1>42, <1>43,
     <1>44, <1>45, <1>46, Zenon DEF step

-----------------------------------------------------------------------------
(* The blocks of the log file *)

\* The counter in the header of the log file, and in what the device may have
\* of it, stays a number.
LEMMA BlocksStep ==
    ASSUME NEW c \in Conn, ConnTypes(c), BlockTypes, step(c) PROVE BlockTypes'
<1>0. DOMAIN NoFrame = {"pg", "val", "n", "salt", "ck"} /\ NoFrame.n = 0 /\ 0 \in 0..MaxFrame
  BY WalAssumption DEF NoFrame
<1>1. CASE UNCHANGED <<pWalFd, walMay>>
  BY <1>1, Zenon DEF BlockTypes
<1>2. CASE emptyWal
  BY <1>0, <1>2 DEF BlockTypes, Counter, emptyWal
<1>3. CASE syncWal /\ UNCHANGED pWalFd
  BY <1>0, <1>3, Zenon DEF BlockTypes, Counter, syncWal
<1>4. CASE writeWalHeader(c)
  <2> DEFINE salt == IF pWal[c].nCkpt = 0 THEN done.salt + 1 ELSE pWal[c].hdr.salt
             h == WalHeader(salt, pWal[c].nCkpt)
  <2>1. Counter(h) /\ h.n \in Nat
    BY Zenon DEF Counter, WalHeader, ConnTypes, WalObject
  <2> HIDE DEF h
  <2>2. \A o : Counter(o) => \A t \in TornHeaders(o, h) : Counter(t)
    <3>1. SUFFICES ASSUME NEW o, Counter(o), NEW t \in TornHeaders(o, h) PROVE Counter(t)
      BY Zenon
    <3>2. PICK s \in {o.salt, h.salt}, k \in {o.n, h.n} : t = [o EXCEPT !.salt = s, !.n = k, !.ck = <<>>]
      BY <3>1 DEF TornHeaders
    <3>3. k \in Nat
      BY <2>1, <3>1, <3>2, Zenon DEF Counter
    <3>4. DOMAIN t = DOMAIN o /\ ("n" \in DOMAIN o => t.n = k)
      BY <3>2, Zenon
    <3> QED
      BY <3>1, <3>3, <3>4, Zenon DEF Counter
  <2>3. /\ pWalFd' = [pWalFd EXCEPT ![0] = h]
        /\ walMay' = [walMay EXCEPT ![0] = walMay[0] \cup {h} \cup UNION {TornHeaders(o, h) : o \in walMay[0]}]
    BY <1>0, <1>4, Zenon DEF writeWalHeader, h, BlockTypes
  <2>4. DOMAIN pWalFd' = 0..MaxFrame /\ DOMAIN walMay' = 0..MaxFrame /\ pWalFd'[0] = h
    BY <1>0, <2>3, Zenon DEF BlockTypes
  <2>5. walMay'[0] = walMay[0] \cup {h} \cup UNION {TornHeaders(o, h) : o \in walMay[0]}
    BY <1>0, <2>3, Zenon DEF BlockTypes
  <2>6. \A b \in walMay'[0] : Counter(b)
    BY <2>1, <2>2, <2>5, Zenon DEF BlockTypes
  <2> QED
    BY <2>1, <2>4, <2>6, Zenon DEF BlockTypes
<1>5. CASE walWriteOneFrame(c)
  <2>1. PICK f, fr : /\ pWalFd' = [pWalFd EXCEPT ![f] = fr]
                     /\ walMay' = [walMay EXCEPT ![f] = @ \cup {fr}]
                     /\ \/ \E v : fr = [pWalFd[f] EXCEPT !.val = v]
                        \/ f = pWal[c].hdr.mxFrame + loc[c].nAppended + 1
    BY <1>5, Zenon DEF walWriteOneFrame
  <2>2. DOMAIN pWalFd' = 0..MaxFrame /\ DOMAIN walMay' = 0..MaxFrame
    BY <2>1, Zenon DEF BlockTypes
  <2>3. CASE f # 0
    <3>1. pWalFd'[0] = pWalFd[0] /\ walMay'[0] = walMay[0]
      BY <1>0, <2>1, <2>3, Zenon DEF BlockTypes
    <3> QED
      BY <2>2, <3>1, Zenon DEF BlockTypes
  <2>4. CASE f = 0
    <3>1. PICK v : fr = [pWalFd[0] EXCEPT !.val = v]
      <4>1. pWal[c].hdr.mxFrame + loc[c].nAppended + 1 # 0
        BY DEF ConnTypes, WalObject, Header, Locals
      <4> QED
        BY <2>1, <2>4, <4>1, Zenon
    <3>2. Counter(fr)
      BY <3>1, Zenon DEF Counter, BlockTypes
    <3>3. pWalFd'[0] = fr /\ walMay'[0] = walMay[0] \cup {fr}
      BY <1>0, <2>1, <2>4, Zenon DEF BlockTypes
    <3> QED
      BY <2>2, <3>2, <3>3, Zenon DEF BlockTypes
  <2> QED
    BY <2>3, <2>4, Zenon
<1>6. CASE walIndexAppend(c)
  <2>1. PICK a, b, s : \/ pWalFd' = pWalFd
                       \/ pWalFd' = walRewriteChecksums(pWalFd, a, b, s)
    BY <1>6, Zenon DEF walIndexAppend
  <2>2. walMay' = [f \in 0..MaxFrame |-> walMay[f] \cup {pWalFd'[f]}]
    BY <1>6, Zenon DEF walIndexAppend
  <2>3. DOMAIN pWalFd' = 0..MaxFrame
    BY <2>1, Zenon DEF walRewriteChecksums, BlockTypes
  <2>4. Counter(pWalFd'[0])
    <3>1. CASE pWalFd' = pWalFd
      BY <3>1, Zenon DEF BlockTypes
    <3>2. CASE pWalFd' = walRewriteChecksums(pWalFd, a, b, s)
      <4>1. PICK k : pWalFd'[0] = [pWalFd[0] EXCEPT !.salt = s, !.ck = k] \/ pWalFd'[0] = pWalFd[0]
        BY <1>0, <3>2, Zenon DEF walRewriteChecksums, BlockTypes
      <4> QED
        BY <4>1, Zenon DEF Counter, BlockTypes
    <3> QED
      BY <2>1, <3>1, <3>2, Zenon
  <2>5. walMay'[0] = walMay[0] \cup {pWalFd'[0]}
    BY <1>0, <2>2, Zenon
  <2> QED
    BY <2>2, <2>3, <2>4, <2>5, Zenon DEF BlockTypes
<1> USE DEF files
<1>7. CASE closeDelete(c) \/ syncWalHeader(c) \/ ckptLock0(c) \/ ckptTruncate(c)
  BY <1>1, <1>2, <1>3, <1>7, Zenon DEF closeDelete, syncWalHeader, ckptLock0, ckptTruncate
<1>8. CASE open(c) \/ closeNotLast(c) \/ closeLast(c) \/ closeLeave(c)
  BY <1>1, <1>8, Zenon DEF open, closeNotLast, closeLast, closeLeave
<1>9. CASE beginReadHdr(c) \/ beginReadInfo(c) \/ beginReadLock0(c) \/ beginReadGivesUp(c)
  BY <1>1, <1>9, Zenon DEF beginReadHdr, beginReadInfo, beginReadLock0, beginReadGivesUp
<1>10. CASE beginReadCheck0(c) \/ beginReadCheckMark(c)
  BY <1>1, <1>10, Zenon DEF beginReadCheck0, beginReadCheckMark
<1>11. CASE beginReadMarks(c) \/ beginReadStoreMark(c) \/ beginReadLockMark(c)
  BY <1>1, <1>11, Zenon DEF beginReadMarks, beginReadStoreMark, beginReadLockMark
<1>12. CASE sqlite3WalEndReadTransaction(c) \/ sqlite3WalBeginWriteTransaction(c) \/ sqlite3WalEndWriteTransaction(c)
  BY <1>1, <1>12, Zenon DEF sqlite3WalEndReadTransaction, sqlite3WalBeginWriteTransaction, sqlite3WalEndWriteTransaction
<1>13. CASE (\E pages, n : walFrames(c, pages, n)) \/ walRestartLog(c)
  BY <1>1, <1>13, Zenon DEF walFrames, walRestartLog
<1>14. CASE restartHdr1(c) \/ restartHdr0(c) \/ restartInfo(c)
  BY <1>1, <1>14, Zenon DEF restartHdr1, restartHdr0, restartInfo
<1>15. CASE publish1(c) \/ publish0(c) \/ sqlite3WalUndo(c) \/ sqlite3WalSavepoint(c) \/ sqlite3WalSavepointUndo(c)
  BY <1>1, <1>15, Zenon DEF publish1, publish0, sqlite3WalUndo, sqlite3WalSavepoint, sqlite3WalSavepointUndo
<1>16. CASE (\E eMode : sqlite3WalCheckpoint(c, eMode)) \/ ckptWriteLock(c) \/ ckptReadHdr(c)
  BY <1>1, <1>16, Zenon DEF sqlite3WalCheckpoint, ckptWriteLock, ckptReadHdr
<1>17. CASE ckptInfo(c) \/ ckptReadMark(c) \/ ckptTryMark(c)
  BY <1>1, <1>17, Zenon DEF ckptInfo, ckptReadMark, ckptTryMark
<1>18. CASE ckptCopyPage(c) \/ ckptInterrupted(c) \/ ckptBackfilled(c)
  BY <1>1, <1>18, Zenon DEF ckptCopyPage, ckptInterrupted, ckptBackfilled
<1>19. CASE ckptRestart(c) \/ ckptEnd(c)
  BY <1>1, <1>19, Zenon DEF ckptRestart, ckptEnd
<1> QED
  BY <1>4, <1>5, <1>6, <1>7, <1>8, <1>9, <1>10, <1>11, <1>12, <1>13, <1>14, <1>15, <1>16,
     <1>17, <1>18, <1>19, Zenon DEF step

-----------------------------------------------------------------------------
(* The records of a connection *)

\* The last commit that recovery finds is a frame number.
LEMMA LastCommitFrame == ASSUME NEW w PROVE LastCommit(w) \in Nat
<1> DEFINE S == {f \in ValidFrames(w) : w[f].n # 0}
<1>1. S \in SUBSET 0..MaxFrame
  BY WalAssumption DEF ValidFrames, Frame
<1>2. Largest(S) \in S \cup {0}
  BY LargestElement, Zenon
<1> HIDE DEF S
<1>3. Largest(S) \in Nat
  <2>1. 0 \in Nat /\ \A x \in 0..MaxFrame : x \in Nat
    BY WalAssumption
  <2> QED
    BY <1>1, <1>2, <2>1, Zenon
<1> QED
  BY <1>3, Zenon DEF LastCommit, S

\* Reading the header, or recovering it when nobody else is in the log.
LEMMA ReadHdrEffect ==
    ASSUME Shapes, IndexTypes, BlockTypes, NEW c \in Conn, WalObject(pWal[c]), NEW changed,
           walIndexReadHdr(c, changed)
    PROVE  /\ WalObject(pWal'[c]) /\ pWal'[c].readLock = pWal[c].readLock
           /\ IndexTypes'
           /\ UNCHANGED shm \/ free(c, {WAL_WRITE_LOCK} \cup ReadSlots)
<1>0. DOMAIN pWal = Conn /\ DOMAIN pWal[c] = WalFields /\ WalFields = {"hdr", "readLock", "minFrame", "iReCksum", "nCkpt"}
  BY Zenon DEF Shapes, WalObject, WalFields
<1>1. CASE UNCHANGED shm /\ pWal' = [pWal EXCEPT ![c].hdr = aHdr[0]]
  <2>1. pWal'[c] = [pWal[c] EXCEPT !.hdr = aHdr[0]]
    BY <1>0, <1>1, Zenon
  <2>2. DOMAIN pWal'[c] = WalFields /\ pWal'[c].hdr = aHdr[0] /\ pWal'[c].readLock = pWal[c].readLock
        /\ pWal'[c].nCkpt = pWal[c].nCkpt
    BY <1>0, <2>1, Zenon
  <2> QED
    BY <1>1, <2>2, Zenon DEF WalObject, IndexTypes, shm
<1>2. CASE walIndexRecover(c)
  <2> DEFINE mx == LastCommit(pWalFd)
             seen == \E f \in Frame : pWalFd[f] # NoFrame
             hdr == [isInit |-> TRUE, salt |-> IF seen THEN pWalFd[0].salt ELSE 0, mxFrame |-> mx,
                     nPage |-> IF mx = 0 THEN 0 ELSE pWalFd[mx].n, ck |-> IF mx = 0 THEN <<>> ELSE pWalFd[mx].ck]
             n == IF seen THEN pWalFd[0].n ELSE pWal[c].nCkpt
  <2>1. mx \in Nat
    BY LastCommitFrame, Zenon
  <2> HIDE DEF mx, seen
  <2>2. Header(hdr)
    BY <2>1, Zenon DEF Header, HdrFields
  <2>3. n \in Nat
    BY Zenon DEF BlockTypes, Counter, WalObject
  <2> HIDE DEF hdr, n
  <2>4. /\ aHdr' = [k \in 0..1 |-> hdr]
        /\ aReadMark' = [i \in Readers |-> IF i = 1 /\ mx # 0 THEN mx ELSE READMARK_NOT_USED]
        /\ free(c, {WAL_WRITE_LOCK, WAL_CKPT_LOCK, WAL_RECOVER_LOCK} \cup ReadSlots)
    BY <1>2, Zenon DEF walIndexRecover, hdr, mx, seen
  <2>5. pWal' = [pWal EXCEPT ![c].hdr = hdr, ![c].nCkpt = n]
    BY <1>0, <1>2, Zenon DEF walIndexRecover, hdr, mx, seen, n
  <2>6. pWal'[c] = [pWal[c] EXCEPT !.hdr = hdr, !.nCkpt = n]
    BY <1>0, <2>5, Zenon
  <2>7. DOMAIN pWal'[c] = WalFields /\ pWal'[c].hdr = hdr /\ pWal'[c].readLock = pWal[c].readLock
        /\ pWal'[c].nCkpt = n
    BY <1>0, <2>6, Zenon
  <2>8. WalObject(pWal'[c])
    BY <2>2, <2>3, <2>7, Zenon DEF WalObject
  <2>9. aReadMark' \in [Readers -> Nat]
    BY <2>1, <2>4, WalAssumption DEF READMARK_NOT_USED
  <2>10. DOMAIN aHdr' = 0..1 /\ aHdr'[0] = hdr /\ aHdr'[1] = hdr
    BY <2>4
  <2>11. free(c, {WAL_WRITE_LOCK} \cup ReadSlots)
    BY <2>4, Zenon DEF free
  <2> QED
    BY <2>2, <2>7, <2>8, <2>9, <2>10, <2>11, Zenon DEF IndexTypes
<1> QED
  BY <1>1, <1>2, Zenon DEF walIndexReadHdr

\* The Wal object keeps its shape: headers come from the index, are restarted,
\* grow by what was appended or go back to the savepoint.
LEMMA ObjectStep ==
    ASSUME Shapes, IndexTypes, BlockTypes, NEW c \in Conn, Own(c), step(c)
    PROVE  WalObject(pWal'[c])
<1>0. /\ DOMAIN pc = Conn /\ DOMAIN pWal = Conn /\ DOMAIN loc = Conn /\ DOMAIN savepoint = Conn
      /\ DOMAIN pWal[c] = {"hdr", "readLock", "minFrame", "iReCksum", "nCkpt"}
      /\ DOMAIN pWal[c].hdr = {"isInit", "salt", "mxFrame", "nPage", "ck"} /\ pWal[c].hdr.mxFrame \in Nat
      /\ pWal[c].nCkpt \in Nat /\ pWal[c].readLock \in {-1, 0} \cup Readers
  BY Zenon DEF Shapes, Own, ConnTypes, WalObject, Header, WalFields, HdrFields
<1>1. Header(NoHdr) /\ Header(aHdr[0]) /\ WalObject(Wal0)
  BY Zenon DEF Header, HdrFields, NoHdr, IndexTypes, WalObject, WalFields, Wal0
<1>2. CASE UNCHANGED pWal
  BY <1>2, Zenon DEF Own, ConnTypes
<1>3. CASE closeNotLast(c) \/ beginReadInfo(c) \/ beginReadLock0(c) \/ beginReadStoreMark(c) \/ beginReadGivesUp(c)
  BY <1>2, <1>3, Zenon DEF closeNotLast, beginReadInfo, beginReadLock0, beginReadStoreMark, beginReadGivesUp
<1>4. CASE sqlite3WalBeginWriteTransaction(c) \/ restartHdr1(c) \/ restartHdr0(c) \/ syncWalHeader(c) \/ publish1(c)
  BY <1>2, <1>4, Zenon DEF sqlite3WalBeginWriteTransaction, restartHdr1, restartHdr0, syncWalHeader, publish1
<1>5. CASE publish0(c) \/ sqlite3WalSavepoint(c) \/ ckptWriteLock(c) \/ ckptInfo(c) \/ ckptReadMark(c)
  BY <1>2, <1>5, Zenon DEF publish0, sqlite3WalSavepoint, ckptWriteLock, ckptInfo, ckptReadMark
<1>6. CASE ckptTryMark(c) \/ ckptLock0(c) \/ ckptCopyPage(c) \/ ckptInterrupted(c) \/ ckptBackfilled(c)
  BY <1>2, <1>6, Zenon DEF ckptTryMark, ckptLock0, ckptCopyPage, ckptInterrupted, ckptBackfilled
<1>7. CASE ckptTruncate(c) \/ open(c) \/ closeLast(c) \/ beginReadMarks(c)
  BY <1>2, <1>7, Zenon DEF ckptTruncate, open, closeLast, beginReadMarks
<1>8. CASE (\E pages, k : walFrames(c, pages, k)) \/ \E eMode : sqlite3WalCheckpoint(c, eMode)
  BY <1>2, <1>8, Zenon DEF walFrames, sqlite3WalCheckpoint
<1>9. CASE beginReadHdr(c) \/ ckptReadHdr(c)
  BY <1>2, <1>9, ReadHdrEffect, Zenon DEF beginReadHdr, ckptReadHdr, Own, ConnTypes
<1>10. CASE beginReadCheck0(c)
  BY <1>0, <1>1, <1>10 DEF beginReadCheck0, WalObject, Header, WalFields, HdrFields
<1>11. CASE beginReadLockMark(c)
  BY <1>0, <1>1, <1>11 DEF beginReadLockMark, WalObject, Header, WalFields, HdrFields
<1>12. CASE beginReadCheckMark(c)
  <2>1. pc[c] = "checkMark" => loc[c].mxI \in Readers
    BY Zenon DEF Own, Locks, ReadLocks
  <2>2. PICK i \in Readers : pWal' = [pWal EXCEPT ![c].minFrame = 0] \/ pWal' = [pWal EXCEPT ![c].readLock = i]
    BY <1>12, <2>1, Zenon DEF beginReadCheckMark
  <2> QED
    BY <1>0, <2>2 DEF WalObject, Header, WalFields, HdrFields
<1>13. CASE sqlite3WalEndReadTransaction(c)
  BY <1>0, <1>1, <1>13, Zenon DEF sqlite3WalEndReadTransaction, WalObject, Header, WalFields, HdrFields
<1>14. CASE sqlite3WalEndWriteTransaction(c)
  BY <1>0, <1>1, <1>14, Zenon DEF sqlite3WalEndWriteTransaction, WalObject, Header, WalFields, HdrFields
<1>15. CASE walRestartLog(c)
  BY <1>0, <1>1, <1>15 DEF walRestartLog, leaveReadLock0, newLog, WalObject, Header, WalFields, HdrFields
<1>16. CASE restartInfo(c)
  BY <1>0, <1>1, <1>16 DEF restartInfo, leaveReadLock0, WalObject, Header, WalFields, HdrFields
<1>17. CASE writeWalHeader(c)
  BY <1>0, <1>1, <1>17, Zenon DEF writeWalHeader, WalObject, Header, WalFields, HdrFields
<1>18. CASE walWriteOneFrame(c)
  BY <1>0, <1>1, <1>18, Zenon DEF walWriteOneFrame, WalObject, Header, WalFields, HdrFields
<1>19. CASE walIndexAppend(c)
  <2>1. loc[c].nAppended \in Nat
    BY Zenon DEF Own, ConnTypes, Locals
  <2> DEFINE l == loc[c]
             commit == l.nTruncate # 0
             recksum == commit /\ pWal[c].iReCksum # 0
             mx == pWal[c].hdr.mxFrame + l.nAppended
             w == IF recksum THEN walRewriteChecksums(pWalFd, pWal[c].iReCksum, mx, pWal[c].hdr.salt)
                  ELSE pWalFd
  <2>2. pWal' = [pWal EXCEPT ![c].hdr.mxFrame = mx,
                             ![c].hdr.nPage = IF commit THEN l.nTruncate ELSE @,
                             ![c].hdr.ck = IF recksum THEN w[mx].ck ELSE @,
                             ![c].iReCksum = IF recksum THEN 0 ELSE @]
    BY <1>19, Zenon DEF walIndexAppend
  <2>3. mx \in Nat
    BY <1>0, <2>1
  <2> HIDE DEF w, commit, recksum, mx
  <2> QED
    BY <1>0, <2>2, <2>3, Zenon DEF WalObject, Header, WalFields, HdrFields
<1>20. CASE sqlite3WalUndo(c)
  BY <1>0, <1>1, <1>20, Zenon DEF sqlite3WalUndo, WalObject, Header, WalFields, HdrFields
<1>21. CASE sqlite3WalSavepointUndo(c)
  <2> DEFINE mx == IF savepoint[c].nCkpt # pWal[c].nCkpt THEN 0 ELSE savepoint[c].mxFrame
  <2>1. savepoint[c] # NoSavepoint /\ pc[c] = "read"
    BY <1>21, Zenon DEF sqlite3WalSavepointUndo
  <2>2. mx \in Nat
    <3>1. "read" \notin NewLog \cup {"ended"}
      BY Zenon DEF NewLog
    <3>2. savepoint[c].nCkpt = pWal[c].nCkpt => aHdr[0].mxFrame <= savepoint[c].mxFrame
      BY <2>1, <3>1, Zenon DEF Own, Headers, Savepoints
    <3>3. savepoint[c].mxFrame \in Int /\ aHdr[0].mxFrame \in Nat
      BY Zenon DEF Own, ConnTypes, Saved, IndexTypes, Header
    <3> QED
      BY <3>2, <3>3
  <2> HIDE DEF mx
  <2>3. PICK ck, iReCksum :
           \/ pWal' = pWal
           \/ pWal' = [pWal EXCEPT ![c].hdr.mxFrame = mx, ![c].hdr.ck = ck, ![c].iReCksum = iReCksum]
    BY <1>0, <1>21, ZenonT(30) DEF sqlite3WalSavepointUndo, mx
  <2> QED
    BY <1>0, <1>2, <2>2, <2>3 DEF WalObject, Header, WalFields, HdrFields
<1>22. CASE ckptRestart(c)
  BY <1>0, <1>1, <1>22 DEF ckptRestart, newLog, WalObject, Header, WalFields, HdrFields
<1>23. CASE ckptEnd(c)
  BY <1>0, <1>1, <1>23, Zenon DEF ckptEnd, WalObject, Header, WalFields, HdrFields
<1>24. CASE closeLeave(c)
  BY <1>0, <1>1, <1>24, Zenon DEF closeLeave, leave, unlock, WalObject, Header, WalFields, HdrFields
<1>25. CASE closeDelete(c)
  BY <1>0, <1>1, <1>25, Zenon DEF closeDelete, leave, unlock, WalObject, Header, WalFields, HdrFields
<1> QED
  BY <1>3, <1>4, <1>5, <1>6, <1>7, <1>8, <1>9, <1>10, <1>11, <1>12, <1>13, <1>14, <1>15, <1>16, <1>17, <1>18, <1>19, <1>20, <1>21, <1>22, <1>23, <1>24, <1>25, Zenon DEF step

\* So do the local variables; a checkpoint is at a slot with a mark.
LEMMA LocalsStep ==
    ASSUME Shapes, IndexTypes, NEW c \in Conn, Own(c), step(c)
    PROVE  /\ Locals(loc'[c])
           /\ pc'[c] \in {"ckptMark", "ckptTryMark"} => loc'[c].i \in Readers
           /\ pc'[c] = "ckptTryMark" => loc'[c].y \in Nat
<1> DEFINE Goal == /\ Locals(loc'[c])
                   /\ pc'[c] \in {"ckptMark", "ckptTryMark"} => loc'[c].i \in Readers
                   /\ pc'[c] = "ckptTryMark" => loc'[c].y \in Nat
<1>0. DOMAIN pc = Conn /\ DOMAIN loc = Conn /\ pWal[c].hdr.mxFrame \in Nat /\ Locals(loc[c])
  BY Zenon DEF Shapes, Own, ConnTypes, WalObject, Header
<1>1. Locals(Loc0)
  BY Zenon DEF Locals, LocFields, Loc0
<1>2. CASE loc'[c] \in {loc[c], Loc0} /\ pc'[c] \notin {"ckptMark", "ckptTryMark"}
  BY <1>0, <1>1, <1>2, Zenon
<1>3. CASE open(c) \/ closeNotLast(c) \/ closeLeave(c) \/ closeDelete(c)
  BY <1>0, <1>2, <1>3, Zenon DEF open, closeNotLast, closeLeave, closeDelete, goto, leave, return
<1>4. CASE beginReadInfo(c) \/ beginReadLock0(c) \/ beginReadGivesUp(c) \/ sqlite3WalEndReadTransaction(c)
  BY <1>0, <1>2, <1>4, Zenon DEF beginReadInfo, beginReadLock0, beginReadGivesUp, sqlite3WalEndReadTransaction, goto, return
<1>5. CASE sqlite3WalBeginWriteTransaction(c) \/ sqlite3WalEndWriteTransaction(c) \/ walRestartLog(c) \/ restartHdr1(c)
  BY <1>0, <1>2, <1>5, Zenon DEF sqlite3WalBeginWriteTransaction, sqlite3WalEndWriteTransaction, walRestartLog, restartHdr1, goto, leaveReadLock0
<1>6. CASE restartHdr0(c) \/ restartInfo(c) \/ writeWalHeader(c) \/ syncWalHeader(c)
  BY <1>0, <1>2, <1>6, Zenon DEF restartHdr0, restartInfo, writeWalHeader, syncWalHeader, goto, leaveReadLock0
<1>7. CASE publish1(c) \/ publish0(c) \/ sqlite3WalUndo(c) \/ sqlite3WalSavepoint(c)
  BY <1>0, <1>2, <1>7, Zenon DEF publish1, publish0, sqlite3WalUndo, sqlite3WalSavepoint, goto, return
<1>8. CASE sqlite3WalSavepointUndo(c) \/ ckptTruncate(c) \/ ckptEnd(c)
  BY <1>0, <1>2, <1>8, Zenon DEF sqlite3WalSavepointUndo, ckptTruncate, ckptEnd, goto, return
<1>9. CASE beginReadHdr(c)
  BY <1>0, <1>1, <1>9 DEF beginReadHdr, goto, Locals, LocFields
<1>10. CASE beginReadCheck0(c)
  BY <1>0, <1>1, <1>10 DEF beginReadCheck0, begun, retry, return, goto, Locals, LocFields
<1>11. CASE beginReadStoreMark(c)
  BY <1>0, <1>1, <1>11, Zenon DEF beginReadStoreMark, goto, Locals, LocFields
<1>12. CASE beginReadLockMark(c)
  BY <1>0, <1>1, <1>12 DEF beginReadLockMark, retry, goto, Locals, LocFields
<1>13. CASE beginReadCheckMark(c)
  BY <1>0, <1>1, <1>13 DEF beginReadCheckMark, begun, retry, return, goto, Locals, LocFields
<1>14. CASE walWriteOneFrame(c)
  <2>1. PICK p, overwrite :
           loc' = [loc EXCEPT ![c].pages = @ \ {p}, ![c].nAppended = IF overwrite THEN @ ELSE @ + 1]
    BY <1>14, Zenon DEF walWriteOneFrame
  <2>2. pc'[c] = "append"
    BY <1>14, Zenon DEF walWriteOneFrame
  <2> QED
    BY <1>0, <2>1, <2>2 DEF Locals, LocFields
<1>15. CASE walIndexAppend(c)
  BY <1>0, <1>1, <1>15, Zenon DEF walIndexAppend, return, goto, Locals, LocFields
<1>16. CASE ckptWriteLock(c)
  BY <1>0, <1>1, <1>16, Zenon DEF ckptWriteLock, goto, Locals, LocFields
<1>17. CASE ckptReadHdr(c)
  BY <1>0, <1>1, <1>17 DEF ckptReadHdr, goto, Locals, LocFields
<1>18. CASE ckptLock0(c)
  BY <1>0, <1>1, <1>18 DEF ckptLock0, ckptDone, goto, Locals, LocFields
<1>19. CASE ckptCopyPage(c)
  BY <1>0, <1>1, <1>19, Zenon DEF ckptCopyPage, goto, Locals, LocFields
<1>20. CASE ckptInterrupted(c)
  BY <1>0, <1>1, <1>20, Zenon DEF ckptInterrupted, goto, Locals, LocFields
<1>21. CASE ckptBackfilled(c)
  BY <1>0, <1>1, <1>21, Zenon DEF ckptBackfilled, ckptDone, goto, Locals, LocFields
<1>22. CASE ckptRestart(c)
  BY <1>0, <1>1, <1>22 DEF ckptRestart, goto, Locals, LocFields
<1>23. CASE closeLast(c)
  BY <1>0, <1>1, <1>23, Zenon DEF closeLast, goto, Locals, LocFields
<1>24. CASE (\E pages, k : walFrames(c, pages, k)) \/ \E eMode : sqlite3WalCheckpoint(c, eMode)
  <2>1. ASSUME NEW pages, NEW k, walFrames(c, pages, k) PROVE Goal
    BY <1>0, <2>1, Zenon DEF walFrames, goto, Locals, LocFields
  <2>2. ASSUME NEW eMode, sqlite3WalCheckpoint(c, eMode) PROVE Goal
    BY <1>0, <2>2, Zenon DEF sqlite3WalCheckpoint, goto, Locals, LocFields
  <2> QED
    BY <1>24, <2>1, <2>2, Zenon
<1>25. CASE beginReadMarks(c)
  <2>1. aReadMark \in [Readers -> Nat]
    BY Zenon DEF IndexTypes
  <2>2. \/ \E i, m : loc' = [loc EXCEPT ![c].mxI = i, ![c].mxReadMark = m] /\ goto(c, "storeMark")
        \/ retry(c)
        \/ \E i, m : loc' = [loc EXCEPT ![c].mxI = i, ![c].mxReadMark = m] /\ goto(c, "lockMark")
    BY <1>0, <1>25, <2>1, MarksEffect, Zenon
  <2>3. CASE retry(c)
    BY <1>0, <2>3, Zenon DEF retry, goto, Locals, LocFields
  <2>4. ASSUME NEW i, NEW m, loc' = [loc EXCEPT ![c].mxI = i, ![c].mxReadMark = m],
               goto(c, "storeMark") \/ goto(c, "lockMark")
        PROVE  Goal
    BY <1>0, <2>4, Zenon DEF goto, Locals, LocFields
  <2> QED
    BY <2>2, <2>3, <2>4, Zenon
<1>26. CASE ckptInfo(c)
  BY <1>0, <1>26, SlotNumbers DEF ckptInfo, ckptDone, goto, Locals, LocFields
<1>27. CASE ckptReadMark(c)
  <2>1. loc[c].i \in Readers /\ aReadMark \in [Readers -> Nat] /\ loc[c].mxSafeFrame \in Nat
    BY <1>27, Zenon DEF ckptReadMark, Own, ConnTypes, Locals, IndexTypes
  <2>2. \A m \in Nat : nextMark(c, m) => Goal
    <3>1. loc[c].i \in Nat /\ (loc[c].i + 1 < WAL_NREADER => loc[c].i + 1 \in Readers)
      BY <2>1, SlotAssumption, WalAssumption DEF Readers, WAL_NREADER
    <3> QED
      BY <1>0, <3>1 DEF nextMark, goto, Locals, LocFields
  <2>3. CASE loc' = [loc EXCEPT ![c].y = aReadMark[loc[c].i]] /\ goto(c, "ckptTryMark")
    BY <1>0, <2>1, <2>3, Zenon DEF goto, Locals, LocFields
  <2> QED
    BY <1>27, <2>1, <2>2, <2>3, Zenon DEF ckptReadMark
<1>28. CASE ckptTryMark(c)
  <2>1. loc[c].i \in Readers /\ loc[c].y \in Nat /\ loc[c].mxSafeFrame \in Nat
    BY <1>28, Zenon DEF ckptTryMark, Own, ConnTypes, Locals
  <2>2. \A m \in Nat : nextMark(c, m) => Goal
    <3>1. loc[c].i \in Nat /\ (loc[c].i + 1 < WAL_NREADER => loc[c].i + 1 \in Readers)
      BY <2>1, SlotAssumption, WalAssumption DEF Readers, WAL_NREADER
    <3> QED
      BY <1>0, <3>1 DEF nextMark, goto, Locals, LocFields
  <2> QED
    BY <1>28, <2>1, <2>2, Zenon DEF ckptTryMark
<1> QED
  BY <1>3, <1>4, <1>5, <1>6, <1>7, <1>8, <1>9, <1>10, <1>11, <1>12, <1>13, <1>14, <1>15, <1>16, <1>17, <1>18, <1>19, <1>20, <1>21, <1>22, <1>23, <1>24, <1>25, <1>26, <1>27, <1>28, Zenon DEF step

\* And the savepoint.
LEMMA SavedStep ==
    ASSUME Shapes, IndexTypes, NEW c \in Conn, Own(c), step(c)
    PROVE  Saved(savepoint'[c])
<1>0. DOMAIN savepoint = Conn /\ Saved(savepoint[c]) /\ pWal[c].nCkpt \in Nat /\ pWal[c].hdr.mxFrame \in Nat
  BY Zenon DEF Shapes, Own, ConnTypes, WalObject, Header
<1>1. CASE UNCHANGED savepoint
  BY <1>0, <1>1, Zenon
<1>2. CASE sqlite3WalEndWriteTransaction(c)
  BY <1>0, <1>2 DEF sqlite3WalEndWriteTransaction, NoSavepoint, Saved
<1>3. CASE sqlite3WalSavepoint(c)
  BY <1>0, <1>3 DEF sqlite3WalSavepoint, Saved
<1>4. CASE sqlite3WalSavepointUndo(c)
  <2>1. PICK mx : /\ savepoint' = [savepoint EXCEPT ![c].mxFrame = mx, ![c].nCkpt = pWal[c].nCkpt]
                  /\ mx = 0 \/ mx = savepoint[c].mxFrame
    BY <1>4, Zenon DEF sqlite3WalSavepointUndo
  <2> QED
    BY <1>0, <2>1 DEF Saved
<1>5. CASE closeNotLast(c) \/ beginReadHdr(c) \/ beginReadInfo(c) \/ beginReadLock0(c) \/ beginReadCheck0(c)
  BY <1>1, <1>5, Zenon DEF closeNotLast, beginReadHdr, beginReadInfo, beginReadLock0, beginReadCheck0
<1>6. CASE beginReadStoreMark(c) \/ beginReadLockMark(c) \/ beginReadCheckMark(c) \/ beginReadGivesUp(c) \/ sqlite3WalEndReadTransaction(c)
  BY <1>1, <1>6, Zenon DEF beginReadStoreMark, beginReadLockMark, beginReadCheckMark, beginReadGivesUp, sqlite3WalEndReadTransaction
<1>7. CASE sqlite3WalBeginWriteTransaction(c) \/ walRestartLog(c) \/ restartHdr1(c) \/ restartHdr0(c) \/ restartInfo(c)
  BY <1>1, <1>7, Zenon DEF sqlite3WalBeginWriteTransaction, walRestartLog, restartHdr1, restartHdr0, restartInfo
<1>8. CASE writeWalHeader(c) \/ syncWalHeader(c) \/ walWriteOneFrame(c) \/ walIndexAppend(c) \/ publish1(c)
  BY <1>1, <1>8, Zenon DEF writeWalHeader, syncWalHeader, walWriteOneFrame, walIndexAppend, publish1
<1>9. CASE publish0(c) \/ sqlite3WalUndo(c) \/ ckptWriteLock(c) \/ ckptReadHdr(c) \/ ckptInfo(c)
  BY <1>1, <1>9, Zenon DEF publish0, sqlite3WalUndo, ckptWriteLock, ckptReadHdr, ckptInfo
<1>10. CASE ckptReadMark(c) \/ ckptTryMark(c) \/ ckptLock0(c) \/ ckptCopyPage(c) \/ ckptInterrupted(c)
  BY <1>1, <1>10, Zenon DEF ckptReadMark, ckptTryMark, ckptLock0, ckptCopyPage, ckptInterrupted
<1>11. CASE ckptBackfilled(c) \/ ckptRestart(c) \/ ckptTruncate(c) \/ ckptEnd(c) \/ closeLeave(c)
  BY <1>1, <1>11, Zenon DEF ckptBackfilled, ckptRestart, ckptTruncate, ckptEnd, closeLeave
<1>12. CASE closeDelete(c) \/ open(c) \/ closeLast(c) \/ beginReadMarks(c)
  BY <1>1, <1>12, Zenon DEF closeDelete, open, closeLast, beginReadMarks
<1>13. CASE (\E pages, k : walFrames(c, pages, k)) \/ \E eMode : sqlite3WalCheckpoint(c, eMode)
  BY <1>1, <1>13, Zenon DEF walFrames, sqlite3WalCheckpoint
<1> QED
  BY <1>2, <1>3, <1>4, <1>5, <1>6, <1>7, <1>8, <1>9, <1>10, <1>11, <1>12, <1>13, Zenon DEF step

\* The records of c keep their types.
LEMMA TypesStep ==
    ASSUME Shapes, IndexTypes, BlockTypes, NEW c \in Conn, Own(c), step(c)
    PROVE  ConnTypes(c)'
BY ObjectStep, LocalsStep, SavedStep, Zenon DEF ConnTypes

-----------------------------------------------------------------------------
(* The wal-index *)

\* The steps that write the header or a mark of the index.
IndexWrite(c) ==
    \/ \E changed : walIndexReadHdr(c, changed) /\ pc[c] \in {"idle", "hdr", "ckptHdr"}
    \/ beginReadStoreMark(c) \/ restartHdr1(c) \/ restartHdr0(c) \/ restartInfo(c)
    \/ publish1(c) \/ publish0(c) \/ ckptTryMark(c) \/ closeDelete(c)

\* Other steps leave the index as it is.
LEMMA IndexWrites ==
    ASSUME NEW c \in Conn, step(c) PROVE IndexWrite(c) \/ UNCHANGED <<aHdr, aReadMark>>
<1> USE DEF IndexWrite, shm
<1>1. CASE beginReadHdr(c) \/ ckptReadHdr(c)
  BY <1>1, Zenon DEF beginReadHdr, ckptReadHdr
<1>2. CASE beginReadStoreMark(c) \/ restartHdr1(c) \/ restartHdr0(c) \/ restartInfo(c) \/ publish1(c) \/ publish0(c)
           \/ ckptTryMark(c) \/ closeDelete(c)
  BY <1>2, Zenon
<1>3. CASE closeNotLast(c) \/ beginReadInfo(c) \/ beginReadLock0(c) \/ beginReadCheck0(c) \/ beginReadLockMark(c)
  BY <1>3, Zenon DEF closeNotLast, beginReadInfo, beginReadLock0, beginReadCheck0, beginReadLockMark
<1>4. CASE beginReadCheckMark(c) \/ beginReadGivesUp(c) \/ sqlite3WalEndReadTransaction(c) \/ sqlite3WalBeginWriteTransaction(c) \/ sqlite3WalEndWriteTransaction(c)
  BY <1>4, Zenon DEF beginReadCheckMark, beginReadGivesUp, sqlite3WalEndReadTransaction, sqlite3WalBeginWriteTransaction, sqlite3WalEndWriteTransaction
<1>5. CASE walRestartLog(c) \/ writeWalHeader(c) \/ syncWalHeader(c) \/ walWriteOneFrame(c) \/ walIndexAppend(c)
  BY <1>5, Zenon DEF walRestartLog, writeWalHeader, syncWalHeader, walWriteOneFrame, walIndexAppend
<1>6. CASE sqlite3WalUndo(c) \/ sqlite3WalSavepoint(c) \/ sqlite3WalSavepointUndo(c) \/ ckptWriteLock(c) \/ ckptInfo(c)
  BY <1>6, Zenon DEF sqlite3WalUndo, sqlite3WalSavepoint, sqlite3WalSavepointUndo, ckptWriteLock, ckptInfo
<1>7. CASE ckptReadMark(c) \/ ckptLock0(c) \/ ckptCopyPage(c) \/ ckptInterrupted(c) \/ ckptBackfilled(c)
  BY <1>7, Zenon DEF ckptReadMark, ckptLock0, ckptCopyPage, ckptInterrupted, ckptBackfilled
<1>8. CASE ckptRestart(c) \/ ckptTruncate(c) \/ ckptEnd(c) \/ closeLeave(c) \/ open(c)
  BY <1>8, Zenon DEF ckptRestart, ckptTruncate, ckptEnd, closeLeave, open
<1>9. CASE closeLast(c) \/ beginReadMarks(c)
  BY <1>9, Zenon DEF closeLast, beginReadMarks
<1>10. CASE (\E pages, k : walFrames(c, pages, k)) \/ \E eMode : sqlite3WalCheckpoint(c, eMode)
  BY <1>10, Zenon DEF walFrames, sqlite3WalCheckpoint
<1> QED
  BY <1>1, <1>2, <1>3, <1>4, <1>5, <1>6, <1>7, <1>8, <1>9, <1>10, Zenon DEF step

\* Headers and marks of the index keep their types.
LEMMA IndexStep ==
    ASSUME Shapes, IndexTypes, BlockTypes, NEW c \in Conn, Own(c), step(c) PROVE IndexTypes'
<1>0. /\ DOMAIN aHdr = 0..1 /\ Header(aHdr[0]) /\ Header(aHdr[1]) /\ aReadMark \in [Readers -> Nat]
      /\ WalObject(pWal[c]) /\ Header(pWal[c].hdr) /\ pWal[c].hdr.mxFrame \in Nat /\ loc[c].mxSafeFrame \in Nat
      /\ 0 \in 0..1 /\ 1 \in 0..1 /\ READMARK_NOT_USED \in Nat
  BY WalAssumption DEF IndexTypes, Own, ConnTypes, WalObject, Header, Locals, READMARK_NOT_USED
<1>1. CASE UNCHANGED <<aHdr, aReadMark>>
  BY <1>1, Zenon DEF IndexTypes
<1>2. ASSUME NEW changed, walIndexReadHdr(c, changed) PROVE IndexTypes'
  BY <1>0, <1>2, ReadHdrEffect, Zenon
<1>3. CASE beginReadStoreMark(c)
  BY <1>0, <1>3, Zenon DEF beginReadStoreMark, IndexTypes
<1>4. CASE restartHdr1(c) \/ publish1(c)
  BY <1>0, <1>4, Zenon DEF restartHdr1, publish1, IndexTypes
<1>5. CASE restartHdr0(c) \/ publish0(c)
  BY <1>0, <1>5, Zenon DEF restartHdr0, publish0, IndexTypes
<1>6. CASE restartInfo(c)
  BY <1>0, <1>6, Zenon DEF restartInfo, IndexTypes
<1>7. CASE ckptTryMark(c)
  BY <1>0, <1>7, Zenon DEF ckptTryMark, IndexTypes
<1>8. CASE closeDelete(c)
  <2>1. Header(NoHdr)
    BY Zenon DEF Header, HdrFields, NoHdr
  <2> QED
    BY <1>0, <1>1, <1>8, <2>1 DEF closeDelete, IndexTypes, shm
<1> QED
  BY <1>1, <1>2, <1>3, <1>4, <1>5, <1>6, <1>7, <1>8, IndexWrites, Zenon DEF IndexWrite

-----------------------------------------------------------------------------
(* What the others know *)

\* One connection has the write lock; a connection with an exclusive slot keeps
\* the readers of that slot away.
LEMMA Exclusion ==
    ASSUME SlotsInv, NEW c \in Conn, NEW d \in Conn \ {c}, Own(d)
    PROVE  /\ excl[WAL_WRITE_LOCK] \in {NoConn, c} => ~writeLock(d) /\ savepoint[d] = NoSavepoint
           /\ \A i \in Readers :
                 excl[WAL_READ_LOCK(i)] = c \/ shared[WAL_READ_LOCK(i)] \ {c} = {} => pWal[d].readLock # i
<1>1. excl[WAL_WRITE_LOCK] \in {NoConn, c} => ~writeLock(d)
  BY ConnAssumption, Zenon DEF writeLock
<1>2. ~writeLock(d) => savepoint[d] = NoSavepoint
  BY Zenon DEF Own, Headers, Savepoints
<1>3. ASSUME NEW i \in Readers, excl[WAL_READ_LOCK(i)] = c \/ shared[WAL_READ_LOCK(i)] \ {c} = {}
      PROVE  pWal[d].readLock # i
  <2>1. d \notin shared[WAL_READ_LOCK(i)]
    BY <1>3, SlotNumbers, Zenon DEF SlotsInv
  <2> QED
    BY <2>1, Zenon DEF Own, Locks, ReadLocks
<1> QED
  BY <1>1, <1>2, <1>3, Zenon

\* A step of c leaves another connection what it knows.
LEMMA OthersStep ==
    ASSUME LogInv, NEW c \in Conn, step(c), NEW d \in Conn \ {c} PROVE Own(d)'
<1>0. /\ Shapes /\ IndexTypes /\ BlockTypes /\ SlotsInv /\ LevelsInv
      /\ Own(c) /\ Own(d) /\ d \in Conn /\ d # c
  BY Zenon DEF LogInv
<1>1. Untouched(c) /\ Apart(c)
  BY <1>0, StepIsOwn, SlotsStep, Zenon
<1>2. ConnTypes(d)' /\ Locks(d)' /\ (writeLock(d)' <=> writeLock(d))
  BY <1>0, <1>1, OthersLocks, Zenon DEF Own
<1>3. pc'[d] = pc[d] /\ pWal'[d] = pWal[d] /\ savepoint'[d] = savepoint[d]
  BY <1>1, Zenon DEF Untouched
<1>4. SUFFICES Headers(d)'
  BY <1>2, Zenon DEF Own
<1>5. CASE /\ aHdr'[0] = aHdr[0]
           /\ pWal[d].readLock \in Readers => aReadMark'[pWal[d].readLock] = aReadMark[pWal[d].readLock]
  BY <1>0, <1>1, <1>2, <1>5, OthersHeaders, Zenon DEF Own
<1>6. CASE excl[WAL_WRITE_LOCK] \in {NoConn, c} /\ pWal[d].readLock \notin Readers
  <2>1. ~writeLock(d) /\ savepoint[d] = NoSavepoint
    BY <1>0, <1>6, Exclusion, Zenon
  <2> QED
    BY <1>0, <1>2, <1>3, <1>6, <2>1, BystanderHeaders, Zenon
<1>7. ASSUME NEW changed, walIndexReadHdr(c, changed) PROVE Headers(d)'
  <2>1. CASE UNCHANGED shm
    BY <1>5, <2>1, Zenon DEF shm
  <2>2. CASE free(c, {WAL_WRITE_LOCK} \cup ReadSlots)
    <3>1. excl[WAL_WRITE_LOCK] \in {NoConn, c}
      BY <2>2, Zenon DEF free, heldByOther
    <3>2. \A i \in Readers : shared[WAL_READ_LOCK(i)] \ {c} = {}
      BY <2>2, SlotNumbers, Zenon DEF free
    <3>3. pWal[d].readLock \notin Readers
      BY <1>0, <3>2, Exclusion, Zenon
    <3> QED
      BY <1>6, <3>1, <3>3, Zenon
  <2> QED
    BY <1>0, <1>7, <2>1, <2>2, ReadHdrEffect, Zenon DEF Own, ConnTypes
<1>8. CASE beginReadStoreMark(c)
  <2>1. loc[c].mxI \in Readers /\ excl[WAL_READ_LOCK(loc[c].mxI)] = c
    BY <1>0, <1>8, Zenon DEF beginReadStoreMark, Own, Locks, ReadLocks
  <2>2. pWal[d].readLock # loc[c].mxI
    BY <1>0, <2>1, Exclusion, Zenon
  <2>3. aHdr' = aHdr /\ aReadMark' = [aReadMark EXCEPT ![loc[c].mxI] = pWal[c].hdr.mxFrame]
    BY <1>8, Zenon DEF beginReadStoreMark
  <2>4. pWal[d].readLock \in Readers => aReadMark'[pWal[d].readLock] = aReadMark[pWal[d].readLock]
    BY <1>0, <2>2, <2>3, Zenon DEF IndexTypes
  <2> QED
    BY <1>5, <2>3, <2>4, Zenon
<1>9. CASE restartHdr1(c) \/ publish1(c)
  <2>1. aReadMark' = aReadMark /\ aHdr' = [aHdr EXCEPT ![1] = pWal[c].hdr]
    BY <1>9, Zenon DEF restartHdr1, publish1
  <2>2. aHdr'[0] = aHdr[0]
    BY <1>0, <2>1 DEF IndexTypes
  <2> QED
    BY <1>5, <2>1, <2>2, Zenon
<1>10. CASE restartHdr0(c) \/ restartInfo(c)
  <2>1. writeLock(c) /\ \A i \in Readers : excl[WAL_READ_LOCK(i)] = c
    BY <1>0, <1>10, Zenon DEF restartHdr0, restartInfo, Own, Locks, ReadLocks, WriteLock, NewLog
  <2>2. pWal[d].readLock \notin Readers
    BY <1>0, <2>1, Exclusion, Zenon
  <2> QED
    BY <1>6, <2>1, <2>2, Zenon DEF writeLock
<1>11. CASE publish0(c)
  <2>1. pc[c] = "publish0" /\ aReadMark' = aReadMark /\ aHdr' = [aHdr EXCEPT ![0] = pWal[c].hdr]
    BY <1>11, Zenon DEF publish0
  <2>2. writeLock(c) /\ pc[c] \in Transaction
    BY <1>0, <2>1, Zenon DEF Own, Locks, WriteLock, Frames, Transaction
  <2>3. ~writeLock(d) /\ savepoint[d] = NoSavepoint
    BY <1>0, <2>2, Exclusion, Zenon DEF writeLock
  <2>4. aHdr'[0] = pWal[c].hdr
    BY <1>0, <2>1 DEF IndexTypes
  <2>5. /\ aHdr[0].mxFrame <= pWal[c].hdr.mxFrame
        /\ pWal[c].hdr.salt = aHdr[0].salt \/ aHdr[0].mxFrame = 0
    BY <1>0, <2>2, Zenon DEF Own, Headers, WritersHeader
  <2>6. aHdr[0].mxFrame \in Nat /\ pWal[c].hdr.mxFrame \in Nat /\ pWal[d].hdr.mxFrame \in Nat
    BY <1>0, Zenon DEF Own, ConnTypes, WalObject, Header, IndexTypes
  <2>7. ASSUME pWal[d].readLock \in Readers, pWal[d].hdr.mxFrame > 0
        PROVE  pWal[d].hdr.salt = pWal[c].hdr.salt /\ pWal[d].hdr.mxFrame <= pWal[c].hdr.mxFrame
    <3>1. pWal[d].hdr.salt = aHdr[0].salt /\ pWal[d].hdr.mxFrame <= aHdr[0].mxFrame
      BY <1>0, <2>3, <2>7, Zenon DEF Own, Headers, ReadersHeader
    <3>2. aHdr[0].mxFrame # 0 /\ pWal[d].hdr.mxFrame <= pWal[c].hdr.mxFrame
      BY <2>5, <2>6, <2>7, <3>1
    <3> QED
      BY <2>5, <3>1, <3>2, Zenon
  <2>8. pWal[d].readLock \in Readers => aReadMark[pWal[d].readLock] <= pWal[d].hdr.mxFrame
    BY <1>0, <2>3, Zenon DEF Own, Headers, ReadersHeader
  <2>9. ReadersHeader(d)'
    BY <1>3, <2>1, <2>4, <2>7, <2>8, Zenon DEF ReadersHeader
  <2>10. pc'[d] \notin Frames \cup NewLog \cup {"ended"}
    BY <1>2, <2>3, Zenon DEF Locks, WriteLock
  <2>11. WritersHeader(d)'
    BY <1>2, <2>3, <2>10, Zenon DEF WritersHeader, Frames
  <2>12. Savepoints(d)'
    BY <1>3, <2>3, Zenon DEF Savepoints
  <2> QED
    BY <2>9, <2>11, <2>12, Zenon DEF Headers
<1>12. CASE ckptTryMark(c)
  <2>1. loc[c].i \in Readers /\ aHdr' = aHdr
    BY <1>0, <1>12, Zenon DEF ckptTryMark, Own, ConnTypes
  <2>2. CASE UNCHANGED aReadMark
    BY <1>5, <2>1, <2>2, Zenon
  <2>3. ASSUME NEW m, free(c, {WAL_READ_LOCK(loc[c].i)}), aReadMark' = [aReadMark EXCEPT ![loc[c].i] = m]
        PROVE  Headers(d)'
    <3>1. shared[WAL_READ_LOCK(loc[c].i)] \ {c} = {}
      BY <2>3, Zenon DEF free
    <3>2. pWal[d].readLock # loc[c].i
      BY <1>0, <2>1, <3>1, Exclusion, ZenonT(30)
    <3>3. pWal[d].readLock \in Readers => aReadMark'[pWal[d].readLock] = aReadMark[pWal[d].readLock]
      BY <1>0, <2>3, <3>2, Zenon DEF IndexTypes
    <3> QED
      BY <1>5, <2>1, <3>3, Zenon
  <2> QED
    BY <1>12, <2>2, <2>3, Zenon DEF ckptTryMark
<1>13. CASE closeDelete(c)
  <2>1. loc[c].closing
    BY <1>13, Zenon DEF closeDelete
  <2>2. pc[d] = "closed"
    BY <1>0, <2>1, Zenon DEF LevelsInv
  <2>3. ~writeLock(d) /\ pWal[d].readLock = -1
    BY <1>0, <2>2, Zenon DEF Own, Locks, ReadLocks, WriteLock, Outside, Frames, NewLog
  <2>4. savepoint[d] = NoSavepoint /\ pWal[d].readLock \notin Readers
    BY <1>0, <2>3, SlotNumbers, Zenon DEF Own, Headers, Savepoints
  <2> QED
    BY <1>0, <1>2, <1>3, <2>3, <2>4, BystanderHeaders, Zenon
<1> QED
  BY <1>5, <1>7, <1>8, <1>9, <1>10, <1>11, <1>12, <1>13, IndexWrites, Zenon DEF IndexWrite

-----------------------------------------------------------------------------
(* What c itself knows after its step *)

\* Outside of transactions and checkpoints a connection has nothing,
IsOutside(c) ==
    /\ pc[c] \in Outside /\ pWal[c].readLock = -1 /\ ~loc[c].useWal /\ ~loc[c].closing
    /\ loc[c].eMode = PASSIVE <=> pc[c] # "ckptWrite"
    /\ ~writeLock(c) /\ savepoint[c] = NoSavepoint

\* in a checkpoint it has no read lock, and the write lock unless it is PASSIVE.
IsCopying(c) ==
    /\ pc[c] \in Copying /\ pWal[c].readLock = -1 /\ ~loc[c].useWal
    /\ writeLock(c) <=> loc[c].eMode # PASSIVE
    /\ loc[c].closing => loc[c].eMode = PASSIVE
    /\ savepoint[c] = NoSavepoint

\* The invariant says so outside of a call,
LEMMA OutsideNow == ASSUME NEW c \in Conn, Own(c), pc[c] \in Outside PROVE IsOutside(c)
<1>1. /\ pc[c] \notin Calling \cup Transaction \cup NewLog \cup Copying \cup {"ckptTruncate", "restartInfo"}
      /\ pc[c] \notin Frames \cup {"read", "ended", "restart"}
  BY Zenon DEF Outside, Calling, Transaction, NewLog, Copying, Marking, Frames
<1> QED
  BY <1>1, Zenon DEF IsOutside, Own, Locks, ReadLocks, WriteLock, Headers, Savepoints

\* and in a checkpoint.
LEMMA CopyingNow == ASSUME NEW c \in Conn, Own(c), pc[c] \in Copying PROVE IsCopying(c)
<1>1. pc[c] \notin Calling \cup Transaction \cup NewLog \cup Frames \cup {"read", "ended", "restart", "restartInfo"}
  BY Zenon DEF Calling, Transaction, NewLog, Copying, Marking, Frames
<1> QED
  BY <1>1, Zenon DEF IsCopying, Own, Locks, ReadLocks, WriteLock, Headers, Savepoints

\* That is all the invariant says outside of a call.
LEMMA OutsideNext == ASSUME NEW c \in Conn, IsOutside(c)' PROVE Locks(c)' /\ Headers(c)'
<1>1. /\ pc'[c] \notin Marking \cup Frames \cup NewLog \cup Copying
                       \cup {"read", "ended", "restart", "restartInfo", "ckptTruncate"}
      /\ pc'[c] \notin {"storeMark", "lockMark", "checkMark", "walHdr"} /\ -1 \notin Readers
  BY SlotNumbers, Zenon DEF IsOutside, Outside, NewLog, Copying, Marking, Frames
<1>2. ReadLocks(c)'
  BY <1>1, Zenon DEF ReadLocks, IsOutside
<1>3. WriteLock(c)'
  BY <1>1, Zenon DEF WriteLock, IsOutside
<1>4. Headers(c)'
  BY <1>1, Zenon DEF Headers, ReadersHeader, WritersHeader, Savepoints, IsOutside
<1> QED
  BY <1>2, <1>3, <1>4, Zenon DEF Locks

\* Likewise in a checkpoint.
LEMMA CopyingNext == ASSUME NEW c \in Conn, IsCopying(c)' PROVE Locks(c)' /\ Headers(c)'
<1>1. /\ pc'[c] \notin Marking \cup Frames \cup NewLog \cup Outside \cup Transaction
                       \cup {"read", "ended", "restart", "restartInfo", "ckptTruncate"}
      /\ pc'[c] \notin {"storeMark", "lockMark", "checkMark", "walHdr", "ckptWrite"} /\ -1 \notin Readers
  BY SlotNumbers, Zenon DEF IsCopying, Outside, NewLog, Copying, Marking, Frames, Transaction
<1>2. ReadLocks(c)'
  BY <1>1, Zenon DEF ReadLocks, IsCopying
<1>3. WriteLock(c)'
  BY <1>1, Zenon DEF WriteLock, IsCopying
<1>4. Headers(c)'
  BY <1>1, Zenon DEF Headers, ReadersHeader, WritersHeader, Savepoints, IsCopying
<1> QED
  BY <1>2, <1>3, <1>4, Zenon DEF Locks

\* The write lock of c after a call of the lock table.
LEMMA WriteLockKept ==
    ASSUME SlotsInv, NEW c \in Conn
    PROVE  /\ UNCHANGED excl => (writeLock(c)' <=> writeLock(c))
           /\ \A slots : shmUnlock(c, slots) =>
                 /\ WAL_WRITE_LOCK \notin slots => (writeLock(c)' <=> writeLock(c))
                 /\ WAL_WRITE_LOCK \in slots => ~writeLock(c)'
           /\ \A slots, rc : shmShared(c, slots, rc) => (writeLock(c)' <=> writeLock(c))
           /\ \A slots, rc : shmExclusive(c, slots, rc) =>
                 /\ WAL_WRITE_LOCK \notin slots \/ rc # OK => (writeLock(c)' <=> writeLock(c))
                 /\ WAL_WRITE_LOCK \in slots /\ rc = OK => writeLock(c)'
<1> USE SlotNumbers DEF writeLock
<1>1. UNCHANGED excl => (writeLock(c)' <=> writeLock(c))
  BY Zenon
<1>2. ASSUME NEW slots, shmUnlock(c, slots)
      PROVE  /\ WAL_WRITE_LOCK \notin slots => (writeLock(c)' <=> writeLock(c))
             /\ WAL_WRITE_LOCK \in slots => ~writeLock(c)'
  BY <1>2, UnlockStep, Zenon DEF Kept
<1>3. ASSUME NEW slots, NEW rc, shmShared(c, slots, rc) PROVE writeLock(c)' <=> writeLock(c)
  BY <1>3, SharedStep, Zenon
<1>4. ASSUME NEW slots, NEW rc, shmExclusive(c, slots, rc)
      PROVE  /\ WAL_WRITE_LOCK \notin slots \/ rc # OK => (writeLock(c)' <=> writeLock(c))
             /\ WAL_WRITE_LOCK \in slots /\ rc = OK => writeLock(c)'
  <2>1. \A s \in Slots \ slots : Kept(c, s)
    BY <1>4, ExclusiveStep, Zenon
  <2>2. rc = OK => \A s \in Slots \cap slots : excl'[s] = c
    BY <1>4, ExclusiveStep, Zenon
  <2>3. rc # OK => \A s \in Slots : Kept(c, s)
    BY <1>4, ExclusiveStep, Zenon
  <2> QED
    BY <2>1, <2>2, <2>3, Zenon DEF Kept
<1> QED
  BY <1>1, <1>2, <1>3, <1>4, Zenon

\* Steps outside of transactions, and into and through a checkpoint.
Elsewhere(c) ==
    \/ open(c) \/ closeNotLast(c) \/ closeLeave(c) \/ closeLast(c) \/ closeDelete(c)
    \/ beginReadHdr(c) \/ beginReadGivesUp(c)
    \/ \E eMode : sqlite3WalCheckpoint(c, eMode)
    \/ ckptWriteLock(c) \/ ckptReadHdr(c) \/ ckptInfo(c) \/ ckptReadMark(c) \/ ckptTryMark(c)
    \/ ckptLock0(c) \/ ckptCopyPage(c) \/ ckptInterrupted(c) \/ ckptBackfilled(c) \/ ckptTruncate(c) \/ ckptEnd(c)

\* A connection outside of transactions and in a checkpoint up to its end knows
\* of itself what it should after each of these steps.
LEMMA ElsewhereStep ==
    ASSUME Shapes, IndexTypes, BlockTypes, SlotsInv, NEW c \in Conn, Own(c), Elsewhere(c)
    PROVE  Locks(c)' /\ Headers(c)'
<1>0. /\ DOMAIN pc = Conn /\ DOMAIN pWal = Conn /\ DOMAIN loc = Conn /\ DOMAIN savepoint = Conn
      /\ DOMAIN pWal[c] = WalFields /\ DOMAIN loc[c] = LocFields
  BY Zenon DEF Shapes, Own, ConnTypes, WalObject, Locals
<1>1. CASE IsOutside(c)' \/ IsCopying(c)'
  BY <1>1, OutsideNext, CopyingNext, Zenon
<1>2. Loc0.useWal = FALSE /\ Loc0.closing = FALSE /\ Loc0.eMode = PASSIVE /\ Wal0.readLock = -1
  BY Zenon DEF Loc0, Wal0
<1>3. WAL_WRITE_LOCK \notin {WAL_CKPT_LOCK} /\ WAL_WRITE_LOCK \notin {WAL_READ_LOCK(0)} /\ WAL_WRITE_LOCK \notin ReadSlots
      /\ WAL_WRITE_LOCK \in {WAL_WRITE_LOCK} /\ WAL_WRITE_LOCK \in {WAL_WRITE_LOCK, WAL_CKPT_LOCK}
  BY SlotNumbers, Zenon
<1>4. pc[c] \in Outside => IsOutside(c)
  BY OutsideNow, Zenon
<1>5. pc[c] \in Copying => IsCopying(c)
  BY CopyingNow, Zenon
<1>6. CASE open(c)
  <2>1. pc[c] \in Outside /\ (writeLock(c)' <=> writeLock(c))
    BY <1>6, WriteLockKept, Zenon DEF open, Outside, lock, unlock, lockVars
  <2>2. IsOutside(c)'
    BY <1>0, <1>2, <1>4, <1>6, <2>1, Zenon DEF IsOutside, Outside, WalFields, LocFields, open, goto
  <2> QED
    BY <1>1, <2>2, Zenon
<1>7. CASE closeNotLast(c)
  <2>1. pc[c] \in Outside /\ (writeLock(c)' <=> writeLock(c))
    BY <1>7, WriteLockKept, Zenon DEF closeNotLast, Outside, lock, unlock, lockVars
  <2>2. IsOutside(c)'
    BY <1>0, <1>2, <1>4, <1>7, <2>1, Zenon DEF IsOutside, Outside, WalFields, LocFields, closeNotLast, goto
  <2> QED
    BY <1>1, <2>2, Zenon
<1>8. CASE closeLeave(c)
  <2>1. pc[c] \in Outside /\ (writeLock(c)' <=> writeLock(c))
    BY <1>8, WriteLockKept, Zenon DEF closeLeave, Outside, lock, unlock, lockVars
  <2>2. IsOutside(c)'
    BY <1>0, <1>2, <1>4, <1>8, <2>1, Zenon DEF IsOutside, Outside, WalFields, LocFields, closeLeave, leave, return, goto
  <2> QED
    BY <1>1, <2>2, Zenon
<1>9. CASE beginReadGivesUp(c)
  <2>1. pc[c] \in Outside /\ (writeLock(c)' <=> writeLock(c))
    BY <1>9, WriteLockKept, Zenon DEF beginReadGivesUp, Outside, lock, unlock, lockVars
  <2>2. IsOutside(c)'
    BY <1>0, <1>2, <1>4, <1>9, <2>1, Zenon DEF IsOutside, Outside, WalFields, LocFields, beginReadGivesUp, return, goto
  <2> QED
    BY <1>1, <2>2, Zenon
<1>10. CASE ckptInfo(c)
  <2>1. pc[c] \in Copying /\ (writeLock(c)' <=> writeLock(c))
    BY <1>3, <1>10, WriteLockKept, Zenon DEF ckptInfo, Copying, lockVars
  <2>2. IsCopying(c)'
    BY <1>0, <1>2, <1>5, <1>10, <2>1 DEF IsCopying, Copying, WalFields, LocFields, ckptInfo, ckptDone, goto
  <2> QED
    BY <1>1, <2>2, Zenon
<1>11. CASE ckptReadMark(c)
  <2>1. pc[c] \in Copying /\ (writeLock(c)' <=> writeLock(c))
    BY <1>3, <1>11, WriteLockKept, Zenon DEF ckptReadMark, Copying, lockVars
  <2>2. IsCopying(c)'
    BY <1>0, <1>2, <1>5, <1>11, <2>1 DEF IsCopying, Copying, WalFields, LocFields, ckptReadMark, nextMark, goto
  <2> QED
    BY <1>1, <2>2, Zenon
<1>12. CASE ckptTryMark(c)
  <2>1. pc[c] \in Copying /\ (writeLock(c)' <=> writeLock(c))
    BY <1>3, <1>12, WriteLockKept, Zenon DEF ckptTryMark, Copying, lockVars
  <2>2. IsCopying(c)'
    BY <1>0, <1>2, <1>5, <1>12, <2>1 DEF IsCopying, Copying, WalFields, LocFields, ckptTryMark, nextMark, goto
  <2> QED
    BY <1>1, <2>2, Zenon
<1>13. CASE ckptLock0(c)
  <2>1. pc[c] \in Copying /\ (writeLock(c)' <=> writeLock(c))
    BY <1>3, <1>13, WriteLockKept, Zenon DEF ckptLock0, Copying, lockVars
  <2>2. IsCopying(c)'
    BY <1>0, <1>2, <1>5, <1>13, <2>1 DEF IsCopying, Copying, WalFields, LocFields, ckptLock0, ckptDone, goto
  <2> QED
    BY <1>1, <2>2, Zenon
<1>14. CASE ckptCopyPage(c)
  <2>1. pc[c] \in Copying /\ (writeLock(c)' <=> writeLock(c))
    BY <1>3, <1>14, WriteLockKept, Zenon DEF ckptCopyPage, Copying, lockVars
  <2>2. IsCopying(c)'
    BY <1>0, <1>2, <1>5, <1>14, <2>1, Zenon DEF IsCopying, Copying, WalFields, LocFields, ckptCopyPage, goto
  <2> QED
    BY <1>1, <2>2, Zenon
<1>15. CASE ckptInterrupted(c)
  <2>1. pc[c] \in Copying /\ (writeLock(c)' <=> writeLock(c))
    BY <1>3, <1>15, WriteLockKept, Zenon DEF ckptInterrupted, Copying, lockVars
  <2>2. IsCopying(c)'
    BY <1>0, <1>2, <1>5, <1>15, <2>1, Zenon DEF IsCopying, Copying, WalFields, LocFields, ckptInterrupted, goto
  <2> QED
    BY <1>1, <2>2, Zenon
<1>16. CASE ckptBackfilled(c)
  <2>1. pc[c] \in Copying /\ (writeLock(c)' <=> writeLock(c))
    BY <1>3, <1>16, WriteLockKept, Zenon DEF ckptBackfilled, Copying, lockVars
  <2>2. IsCopying(c)'
    BY <1>0, <1>2, <1>5, <1>16, <2>1, Zenon DEF IsCopying, Copying, WalFields, LocFields, ckptBackfilled, ckptDone, goto
  <2> QED
    BY <1>1, <2>2, Zenon
<1>17. CASE closeLast(c)
  <2>1. pc[c] \in Outside /\ pc[c] # "ckptWrite" /\ (writeLock(c)' <=> writeLock(c))
    BY <1>17, WriteLockKept, Zenon DEF closeLast, Outside, lock, lockVars
  <2>2. IsCopying(c)'
    BY <1>0, <1>4, <1>17, <2>1, Zenon DEF IsOutside, IsCopying, Copying, WalFields, LocFields, closeLast, goto
  <2> QED
    BY <1>1, <2>2, Zenon
<1>18. CASE closeDelete(c)
  <2>1. pc[c] \in Copying /\ loc[c].closing /\ (writeLock(c)' <=> writeLock(c))
    BY <1>18, WriteLockKept, Zenon DEF closeDelete, Copying, unlock, lockVars
  <2>2. IsOutside(c)'
    BY <1>0, <1>2, <1>5, <1>18, <2>1, Zenon DEF IsOutside, IsCopying, Outside, closeDelete, leave, return, goto
  <2> QED
    BY <1>1, <2>2, Zenon
<1>19. CASE beginReadHdr(c)
  <2>1. pc[c] \in Outside /\ pc[c] # "ckptWrite" /\ (writeLock(c)' <=> writeLock(c))
    BY <1>19, WriteLockKept, Zenon DEF beginReadHdr, Outside, lockVars
  <2>2. pWal'[c].readLock = pWal[c].readLock
    BY <1>19, ReadHdrEffect, Zenon DEF beginReadHdr, Own, ConnTypes
  <2>3. PICK changed : loc' = [loc EXCEPT ![c].changed = @ \/ changed]
    BY <1>19, Zenon DEF beginReadHdr
  <2>4. pc' = [pc EXCEPT ![c] = "info"] /\ savepoint' = savepoint
    BY <1>19, Zenon DEF beginReadHdr, goto
  <2>5. IsOutside(c)'
    BY <1>0, <1>4, <2>1, <2>2, <2>3, <2>4, Zenon DEF IsOutside, Outside, LocFields
  <2> QED
    BY <1>1, <2>5, Zenon
<1>20. CASE ckptReadHdr(c)
  <2>1. pc[c] \in Copying /\ (writeLock(c)' <=> writeLock(c))
    BY <1>20, WriteLockKept, Zenon DEF ckptReadHdr, Copying, lockVars
  <2>2. pWal'[c].readLock = pWal[c].readLock
    BY <1>20, ReadHdrEffect, Zenon DEF ckptReadHdr, Own, ConnTypes
  <2>3. \/ \E changed : loc' = [loc EXCEPT ![c].changed = changed]
        \/ loc' = [loc EXCEPT ![c].rc = BUSY]
    BY <1>20, Zenon DEF ckptReadHdr
  <2>4. loc'[c].useWal = loc[c].useWal /\ loc'[c].closing = loc[c].closing /\ loc'[c].eMode = loc[c].eMode
    BY <1>0, <2>3 DEF LocFields
  <2>5. pc'[c] \in {"ckptInfo", "ckptEnd"} /\ savepoint' = savepoint
    BY <1>0, <1>20, Zenon DEF ckptReadHdr, goto
  <2>6. IsCopying(c)'
    BY <1>5, <2>1, <2>2, <2>4, <2>5, Zenon DEF IsCopying, Copying
  <2> QED
    BY <1>1, <2>6, Zenon
<1>21. CASE \E eMode : sqlite3WalCheckpoint(c, eMode)
  <2>1. PICK eMode : sqlite3WalCheckpoint(c, eMode)
    BY <1>21, Zenon
  <2>2. pc[c] \in Outside /\ pc[c] # "ckptWrite" /\ (writeLock(c)' <=> writeLock(c))
    BY <1>3, <2>1, WriteLockKept, Zenon DEF sqlite3WalCheckpoint, Outside
  <2>3. IsOutside(c)' \/ IsCopying(c)'
    BY <1>0, <1>4, <2>1, <2>2, Zenon DEF IsOutside, IsCopying, Outside, Copying, LocFields, sqlite3WalCheckpoint, goto
  <2> QED
    BY <1>1, <2>3, Zenon
<1>22. CASE ckptWriteLock(c)
  <2>1. pc[c] = "ckptWrite" /\ pc'[c] = "ckptHdr" /\ UNCHANGED <<pWal, savepoint>>
    BY <1>0, <1>22, Zenon DEF ckptWriteLock, goto
  <2>2. IsOutside(c)
    BY <1>4, <2>1, Zenon DEF Outside
  <2>3. PICK rc \in {OK, BUSY} : /\ shmExclusive(c, {WAL_WRITE_LOCK}, rc)
                                 /\ loc' = [loc EXCEPT ![c].eMode = IF rc = OK THEN @ ELSE PASSIVE]
    BY <1>22, Zenon DEF ckptWriteLock
  <2>4. loc'[c].eMode = (IF rc = OK THEN loc[c].eMode ELSE PASSIVE) /\ loc'[c].useWal = loc[c].useWal
        /\ loc'[c].closing = loc[c].closing
    BY <1>0, <2>3, Zenon DEF LocFields
  <2>5. IF rc = OK THEN writeLock(c)' ELSE writeLock(c)' <=> writeLock(c)
    BY <1>3, <2>3, WriteLockKept, Zenon
  <2>6. IsCopying(c)'
    BY <2>1, <2>2, <2>4, <2>5, Zenon DEF IsOutside, IsCopying, Copying
  <2> QED
    BY <1>1, <2>6, Zenon
<1>23. CASE ckptTruncate(c)
  <2>1. pc[c] = "ckptTruncate" /\ pc'[c] = "ckptEnd" /\ UNCHANGED <<pWal, loc, savepoint>>
    BY <1>0, <1>23, Zenon DEF ckptTruncate, goto
  <2>2. writeLock(c)' <=> writeLock(c)
    BY <1>3, <1>23, WriteLockKept, Zenon DEF ckptTruncate
  <2>3. pc[c] \notin Calling \cup Transaction \cup NewLog \cup Frames \cup {"read", "ended", "restart", "restartInfo"} \cup Copying
    BY <2>1, Zenon DEF Calling, Transaction, NewLog, Frames, Marking, Copying
  <2>4. pWal[c].readLock = -1 /\ savepoint[c] = NoSavepoint
    BY <2>3, Zenon DEF Own, Locks, ReadLocks, Headers, Savepoints
  <2>5. ~loc[c].useWal /\ loc[c].eMode # PASSIVE /\ writeLock(c) /\ ~loc[c].closing
    BY <2>1, <2>3, Zenon DEF Own, Locks, WriteLock
  <2>6. IsCopying(c)'
    BY <2>1, <2>2, <2>4, <2>5, Zenon DEF IsCopying, Copying
  <2> QED
    BY <1>1, <2>6, Zenon
<1>24. CASE ckptEnd(c)
  <2>1. pc[c] \in Copying /\ ~writeLock(c)'
    BY <1>3, <1>24, WriteLockKept, Zenon DEF ckptEnd, Copying
  <2>2. IsOutside(c)'
    BY <1>0, <1>2, <1>5, <1>24, <2>1, Zenon DEF IsOutside, IsCopying, Outside, WalFields, ckptEnd, return, goto
  <2> QED
    BY <1>1, <2>2, Zenon
<1> QED
  BY <1>6, <1>7, <1>8, <1>9, <1>10, <1>11, <1>12, <1>13, <1>14, <1>15, <1>16, <1>17, <1>18, <1>19, <1>20, <1>21, <1>22, <1>23, <1>24, Zenon DEF Elsewhere

-----------------------------------------------------------------------------
(* Read transactions *)

\* A connection that looks for a mark has no read lock, and the write lock if
\* it does so in a write transaction, after it has restarted the log.
IsMarking(c) ==
    /\ pc[c] \in Marking /\ pWal[c].readLock = -1 /\ (writeLock(c) <=> loc[c].useWal)
    /\ loc[c].eMode = PASSIVE /\ ~loc[c].closing

\* One in a transaction has a read lock, and the write lock while it writes.
IsWorking(c) ==
    /\ pc[c] \in Frames \cup {"read", "ended", "restart"}
    /\ pWal[c].readLock \in Readers => c \in shared[WAL_READ_LOCK(pWal[c].readLock)] /\ pc[c] # "restart"
    /\ pc[c] # "read" => writeLock(c)
    /\ loc[c].useWal => pc[c] \notin {"read", "ended"}
    /\ pc[c] = "restart" => loc[c].useWal
    /\ loc[c].eMode = PASSIVE /\ ~loc[c].closing

\* A connection that looks for a mark has no read lock yet, and the write lock
\* only if a writer looks for it.
LEMMA MarkingNow ==
    ASSUME NEW c \in Conn, Own(c), pc[c] \in Marking
    PROVE  IsMarking(c) /\ (~writeLock(c) => savepoint[c] = NoSavepoint)
<1>1. pc[c] \notin Frames \cup NewLog \cup {"read", "ended", "restart", "restartInfo"}
                   \cup Copying \cup {"ckptWrite", "restartInfo", "ckptTruncate"}
  BY Zenon DEF NewLog, Copying, Marking, Frames
<1> QED
  BY <1>1, Zenon DEF IsMarking, Own, Locks, ReadLocks, WriteLock, Headers, Savepoints

\* A connection in its transaction has its read lock, and the write lock where
\* it writes.
LEMMA WorkingNow ==
    ASSUME NEW c \in Conn, Own(c), pc[c] \in Frames \cup {"read", "ended", "restart"} PROVE IsWorking(c)
<1>1. pc[c] \notin NewLog \cup Copying \cup {"ckptWrite", "restartInfo", "ckptTruncate"}
  BY Zenon DEF NewLog, Copying, Frames
<1>2. pc[c] \in {"read", "ended"} => pc[c] \notin Calling
  BY Zenon DEF Calling, Marking, NewLog, Frames
<1> QED
  BY <1>1, <1>2, Zenon DEF IsWorking, Own, Locks, ReadLocks, WriteLock

\* The invariant says no more of the locks of a connection that looks for a mark,
LEMMA MarkingNext ==
    ASSUME NEW c \in Conn, IsMarking(c)',
           pc'[c] \in {"storeMark", "lockMark", "checkMark"} => loc'[c].mxI \in Readers,
           pc'[c] = "storeMark" => excl'[WAL_READ_LOCK(loc'[c].mxI)] = c,
           pc'[c] = "checkMark" => c \in shared'[WAL_READ_LOCK(loc'[c].mxI)],
           pc'[c] \in {"lockMark", "checkMark"} =>
               loc'[c].mxReadMark \in Nat /\ loc'[c].mxReadMark <= pWal'[c].hdr.mxFrame
    PROVE  Locks(c)'
<1>1. /\ pc'[c] \notin Frames \cup NewLog \cup Copying \cup Outside
                       \cup {"read", "ended", "restart", "restartInfo", "ckptTruncate", "ckptWrite"}
      /\ pc'[c] \in Calling /\ -1 \notin Readers
  BY SlotNumbers, Zenon DEF IsMarking, Outside, NewLog, Copying, Marking, Frames, Calling
<1>2. ReadLocks(c)'
  BY <1>1, Zenon DEF ReadLocks, IsMarking
<1>3. WriteLock(c)'
  BY <1>1, Zenon DEF WriteLock, IsMarking
<1> QED
  BY <1>2, <1>3, Zenon DEF Locks

\* and of one in its transaction.
LEMMA WorkingNext == ASSUME NEW c \in Conn, IsWorking(c)' PROVE Locks(c)'
<1>1. /\ pc'[c] \notin Marking \cup NewLog \cup Copying \cup Outside \cup {"restartInfo", "ckptTruncate", "ckptWrite"}
      /\ pc'[c] \notin {"storeMark", "lockMark", "checkMark"}
      /\ pc'[c] \notin {"read", "ended"} => pc'[c] \in Calling
  BY Zenon DEF IsWorking, Outside, NewLog, Copying, Marking, Frames, Calling
<1>2. ReadLocks(c)'
  BY <1>1, Zenon DEF ReadLocks, IsWorking
<1>3. WriteLock(c)'
  <2>1. "read" \notin Frames \cup NewLog \cup {"restart", "restartInfo", "ended", "ckptTruncate"}
    BY Zenon DEF Frames, NewLog
  <2> QED
    BY <1>1, <2>1, Zenon DEF WriteLock, IsWorking
<1> QED
  BY <1>2, <1>3, Zenon DEF Locks

\* A step that moves c within its transaction and changes neither its header
\* nor the index leaves it what it knows.
LEMMA StayHeaders ==
    ASSUME NEW c \in Conn, Headers(c), pc[c] \in Transaction \ {"ended"}, pc'[c] \in Transaction \ {"ended"},
           pWal'[c].hdr.mxFrame = pWal[c].hdr.mxFrame, pWal'[c].hdr.salt = pWal[c].hdr.salt,
           pWal'[c].nCkpt = pWal[c].nCkpt, savepoint'[c] = savepoint[c], aHdr'[0] = aHdr[0],
           writeLock(c)' <=> writeLock(c), loc'[c].eMode = PASSIVE,
           \/ pWal'[c].readLock \notin Readers
           \/ pWal'[c].readLock = pWal[c].readLock /\ UNCHANGED aReadMark,
           pc'[c] = "walHdr" => pWal'[c].hdr.mxFrame = 0
    PROVE  Headers(c)'
<1>1. pc'[c] \notin NewLog \cup {"ended"} /\ pc[c] \notin NewLog \cup {"ended"}
  BY Zenon DEF Transaction, NewLog, Marking, Frames
<1>2. ReadersHeader(c)'
  BY <1>1, Zenon DEF Headers, ReadersHeader
<1>3. WritersHeader(c)'
  BY <1>1, Zenon DEF Headers, WritersHeader
<1>4. Savepoints(c)'
  BY <1>1, Zenon DEF Headers, Savepoints
<1> QED
  BY <1>2, <1>3, <1>4, Zenon DEF Headers

\* A connection that has to try again starts over, or looks for a mark again.
LEMMA RetryStep ==
    ASSUME Shapes, NEW c \in Conn, Own(c), pc[c] \in Marking \cup {"check0"}, retry(c),
           writeLock(c)' <=> writeLock(c), UNCHANGED <<aHdr, aReadMark, savepoint>>,
           pWal'[c].hdr = pWal[c].hdr, pWal'[c].nCkpt = pWal[c].nCkpt, pWal'[c].readLock = -1
    PROVE  Locks(c)' /\ Headers(c)'
<1>0. DOMAIN pc = Conn /\ DOMAIN loc = Conn /\ DOMAIN loc[c] = LocFields
  BY Zenon DEF Shapes, Own, ConnTypes, Locals
<1>1. pc'[c] = IF loc[c].useWal THEN "marks" ELSE "hdr"
  BY <1>0, Zenon DEF retry, goto
<1>2. loc'[c].useWal = loc[c].useWal /\ loc'[c].eMode = loc[c].eMode /\ loc'[c].closing = loc[c].closing
  BY <1>0, Zenon DEF retry, LocFields
<1>3. CASE pc[c] = "check0"
  <2>1. IsOutside(c)
    BY <1>3, OutsideNow, Zenon DEF Outside
  <2>2. IsOutside(c)'
    BY <1>1, <1>2, <1>3, <2>1, Zenon DEF IsOutside, Outside
  <2> QED
    BY <2>2, OutsideNext, Zenon
<1>4. CASE pc[c] \in Marking
  <2>1. IsMarking(c) /\ (~writeLock(c) => savepoint[c] = NoSavepoint)
    BY <1>4, MarkingNow, Zenon
  <2>2. CASE ~loc[c].useWal
    <3>1. IsOutside(c)'
      BY <1>1, <1>2, <2>1, <2>2, Zenon DEF IsOutside, IsMarking, Outside
    <3> QED
      BY <3>1, OutsideNext, Zenon
  <2>3. CASE loc[c].useWal
    <3>1. pc'[c] = "marks" /\ IsMarking(c)'
      BY <1>1, <1>2, <2>1, <2>3, Zenon DEF IsMarking, Marking
    <3>2. Locks(c)'
      BY <3>1, MarkingNext, Zenon
    <3>3. pc[c] \in Transaction \ {"ended"} /\ pc'[c] \in Transaction \ {"ended"} /\ pc'[c] # "walHdr"
      BY <1>4, <3>1, Zenon DEF Transaction, Marking
    <3>4. Headers(c) /\ loc'[c].eMode = PASSIVE /\ -1 \notin Readers
      BY <3>1, SlotNumbers, Zenon DEF Own, IsMarking
    <3> QED
      BY <3>2, <3>3, <3>4, StayHeaders, Zenon
  <2> QED
    BY <2>2, <2>3, Zenon
<1> QED
  BY <1>3, <1>4, Zenon

\* Once its mark is right, the connection reads up to the header of the index.
LEMMA BegunStep ==
    ASSUME Shapes, NEW c \in Conn, Own(c), pc[c] \in {"checkMark", "check0"}, begun(c),
           UNCHANGED <<lockVars, aHdr, aReadMark, savepoint>>, NEW i,
           pWal' = [pWal EXCEPT ![c].readLock = i], aHdr[0] = pWal[c].hdr,
           IF pc[c] = "check0" THEN i = 0
           ELSE i \in Readers /\ c \in shared[WAL_READ_LOCK(i)] /\ aReadMark[i] <= pWal[c].hdr.mxFrame,
           pWal[c].hdr.mxFrame \in Nat
    PROVE  Locks(c)' /\ Headers(c)'
<1>0. DOMAIN pc = Conn /\ DOMAIN loc = Conn /\ DOMAIN pWal = Conn /\ DOMAIN pWal[c] = WalFields
  BY Zenon DEF Shapes, Own, ConnTypes, WalObject
<1>1. pWal'[c].readLock = i /\ pWal'[c].hdr = pWal[c].hdr /\ pWal'[c].nCkpt = pWal[c].nCkpt
  BY <1>0, Zenon DEF WalFields
<1>2. writeLock(c)' <=> writeLock(c)
  BY Zenon DEF lockVars, writeLock
<1>3. /\ (writeLock(c) <=> loc[c].useWal) /\ loc[c].eMode = PASSIVE /\ ~loc[c].closing
      /\ ~writeLock(c) => savepoint[c] = NoSavepoint
  <2>1. CASE pc[c] = "check0"
    BY <2>1, OutsideNow, Zenon DEF Outside, IsOutside
  <2>2. CASE pc[c] = "checkMark"
    BY <2>2, MarkingNow, Zenon DEF Marking, IsMarking
  <2> QED
    BY <2>1, <2>2, Zenon
<1>4. i \in Readers => c \in shared'[WAL_READ_LOCK(i)] /\ aReadMark'[i] <= aHdr'[0].mxFrame
  BY SlotNumbers, Zenon DEF lockVars
<1>5. aHdr'[0] = pWal'[c].hdr /\ pWal'[c].hdr.mxFrame \in Nat
  BY <1>1, Zenon
<1>6. CASE loc[c].useWal
  <2>1. loc' = loc /\ pc'[c] \in {"walHdr", "append"} /\ (pc'[c] = "walHdr" => pWal[c].hdr.mxFrame = 0)
    BY <1>0, <1>6, Zenon DEF begun, goto
  <2>2. IsWorking(c)'
    BY <1>1, <1>2, <1>3, <1>4, <1>6, <2>1, Zenon DEF IsWorking, Frames
  <2>3. writeLock(c)' /\ pc[c] = "checkMark"
    <3>1. pc[c] # "check0"
      BY <1>2, <1>3, <1>6, OutsideNow, Zenon DEF IsOutside, Outside
    <3> QED
      BY <1>2, <1>3, <1>6, <3>1, Zenon
  <2>4. ReadersHeader(c)'
    BY <2>3, Zenon DEF ReadersHeader
  <2>5. pc'[c] \notin NewLog \cup {"ended"} /\ pc[c] \notin NewLog \cup {"ended"}
    BY <2>1, <2>3, Zenon DEF NewLog
  <2>6. WritersHeader(c)'
    <3>1. aHdr'[0].mxFrame <= pWal'[c].hdr.mxFrame
      BY <1>5
    <3> QED
      BY <1>1, <1>4, <1>5, <2>1, <2>5, <3>1, Zenon DEF WritersHeader
  <2>7. pc[c] \in Transaction /\ pc'[c] \in Transaction
    BY <2>1, <2>3, Zenon DEF Transaction, Marking, Frames
  <2>8. Savepoints(c)'
    BY <1>1, <1>2, <2>1, <2>5, <2>7, Zenon DEF Own, Headers, Savepoints
  <2> QED
    BY <2>2, <2>4, <2>6, <2>8, WorkingNext, Zenon DEF Headers
<1>7. CASE ~loc[c].useWal
  <2>1. loc'[c] = Loc0 /\ pc'[c] = "read"
    BY <1>0, <1>7, Zenon DEF begun, return, goto
  <2>2. ~Loc0.useWal /\ ~Loc0.closing /\ Loc0.eMode = PASSIVE
    BY Zenon DEF Loc0
  <2>3. IsWorking(c)'
    BY <1>1, <1>4, <2>1, <2>2, Zenon DEF IsWorking
  <2>4. ~writeLock(c)' /\ savepoint'[c] = NoSavepoint
    BY <1>2, <1>3, <1>7, Zenon
  <2>5. pWal'[c].hdr.mxFrame <= aHdr'[0].mxFrame
    BY <1>5
  <2>6. ReadersHeader(c)'
    BY <1>1, <1>4, <1>5, <2>5, Zenon DEF ReadersHeader
  <2>7. WritersHeader(c)' /\ Savepoints(c)'
    BY <2>1, <2>4, Zenon DEF WritersHeader, Savepoints, NewLog
  <2> QED
    BY <2>3, <2>6, <2>7, WorkingNext, Zenon DEF Headers
<1> QED
  BY <1>6, <1>7, Zenon

\* The steps that begin and end a read transaction.
Reading(c) ==
    \/ beginReadInfo(c) \/ beginReadLock0(c) \/ beginReadCheck0(c) \/ beginReadMarks(c) \/ beginReadStoreMark(c)
    \/ beginReadLockMark(c) \/ beginReadCheckMark(c) \/ sqlite3WalEndReadTransaction(c)

\* They take a mark that is not past the snapshot, and check that the header
\* has not changed since it was read.
LEMMA ReadingStep ==
    ASSUME Shapes, IndexTypes, SlotsInv, NEW c \in Conn, Own(c), Reading(c)
    PROVE  Locks(c)' /\ Headers(c)'
<1>0. /\ DOMAIN pc = Conn /\ DOMAIN pWal = Conn /\ DOMAIN loc = Conn /\ DOMAIN savepoint = Conn
      /\ DOMAIN pWal[c] = WalFields /\ DOMAIN loc[c] = LocFields /\ pWal[c].hdr.mxFrame \in Nat
      /\ aReadMark \in [Readers -> Nat] /\ Headers(c)
  BY Zenon DEF Shapes, Own, ConnTypes, WalObject, Header, Locals, IndexTypes
<1>1. WAL_WRITE_LOCK \notin {WAL_READ_LOCK(0)} /\ -1 \notin Readers /\ \A i \in Readers : WAL_WRITE_LOCK \notin {WAL_READ_LOCK(i)}
  BY SlotNumbers, Zenon
<1>2. CASE beginReadInfo(c) \/ beginReadLock0(c)
  <2>1. pc[c] \in Outside /\ UNCHANGED <<pWal, loc, savepoint>> /\ pc[c] # "ckptWrite"
    BY <1>2, Zenon DEF beginReadInfo, beginReadLock0, Outside
  <2>2. pc'[c] \in {"lock0", "check0", "marks"}
    BY <1>0, <1>2, Zenon DEF beginReadInfo, beginReadLock0, goto
  <2>3. writeLock(c)' <=> writeLock(c)
    BY <1>2, WriteLockKept, Zenon DEF beginReadInfo, beginReadLock0, lockVars
  <2>4. IsOutside(c)
    BY <2>1, OutsideNow, Zenon
  <2>5. CASE pc'[c] # "marks"
    <3>1. IsOutside(c)'
      BY <2>1, <2>2, <2>3, <2>4, <2>5, Zenon DEF IsOutside, Outside
    <3> QED
      BY <3>1, OutsideNext, Zenon
  <2>6. CASE pc'[c] = "marks"
    <3>1. IsMarking(c)'
      BY <2>1, <2>3, <2>4, <2>6, Zenon DEF IsOutside, IsMarking, Marking
    <3>2. Headers(c)'
      BY <1>1, <2>1, <2>3, <2>4, <2>6, Zenon DEF IsOutside, Headers, ReadersHeader, WritersHeader, Savepoints, NewLog
    <3> QED
      BY <2>6, <3>1, <3>2, MarkingNext, Zenon
  <2> QED
    BY <2>5, <2>6, Zenon
<1>3. CASE beginReadCheck0(c)
  <2>1. pc[c] = "check0" /\ UNCHANGED <<aHdr, aReadMark, savepoint>>
    BY <1>3, Zenon DEF beginReadCheck0, shm
  <2>2. CASE shmUnlock(c, {WAL_READ_LOCK(0)}) /\ retry(c) /\ UNCHANGED pWal
    <3>1. writeLock(c)' <=> writeLock(c)
      BY <1>1, <2>2, WriteLockKept, Zenon
    <3>2. pWal[c].readLock = -1
      BY <2>1, OutsideNow, Zenon DEF IsOutside, Outside
    <3> QED
      BY <2>1, <2>2, <3>1, <3>2, RetryStep, Zenon
  <2>3. CASE /\ aHdr[0] = pWal[c].hdr /\ pWal' = [pWal EXCEPT ![c].readLock = 0]
             /\ UNCHANGED lockVars /\ begun(c)
    BY <1>0, <2>1, <2>3, BegunStep, Zenon
  <2> QED
    BY <1>3, <2>2, <2>3, Zenon DEF beginReadCheck0
<1>4. CASE beginReadMarks(c)
  <2>1. /\ pc[c] = "marks" /\ UNCHANGED <<aHdr, aReadMark, pWal, savepoint>>
        /\ \/ \E i \in Readers : \E m :
                    /\ shmExclusive(c, {WAL_READ_LOCK(i)}, OK) /\ goto(c, "storeMark")
                    /\ loc' = [loc EXCEPT ![c].mxI = i, ![c].mxReadMark = m]
           \/ retry(c) /\ UNCHANGED lockVars
           \/ \E i \in Readers, m \in Nat :
                 /\ m <= pWal[c].hdr.mxFrame /\ goto(c, "lockMark") /\ UNCHANGED lockVars
                 /\ loc' = [loc EXCEPT ![c].mxI = i, ![c].mxReadMark = m]
    BY <1>0, <1>4, MarksEffect, Zenon DEF shm
  <2>2. IsMarking(c) /\ pc[c] \in Marking
    BY <2>1, MarkingNow, Zenon DEF Marking
  <2>3. CASE retry(c) /\ UNCHANGED lockVars
    <3>1. (writeLock(c)' <=> writeLock(c)) /\ pWal'[c] = pWal[c] /\ pWal[c].readLock = -1
      BY <2>1, <2>2, <2>3, Zenon DEF writeLock, lockVars, IsMarking
    <3> QED
      BY <2>1, <2>2, <2>3, <3>1, RetryStep, Zenon
  <2>4. ASSUME NEW i \in Readers, NEW m, loc' = [loc EXCEPT ![c].mxI = i, ![c].mxReadMark = m],
               \/ shmExclusive(c, {WAL_READ_LOCK(i)}, OK) /\ goto(c, "storeMark")
               \/ m \in Nat /\ m <= pWal[c].hdr.mxFrame /\ goto(c, "lockMark") /\ UNCHANGED lockVars
        PROVE  Locks(c)' /\ Headers(c)'
    <3>1. /\ loc'[c].mxI = i /\ loc'[c].mxReadMark = m /\ loc'[c].useWal = loc[c].useWal
          /\ loc'[c].eMode = loc[c].eMode /\ loc'[c].closing = loc[c].closing
      BY <1>0, <2>4, Zenon DEF LocFields
    <3>2. writeLock(c)' <=> writeLock(c)
      BY <1>1, <2>4, WriteLockKept, Zenon DEF lockVars
    <3>3. \/ pc'[c] = "storeMark" /\ excl'[WAL_READ_LOCK(i)] = c
          \/ pc'[c] = "lockMark" /\ m \in Nat /\ m <= pWal[c].hdr.mxFrame
      <4>1. CASE shmExclusive(c, {WAL_READ_LOCK(i)}, OK) /\ goto(c, "storeMark")
        <5>1. pc'[c] = "storeMark"
          BY <1>0, <4>1, Zenon DEF goto
        <5>2. excl'[WAL_READ_LOCK(i)] = c
          BY <2>4, <4>1, SlotNumbers, ExclusiveStep, Zenon
        <5> QED
          BY <5>1, <5>2, Zenon
      <4>2. CASE m \in Nat /\ m <= pWal[c].hdr.mxFrame /\ goto(c, "lockMark")
        BY <1>0, <4>2, Zenon DEF goto
      <4> QED
        BY <2>4, <4>1, <4>2, Zenon
    <3>4. IsMarking(c)'
      BY <2>1, <2>2, <3>1, <3>2, <3>3, Zenon DEF IsMarking, Marking
    <3>5. Locks(c)'
      BY <2>1, <3>1, <3>3, <3>4, MarkingNext, Zenon
    <3>6. pc[c] \in Transaction \ {"ended"} /\ pc'[c] \in Transaction \ {"ended"} /\ pc'[c] # "walHdr"
      BY <2>1, <3>3, Zenon DEF Transaction, Marking
    <3>7. pWal'[c] = pWal[c] /\ loc'[c].eMode = PASSIVE
      BY <2>1, <3>4, Zenon DEF IsMarking
    <3> QED
      BY <1>0, <2>1, <3>2, <3>5, <3>6, <3>7, StayHeaders, Zenon
  <2> QED
    BY <2>1, <2>3, <2>4, Zenon
<1>5. CASE beginReadStoreMark(c)
  <2>1. /\ pc[c] = "storeMark" /\ pc'[c] = "lockMark" /\ UNCHANGED <<aHdr, pWal, savepoint>>
        /\ loc' = [loc EXCEPT ![c].mxReadMark = pWal[c].hdr.mxFrame]
        /\ shmUnlock(c, {WAL_READ_LOCK(loc[c].mxI)})
    BY <1>0, <1>5, Zenon DEF beginReadStoreMark, goto
  <2>2. IsMarking(c) /\ loc[c].mxI \in Readers
    BY <2>1, MarkingNow, Zenon DEF Marking, Own, Locks, ReadLocks
  <2>3. /\ loc'[c].mxI = loc[c].mxI /\ loc'[c].mxReadMark = pWal[c].hdr.mxFrame /\ loc'[c].useWal = loc[c].useWal
        /\ loc'[c].eMode = loc[c].eMode /\ loc'[c].closing = loc[c].closing
    BY <1>0, <2>1, Zenon DEF LocFields
  <2>4. writeLock(c)' <=> writeLock(c)
    BY <1>1, <2>1, <2>2, WriteLockKept, Zenon
  <2>5. IsMarking(c)'
    BY <2>1, <2>2, <2>3, <2>4, Zenon DEF IsMarking, Marking
  <2>6. loc'[c].mxReadMark \in Nat /\ loc'[c].mxReadMark <= pWal'[c].hdr.mxFrame
    BY <1>0, <2>1, <2>3
  <2>7. Locks(c)'
    BY <2>1, <2>2, <2>3, <2>5, <2>6, MarkingNext, Zenon
  <2>8. pc[c] \in Transaction \ {"ended"} /\ pc'[c] \in Transaction \ {"ended"} /\ pc'[c] # "walHdr"
    BY <2>1, Zenon DEF Transaction, Marking
  <2>9. pWal'[c] = pWal[c] /\ pWal[c].readLock = -1 /\ loc'[c].eMode = PASSIVE
    BY <2>1, <2>2, <2>5, Zenon DEF IsMarking
  <2> QED
    BY <1>0, <1>1, <2>1, <2>4, <2>7, <2>8, <2>9, StayHeaders, Zenon
<1>6. CASE beginReadLockMark(c)
  <2>1. pc[c] = "lockMark" /\ UNCHANGED <<aHdr, aReadMark, savepoint>>
    BY <1>6, Zenon DEF beginReadLockMark, shm
  <2>2. /\ IsMarking(c) /\ loc[c].mxI \in Readers
        /\ loc[c].mxReadMark \in Nat /\ loc[c].mxReadMark <= pWal[c].hdr.mxFrame
    BY <2>1, MarkingNow, Zenon DEF Marking, Own, Locks, ReadLocks
  <2>3. writeLock(c)' <=> writeLock(c)
    BY <1>6, WriteLockKept, Zenon DEF beginReadLockMark
  <2>4. CASE retry(c) /\ UNCHANGED pWal
    <3>1. pWal'[c] = pWal[c] /\ pWal[c].readLock = -1 /\ pc[c] \in Marking
      BY <2>2, <2>4, Zenon DEF IsMarking
    <3> QED
      BY <2>1, <2>3, <2>4, <3>1, RetryStep, Zenon
  <2>5. CASE /\ shmShared(c, {WAL_READ_LOCK(loc[c].mxI)}, OK) /\ goto(c, "checkMark")
             /\ pWal' = [pWal EXCEPT ![c].minFrame = nBackfill + 1] /\ UNCHANGED loc
    <3>1. /\ pWal'[c].readLock = pWal[c].readLock /\ pWal'[c].hdr = pWal[c].hdr
          /\ pWal'[c].nCkpt = pWal[c].nCkpt
      BY <1>0, <2>5, Zenon DEF WalFields
    <3>2. pc'[c] = "checkMark" /\ c \in shared'[WAL_READ_LOCK(loc[c].mxI)]
      BY <1>0, <2>2, <2>5, SlotNumbers, SharedStep, Zenon DEF goto
    <3>3. IsMarking(c)'
      BY <2>2, <2>3, <2>5, <3>1, <3>2, Zenon DEF IsMarking, Marking
    <3>4. Locks(c)'
      BY <2>2, <2>5, <3>1, <3>2, <3>3, MarkingNext, Zenon
    <3>5. pc[c] \in Transaction \ {"ended"} /\ pc'[c] \in Transaction \ {"ended"} /\ pc'[c] # "walHdr"
      BY <2>1, <3>2, Zenon DEF Transaction, Marking
    <3>6. loc'[c].eMode = PASSIVE
      BY <3>3, Zenon DEF IsMarking
    <3> QED
      BY <1>0, <2>1, <2>3, <3>1, <3>4, <3>5, <3>6, StayHeaders, Zenon
  <2> QED
    BY <1>6, <2>4, <2>5, Zenon DEF beginReadLockMark
<1>7. CASE beginReadCheckMark(c)
  <2>1. pc[c] = "checkMark" /\ UNCHANGED <<aHdr, aReadMark, savepoint>>
    BY <1>7, Zenon DEF beginReadCheckMark, shm
  <2>2. /\ IsMarking(c) /\ loc[c].mxI \in Readers /\ c \in shared[WAL_READ_LOCK(loc[c].mxI)]
        /\ loc[c].mxReadMark <= pWal[c].hdr.mxFrame
    BY <2>1, MarkingNow, Zenon DEF Marking, Own, Locks, ReadLocks
  <2>3. CASE /\ shmUnlock(c, {WAL_READ_LOCK(loc[c].mxI)}) /\ retry(c)
             /\ pWal' = [pWal EXCEPT ![c].minFrame = 0]
    <3>1. /\ pWal'[c].readLock = pWal[c].readLock /\ pWal'[c].hdr = pWal[c].hdr
          /\ pWal'[c].nCkpt = pWal[c].nCkpt
      BY <1>0, <2>3, Zenon DEF WalFields
    <3>2. writeLock(c)' <=> writeLock(c)
      BY <1>1, <2>2, <2>3, WriteLockKept, Zenon
    <3> QED
      BY <2>1, <2>2, <2>3, <3>1, <3>2, RetryStep, Zenon DEF IsMarking
  <2>4. CASE /\ aReadMark[loc[c].mxI] = loc[c].mxReadMark /\ aHdr[0] = pWal[c].hdr
             /\ pWal' = [pWal EXCEPT ![c].readLock = loc[c].mxI] /\ UNCHANGED lockVars /\ begun(c)
    BY <1>0, <2>1, <2>2, <2>4, BegunStep, Zenon
  <2> QED
    BY <1>7, <2>3, <2>4, Zenon DEF beginReadCheckMark
<1>8. CASE sqlite3WalEndReadTransaction(c)
  <2>1. /\ pc[c] = "read" /\ ~writeLock(c) /\ pc'[c] = "idle" /\ UNCHANGED <<loc, savepoint>>
        /\ pWal' = [pWal EXCEPT ![c].readLock = -1, ![c].minFrame = 0]
        /\ shmUnlock(c, {WAL_READ_LOCK(pWal[c].readLock)})
    BY <1>0, <1>8, Zenon DEF sqlite3WalEndReadTransaction, goto
  <2>2. pWal'[c].readLock = -1
    BY <1>0, <2>1, Zenon DEF WalFields
  <2>3. ~writeLock(c)'
    BY <2>1, ConnAssumption, SlotNumbers, Zenon DEF shmUnlock, writeLock, SlotsInv
  <2>4. IsWorking(c)
    BY <2>1, WorkingNow, Zenon
  <2>5. savepoint[c] = NoSavepoint
    BY <1>0, <2>1, Zenon DEF Headers, Savepoints
  <2>6. IsOutside(c)'
    BY <2>1, <2>2, <2>3, <2>4, <2>5, Zenon DEF IsOutside, IsWorking, Outside
  <2> QED
    BY <2>6, OutsideNext, Zenon
<1> QED
  BY <1>2, <1>3, <1>4, <1>5, <1>6, <1>7, <1>8, Zenon DEF Reading

-----------------------------------------------------------------------------
(* Write transactions *)

\* Who restarts the log has the write lock and every slot with a mark: a writer,
\* or a TRUNCATE checkpoint, which has no read lock.
IsRestarting(c) ==
    /\ pc[c] \in NewLog \cup {"restartInfo", "ckptTruncate"}
    /\ pWal[c].readLock \notin Readers /\ (loc[c].eMode # PASSIVE => pWal[c].readLock = -1)
    /\ writeLock(c) /\ \A i \in Readers : excl[WAL_READ_LOCK(i)] = c
    /\ loc[c].useWal <=> loc[c].eMode = PASSIVE
    /\ pc[c] = "ckptTruncate" => loc[c].eMode # PASSIVE
    /\ ~loc[c].closing

\* A connection that starts the log over has every read lock to itself.
LEMMA RestartingNow ==
    ASSUME NEW c \in Conn, Own(c), pc[c] \in NewLog \cup {"restartInfo"} PROVE IsRestarting(c)
<1>1. pc[c] # "ckptTruncate" /\ pc[c] \notin Copying
  BY Zenon DEF NewLog, Copying
<1> QED
  BY <1>1, Zenon DEF IsRestarting, Own, Locks, ReadLocks, WriteLock

\* The invariant says no more of its locks.
LEMMA RestartingNext == ASSUME NEW c \in Conn, IsRestarting(c)' PROVE Locks(c)'
<1>1. /\ pc'[c] \notin Marking \cup Frames \cup Copying \cup Outside \cup {"read", "ended", "restart", "ckptWrite"}
      /\ pc'[c] \notin {"storeMark", "lockMark", "checkMark"}
      /\ pc'[c] # "ckptTruncate" => pc'[c] \in Calling
  BY Zenon DEF IsRestarting, Outside, NewLog, Copying, Marking, Frames, Calling
<1>2. ReadLocks(c)'
  BY <1>1, Zenon DEF ReadLocks, IsRestarting
<1>3. WriteLock(c)'
  BY <1>1, Zenon DEF WriteLock, IsRestarting
<1> QED
  BY <1>2, <1>3, Zenon DEF Locks

\* The steps that start a log over.
Restarting(c) ==
    walRestartLog(c) \/ restartHdr1(c) \/ restartHdr0(c) \/ restartInfo(c) \/ ckptRestart(c)

\* They are taken with all read marks locked, so that no reader is in the log.
LEMMA RestartingStep ==
    ASSUME Shapes, IndexTypes, SlotsInv, NEW c \in Conn, Own(c), Restarting(c)
    PROVE  Locks(c)' /\ Headers(c)'
<1>0. /\ DOMAIN pc = Conn /\ DOMAIN pWal = Conn /\ DOMAIN loc = Conn /\ DOMAIN savepoint = Conn /\ DOMAIN aHdr = 0..1
      /\ DOMAIN pWal[c] = WalFields /\ DOMAIN pWal[c].hdr = HdrFields /\ DOMAIN loc[c] = LocFields
      /\ pWal[c].hdr.mxFrame \in Nat /\ pWal[c].nCkpt \in Nat /\ savepoint[c].nCkpt \in Nat /\ Headers(c)
  BY Zenon DEF Shapes, Own, ConnTypes, WalObject, Header, Locals, Saved, IndexTypes
<1>1. /\ WAL_WRITE_LOCK \notin {WAL_READ_LOCK(0)} \cup ReadSlots /\ WAL_WRITE_LOCK \notin ReadSlots /\ -1 \notin Readers
      /\ \A i \in Readers : WAL_READ_LOCK(i) \in Slots \cap ReadSlots
  BY SlotNumbers, Zenon
<1>2. ASSUME newLog(c)
      PROVE  /\ pWal'[c].hdr.mxFrame = 0 /\ pWal'[c].nCkpt = pWal[c].nCkpt + 1
             /\ pWal'[c].readLock = pWal[c].readLock
  BY <1>0, <1>2, Zenon DEF newLog, WalFields, HdrFields
<1>3. ASSUME pc[c] \in Transaction \ {"ended"}, leaveReadLock0(c), IsWorking(c) \/ IsRestarting(c), loc[c].useWal,
             UNCHANGED <<aHdr, loc, savepoint>>, loc[c].eMode = PASSIVE
      PROVE  Locks(c)' /\ Headers(c)'
  <2>1. /\ pWal'[c].readLock = -1 /\ pWal'[c].hdr = pWal[c].hdr /\ pWal'[c].nCkpt = pWal[c].nCkpt
    BY <1>0, <1>3, Zenon DEF leaveReadLock0, WalFields
  <2>2. pc'[c] = "marks"
    BY <1>0, <1>3, Zenon DEF leaveReadLock0, goto
  <2>3. writeLock(c)' <=> writeLock(c)
    BY <1>1, <1>3, WriteLockKept, Zenon DEF leaveReadLock0
  <2>4. writeLock(c) /\ ~loc[c].closing
    BY <1>3, Zenon DEF IsWorking, IsRestarting
  <2>5. IsMarking(c)'
    BY <1>3, <2>1, <2>2, <2>3, <2>4, Zenon DEF IsMarking, Marking
  <2>6. Locks(c)'
    BY <2>2, <2>5, MarkingNext, Zenon
  <2>7. pc'[c] \in Transaction \ {"ended"} /\ pc'[c] # "walHdr"
    BY <2>2, Zenon DEF Transaction, Marking
  <2> QED
    BY <1>0, <1>1, <1>3, <2>1, <2>3, <2>6, <2>7, StayHeaders, Zenon
<1>4. CASE walRestartLog(c)
  <2>1. pc[c] = "restart" /\ UNCHANGED <<aHdr, aReadMark, loc, savepoint>>
    BY <1>4, Zenon DEF walRestartLog, shm
  <2>2. IsWorking(c)
    BY <2>1, WorkingNow, Zenon
  <2>3. pc[c] \in Transaction \ {"ended"} /\ pc[c] \notin NewLog \cup {"ended"}
    BY <2>1, Zenon DEF Transaction, NewLog
  <2>4. loc[c].useWal /\ loc[c].eMode = PASSIVE /\ pWal[c].readLock \notin Readers /\ writeLock(c) /\ ~loc[c].closing
    BY <2>1, <2>2, Zenon DEF IsWorking
  <2>5. CASE leaveReadLock0(c)
    BY <1>3, <2>1, <2>2, <2>3, <2>4, <2>5, Zenon
  <2>6. CASE shmExclusive(c, ReadSlots, OK) /\ newLog(c) /\ goto(c, "restart1")
    <3>1. pc'[c] = "restart1" /\ pc'[c] \in NewLog
      BY <1>0, <2>6, Zenon DEF goto, NewLog
    <3>2. (writeLock(c)' <=> writeLock(c)) /\ \A i \in Readers : excl'[WAL_READ_LOCK(i)] = c
      BY <1>1, <2>6, WriteLockKept, ExclusiveStep, Zenon
    <3>3. IsRestarting(c)'
      BY <1>2, <2>1, <2>4, <2>6, <3>1, <3>2, Zenon DEF IsRestarting
    <3>4. pc'[c] \notin Transaction /\ pc'[c] # "ended"
      BY <3>1, Zenon DEF Transaction, Marking, Frames
    <3>5. savepoint[c] # NoSavepoint => savepoint[c].nCkpt < pWal'[c].nCkpt /\ savepoint[c].nCkpt <= pWal'[c].nCkpt
      <4>1. savepoint[c] # NoSavepoint => savepoint[c].nCkpt <= pWal[c].nCkpt
        BY <1>0, Zenon DEF Headers, Savepoints
      <4> QED
        BY <1>0, <1>2, <2>6, <4>1
    <3>6. Headers(c)'
      BY <1>2, <2>1, <2>4, <2>6, <3>1, <3>2, <3>4, <3>5, Zenon
         DEF Headers, ReadersHeader, WritersHeader, Savepoints
    <3> QED
      BY <3>3, <3>6, RestartingNext, Zenon
  <2> QED
    BY <1>4, <2>5, <2>6, Zenon DEF walRestartLog
<1>5. CASE restartHdr1(c)
  <2>1. /\ pc[c] = "restart1" /\ pc'[c] = "restart0" /\ UNCHANGED <<lockVars, aReadMark, pWal, loc, savepoint>>
        /\ aHdr' = [aHdr EXCEPT ![1] = pWal[c].hdr]
    BY <1>0, <1>5, Zenon DEF restartHdr1, goto
  <2>2. pc[c] \in NewLog /\ pc'[c] \in NewLog
    BY <2>1, Zenon DEF NewLog
  <2>3. pc[c] \notin Transaction /\ pc'[c] \notin Transaction /\ pc'[c] # "ended" /\ pc'[c] \notin {"ckptTruncate", "ended"}
    BY <2>1, Zenon DEF Transaction, Marking, Frames
  <2>4. IsRestarting(c)'
    BY <2>1, <2>2, <2>3, RestartingNow, Zenon DEF IsRestarting, writeLock, lockVars
  <2>5. aHdr'[0] = aHdr[0]
    BY <1>0, <2>1
  <2>6. writeLock(c)' <=> writeLock(c)
    BY <2>1, Zenon DEF writeLock, lockVars
  <2>7. Headers(c)'
    BY <1>0, <2>1, <2>2, <2>3, <2>5, <2>6, Zenon DEF Headers, ReadersHeader, WritersHeader, Savepoints
  <2> QED
    BY <2>4, <2>7, RestartingNext, Zenon
<1>6. CASE restartHdr0(c)
  <2>1. /\ pc[c] = "restart0" /\ pc'[c] = "restartInfo" /\ UNCHANGED <<lockVars, aReadMark, pWal, loc, savepoint>>
        /\ aHdr' = [aHdr EXCEPT ![0] = pWal[c].hdr]
    BY <1>0, <1>6, Zenon DEF restartHdr0, goto
  <2>2. pc[c] \in NewLog /\ pc'[c] \in Transaction /\ pc'[c] \notin NewLog /\ pc'[c] \notin {"ended", "walHdr", "ckptTruncate"}
    BY <2>1, Zenon DEF NewLog, Transaction
  <2>3. IsRestarting(c)'
    BY <2>1, <2>2, RestartingNow, Zenon DEF IsRestarting, writeLock, lockVars
  <2>4. aHdr'[0] = pWal'[c].hdr
    BY <1>0, <2>1
  <2>5. pWal'[c].hdr.mxFrame = 0
    BY <1>0, <2>1, <2>2, Zenon DEF Headers, WritersHeader
  <2>6. aHdr'[0].mxFrame <= pWal'[c].hdr.mxFrame
    BY <1>0, <2>1, <2>4
  <2>7. ReadersHeader(c)' /\ WritersHeader(c)'
    BY <2>2, <2>3, <2>4, <2>5, <2>6, Zenon DEF ReadersHeader, WritersHeader, IsRestarting
  <2>8. savepoint[c] # NoSavepoint => savepoint[c].nCkpt # pWal[c].nCkpt /\ savepoint[c].nCkpt <= pWal[c].nCkpt
                                      /\ loc[c].eMode = PASSIVE
    <3>1. savepoint[c] # NoSavepoint => savepoint[c].nCkpt < pWal[c].nCkpt /\ loc[c].eMode = PASSIVE
      BY <1>0, <2>2, Zenon DEF Headers, Savepoints
    <3> QED
      BY <1>0, <3>1
  <2>9. Savepoints(c)'
    BY <2>1, <2>2, <2>3, <2>4, <2>5, <2>8, Zenon DEF Savepoints, IsRestarting
  <2> QED
    BY <2>3, <2>7, <2>9, RestartingNext, Zenon DEF Headers
<1>7. CASE restartInfo(c)
  <2>1. pc[c] = "restartInfo" /\ UNCHANGED <<aHdr, loc, savepoint>>
    BY <1>7, Zenon DEF restartInfo
  <2>2. IsRestarting(c)
    BY <2>1, RestartingNow, Zenon
  <2>3. CASE loc[c].useWal /\ leaveReadLock0(c)
    <3>1. pc[c] \in Transaction \ {"ended"} /\ loc[c].eMode = PASSIVE
      BY <2>1, <2>2, <2>3, Zenon DEF Transaction, IsRestarting
    <3> QED
      BY <1>3, <2>1, <2>2, <2>3, <3>1, Zenon
  <2>4. CASE ~loc[c].useWal /\ goto(c, "ckptTruncate") /\ UNCHANGED <<lockVars, pWal>>
    <3>1. pc'[c] = "ckptTruncate" /\ loc[c].eMode # PASSIVE
      BY <1>0, <2>2, <2>4, Zenon DEF goto, IsRestarting
    <3>2. IsRestarting(c)'
      BY <2>1, <2>2, <2>4, <3>1, Zenon DEF IsRestarting, writeLock, lockVars
    <3>3. savepoint[c] = NoSavepoint
      BY <1>0, <3>1, Zenon DEF Headers, Savepoints
    <3>4. pc'[c] \notin Transaction \cup NewLog \cup {"walHdr"} /\ pc'[c] # "ended"
      BY <3>1, Zenon DEF Transaction, Marking, Frames, NewLog
    <3>5. Headers(c)'
      BY <2>1, <3>2, <3>3, <3>4, Zenon DEF Headers, ReadersHeader, WritersHeader, Savepoints, IsRestarting
    <3> QED
      BY <3>2, <3>5, RestartingNext, Zenon
  <2> QED
    BY <1>7, <2>3, <2>4, Zenon DEF restartInfo
<1>8. CASE ckptRestart(c)
  <2>1. pc[c] = "ckptDone" /\ pc[c] \in Copying /\ UNCHANGED <<aHdr, aReadMark, savepoint>>
    BY <1>8, Zenon DEF ckptRestart, Copying, shm
  <2>2. IsCopying(c)
    BY <2>1, CopyingNow, Zenon
  <2>3. CASE /\ loc[c].eMode = TRUNCATE /\ shmExclusive(c, ReadSlots, OK) /\ newLog(c)
             /\ goto(c, "restart1") /\ UNCHANGED loc
    <3>1. pc'[c] = "restart1" /\ pc'[c] \in NewLog /\ pc'[c] \notin Transaction /\ pc'[c] # "ended"
      BY <1>0, <2>3, Zenon DEF goto, NewLog, Transaction, Marking, Frames
    <3>2. (writeLock(c)' <=> writeLock(c)) /\ \A i \in Readers : excl'[WAL_READ_LOCK(i)] = c
      BY <1>1, <2>3, WriteLockKept, ExclusiveStep, Zenon
    <3>3. loc[c].eMode # PASSIVE
      BY <2>3 DEF PASSIVE, TRUNCATE
    <3>4. IsRestarting(c)'
      BY <1>1, <1>2, <2>2, <2>3, <3>1, <3>2, <3>3, Zenon DEF IsRestarting, IsCopying
    <3>5. Headers(c)'
      BY <1>2, <2>1, <2>2, <2>3, <3>1, <3>4, Zenon
         DEF Headers, ReadersHeader, WritersHeader, Savepoints, IsRestarting, IsCopying
    <3> QED
      BY <3>4, <3>5, RestartingNext, Zenon
  <2>4. CASE (\E rc : loc' = [loc EXCEPT ![c].rc = rc]) /\ goto(c, "ckptEnd") /\ UNCHANGED <<lockVars, pWal>>
    <3>1. PICK rc : loc' = [loc EXCEPT ![c].rc = rc]
      BY <2>4, Zenon
    <3>2. loc'[c].useWal = loc[c].useWal /\ loc'[c].closing = loc[c].closing /\ loc'[c].eMode = loc[c].eMode
      BY <1>0, <3>1, Zenon DEF LocFields
    <3>3. pc'[c] = "ckptEnd" /\ (writeLock(c)' <=> writeLock(c))
      BY <1>0, <2>4, Zenon DEF goto, writeLock, lockVars
    <3>4. IsCopying(c)'
      BY <2>1, <2>2, <2>4, <3>2, <3>3, Zenon DEF IsCopying, Copying
    <3> QED
      BY <3>4, CopyingNext, Zenon
  <2> QED
    BY <1>8, <2>3, <2>4, Zenon DEF ckptRestart
<1> QED
  BY <1>4, <1>5, <1>6, <1>7, <1>8, Zenon DEF Restarting

\* The steps of a write transaction in a log that is not restarted.
Writing(c) ==
    \/ sqlite3WalBeginWriteTransaction(c) \/ sqlite3WalEndWriteTransaction(c)
    \/ \E pages, n : walFrames(c, pages, n)
    \/ writeWalHeader(c) \/ syncWalHeader(c) \/ walWriteOneFrame(c) \/ walIndexAppend(c)
    \/ publish1(c) \/ publish0(c)
    \/ sqlite3WalUndo(c) \/ sqlite3WalSavepoint(c) \/ sqlite3WalSavepointUndo(c)

\* They move the header of the writer away from the published one and back,
\* never behind it.
LEMMA WritingStep ==
    ASSUME Shapes, IndexTypes, SlotsInv, NEW c \in Conn, Own(c), Writing(c)
    PROVE  Locks(c)' /\ Headers(c)'
<1>0. /\ DOMAIN pc = Conn /\ DOMAIN pWal = Conn /\ DOMAIN loc = Conn /\ DOMAIN savepoint = Conn /\ DOMAIN aHdr = 0..1
      /\ DOMAIN pWal[c] = WalFields /\ DOMAIN pWal[c].hdr = HdrFields /\ DOMAIN loc[c] = LocFields
      /\ pWal[c].hdr.mxFrame \in Nat /\ pWal[c].nCkpt \in Nat /\ loc[c].nAppended \in Nat
      /\ aHdr[0].mxFrame \in Nat /\ aReadMark \in [Readers -> Nat] /\ Headers(c)
  BY Zenon DEF Shapes, Own, ConnTypes, WalObject, Header, Locals, Saved, IndexTypes
<1>1. /\ Loc0.useWal = FALSE /\ Loc0.closing = FALSE /\ Loc0.eMode = PASSIVE
      /\ \A l \in Frames \cup {"read", "ended", "restart"} : l \in Transaction /\ l \notin NewLog
      /\ "read" # "ended"
  BY Zenon DEF Loc0, Transaction, NewLog, Frames
<1>2. ASSUME pc[c] \in Frames \cup {"read", "ended", "restart"}
      PROVE  IsWorking(c)
  BY <1>2, WorkingNow, Zenon
<1>3. ASSUME pc[c] \in Frames \cup {"read", "ended", "restart"}, writeLock(c)
      PROVE  /\ aHdr[0].mxFrame <= pWal[c].hdr.mxFrame
             /\ pWal[c].hdr.salt = aHdr[0].salt \/ aHdr[0].mxFrame = 0
             /\ pWal[c].readLock \in Readers => aReadMark[pWal[c].readLock] <= aHdr[0].mxFrame
             /\ savepoint[c] # NoSavepoint =>
                   /\ savepoint[c].nCkpt <= pWal[c].nCkpt
                   /\ pc[c] # "ended" => IF savepoint[c].nCkpt = pWal[c].nCkpt
                                         THEN aHdr[0].mxFrame <= savepoint[c].mxFrame ELSE aHdr[0].mxFrame = 0
  BY <1>0, <1>1, <1>3, Zenon DEF Headers, WritersHeader, Savepoints
<1>4. CASE sqlite3WalBeginWriteTransaction(c)
  <2>1. /\ pc[c] = "read" /\ ~writeLock(c) /\ UNCHANGED <<aHdr, aReadMark, pc, pWal, loc, savepoint>>
        /\ pWal[c].hdr = aHdr[0] /\ shmExclusive(c, {WAL_WRITE_LOCK}, OK)
    BY <1>4, Zenon DEF sqlite3WalBeginWriteTransaction, shm
  <2>2. IsWorking(c) /\ savepoint[c] = NoSavepoint
    BY <1>0, <1>2, <2>1, Zenon DEF Headers, Savepoints
  <2>3. writeLock(c)'
    BY <2>1, WriteLockKept, Zenon
  <2>4. \A i \in Readers : c \in shared[WAL_READ_LOCK(i)] => c \in shared'[WAL_READ_LOCK(i)]
    <3>1. \A i \in Readers : WAL_READ_LOCK(i) \in Slots \ {WAL_WRITE_LOCK}
      BY SlotNumbers, Zenon
    <3> QED
      BY <2>1, <3>1, ExclusiveStep, Zenon DEF Kept
  <2>5. IsWorking(c)'
    BY <2>1, <2>2, <2>3, <2>4, Zenon DEF IsWorking
  <2>6. aHdr[0].mxFrame <= pWal[c].hdr.mxFrame
    BY <1>0, <2>1
  <2>7. pWal[c].readLock \in Readers => aReadMark[pWal[c].readLock] <= aHdr[0].mxFrame
    BY <1>0, <2>1, Zenon DEF Headers, ReadersHeader
  <2>8. Headers(c)'
    BY <1>1, <2>1, <2>2, <2>3, <2>6, <2>7, Zenon DEF Headers, ReadersHeader, WritersHeader, Savepoints, NewLog
  <2> QED
    BY <2>5, <2>8, WorkingNext, Zenon
<1>5. CASE sqlite3WalEndWriteTransaction(c)
  <2>1. /\ pc[c] = "ended" /\ pc'[c] = "read" /\ UNCHANGED <<aHdr, aReadMark, loc>> /\ savepoint'[c] = NoSavepoint
        /\ pWal' = [pWal EXCEPT ![c].iReCksum = 0] /\ shmUnlock(c, {WAL_WRITE_LOCK})
    BY <1>0, <1>5, Zenon DEF sqlite3WalEndWriteTransaction, shm, goto
  <2>2. IsWorking(c) /\ writeLock(c) /\ pWal[c].hdr = aHdr[0]
    BY <1>0, <1>2, <2>1, Zenon DEF IsWorking, Headers, WritersHeader
  <2>3. pWal'[c].readLock = pWal[c].readLock /\ pWal'[c].hdr = pWal[c].hdr
    BY <1>0, <2>1, Zenon DEF WalFields
  <2>4. ~writeLock(c)'
    BY <2>1, WriteLockKept, Zenon
  <2>5. \A i \in Readers : c \in shared[WAL_READ_LOCK(i)] => c \in shared'[WAL_READ_LOCK(i)]
    <3>1. \A i \in Readers : WAL_READ_LOCK(i) \in Slots \ {WAL_WRITE_LOCK}
      BY SlotNumbers, Zenon
    <3> QED
      BY <2>1, <3>1, UnlockStep, Zenon DEF Kept
  <2>6. IsWorking(c)'
    BY <2>1, <2>2, <2>3, <2>5, Zenon DEF IsWorking
  <2>7. pWal[c].readLock \in Readers => aReadMark[pWal[c].readLock] <= aHdr[0].mxFrame
    BY <1>3, <2>1, <2>2, Zenon
  <2>8. pWal[c].hdr.mxFrame <= aHdr[0].mxFrame
    BY <1>0, <2>2
  <2>9. Headers(c)'
    BY <2>1, <2>2, <2>3, <2>4, <2>7, <2>8, Zenon DEF Headers, ReadersHeader, WritersHeader, Savepoints, NewLog
  <2> QED
    BY <2>6, <2>9, WorkingNext, Zenon
\* From here on c has the write lock before and after the step.
<1>6. ASSUME pc[c] \in Frames \cup {"read", "restart"}, pc'[c] \in Frames \cup {"read", "restart"},
             UNCHANGED <<lockVars, aHdr, aReadMark>>, writeLock(c), savepoint'[c] = savepoint[c],
             pWal'[c].readLock = pWal[c].readLock, pWal'[c].nCkpt = pWal[c].nCkpt,
             aHdr[0].mxFrame <= pWal'[c].hdr.mxFrame,
             pWal'[c].hdr.salt = aHdr[0].salt \/ aHdr[0].mxFrame = 0,
             pc'[c] = "walHdr" => pWal'[c].hdr.mxFrame = 0,
             pc'[c] = "restart" => pWal[c].readLock \notin Readers /\ loc'[c].useWal,
             loc'[c].useWal => pc'[c] # "read",
             loc'[c].eMode = PASSIVE, ~loc'[c].closing
      PROVE  Locks(c)' /\ Headers(c)'
  <2>1. writeLock(c)' /\ IsWorking(c) /\ pc[c] # "ended" /\ pc'[c] # "ended"
    BY <1>2, <1>6, Zenon DEF writeLock, lockVars, Frames
  <2>2. IsWorking(c)'
    BY <1>6, <2>1, Zenon DEF IsWorking, lockVars
  <2>3. ReadersHeader(c)'
    BY <2>1, Zenon DEF ReadersHeader
  <2>4. WritersHeader(c)'
    BY <1>1, <1>3, <1>6, <2>1, Zenon DEF WritersHeader
  <2>5. Savepoints(c)'
    BY <1>1, <1>3, <1>6, <2>1, Zenon DEF Savepoints
  <2> QED
    BY <2>2, <2>3, <2>4, <2>5, WorkingNext, Zenon DEF Headers
<1>7. ASSUME NEW pages, NEW n, walFrames(c, pages, n) PROVE Locks(c)' /\ Headers(c)'
  <2>1. /\ pc[c] = "read" /\ writeLock(c) /\ UNCHANGED <<lockVars, aHdr, aReadMark, pWal, savepoint>>
    BY <1>7, Zenon DEF walFrames, shm
  <2>2. /\ pc'[c] \in {"restart", "walHdr", "append"}
        /\ pc'[c] = "restart" => pWal[c].readLock = 0
        /\ pc'[c] = "walHdr" => pWal[c].hdr.mxFrame = 0
    BY <1>0, <1>7, Zenon DEF walFrames, goto
  <2>3. PICK v, i : loc' = [loc EXCEPT ![c].useWal = TRUE, ![c].pages = pages, ![c].val = v,
                                       ![c].nTruncate = n, ![c].iFirst = i]
    BY <1>7, Zenon DEF walFrames
  <2>4. loc'[c].useWal = TRUE /\ loc'[c].eMode = loc[c].eMode /\ loc'[c].closing = loc[c].closing
    BY <1>0, <2>3, Zenon DEF LocFields
  <2>5. IsWorking(c)
    BY <1>2, <2>1, Zenon
  <2>6. pc'[c] \in Frames \cup {"read", "restart"} /\ pc'[c] # "read" /\ pWal'[c] = pWal[c] /\ savepoint'[c] = savepoint[c]
    BY <2>1, <2>2, Zenon DEF Frames
  <2>7. pc[c] \in Frames \cup {"read", "restart"} /\ 0 \notin Readers /\ loc'[c].eMode = PASSIVE /\ ~loc'[c].closing
    BY <2>1, <2>4, <2>5, SlotNumbers, Zenon DEF IsWorking
  <2> QED
    BY <1>3, <1>6, <2>1, <2>2, <2>4, <2>6, <2>7, Zenon
<1>8. CASE writeWalHeader(c) \/ syncWalHeader(c)
  <2>1. /\ pc[c] \in {"walHdr", "walSync"} /\ pc'[c] \in {"walSync", "append"}
        /\ UNCHANGED <<lockVars, aHdr, aReadMark, loc, savepoint>>
    BY <1>0, <1>8, Zenon DEF writeWalHeader, syncWalHeader, shm, goto
  <2>2. pc[c] \in Frames \cup {"read", "restart"} /\ pc'[c] \in Frames \cup {"read", "restart"}
        /\ pc'[c] \notin {"walHdr", "restart", "read"}
    BY <2>1, Zenon DEF Frames
  <2>3. IsWorking(c) /\ writeLock(c)
    BY <1>2, <2>1, <2>2, Zenon DEF IsWorking
  <2>4. CASE syncWalHeader(c)
    <3>1. pWal' = pWal
      BY <2>4, Zenon DEF syncWalHeader
    <3> QED
      BY <1>3, <1>6, <2>1, <2>2, <2>3, <3>1, Zenon DEF IsWorking
  <2>5. CASE writeWalHeader(c)
    <3>1. pc[c] = "walHdr" /\ \E s, k : pWal' = [pWal EXCEPT ![c].hdr.salt = s, ![c].hdr.ck = k]
      BY <2>5, Zenon DEF writeWalHeader
    <3>2. PICK s, k : pWal' = [pWal EXCEPT ![c].hdr.salt = s, ![c].hdr.ck = k]
      BY <3>1, Zenon
    <3>3. pWal'[c].readLock = pWal[c].readLock /\ pWal'[c].nCkpt = pWal[c].nCkpt
          /\ pWal'[c].hdr.mxFrame = pWal[c].hdr.mxFrame
      BY <1>0, <3>2, Zenon DEF WalFields, HdrFields
    <3>4. pWal[c].hdr.mxFrame = 0
      BY <1>0, <3>1, Zenon DEF Headers, WritersHeader
    <3>5. aHdr[0].mxFrame <= pWal[c].hdr.mxFrame
      BY <1>3, <2>2, <2>3, Zenon
    <3>6. aHdr[0].mxFrame = 0
      BY <1>0, <3>4, <3>5
    <3> QED
      BY <1>6, <2>1, <2>2, <2>3, <3>3, <3>5, <3>6, Zenon DEF IsWorking
  <2> QED
    BY <1>8, <2>4, <2>5, Zenon
<1>9. CASE walWriteOneFrame(c)
  <2>1. pc[c] = "append" /\ UNCHANGED <<lockVars, aHdr, aReadMark, pc, savepoint>>
    BY <1>9, Zenon DEF walWriteOneFrame, shm
  <2>2. PICK p, over : loc' = [loc EXCEPT ![c].pages = @ \ {p}, ![c].nAppended = IF over THEN @ ELSE @ + 1]
    BY <1>9, Zenon DEF walWriteOneFrame
  <2>3. loc'[c].useWal = loc[c].useWal /\ loc'[c].eMode = loc[c].eMode /\ loc'[c].closing = loc[c].closing
    BY <1>0, <2>2, Zenon DEF LocFields
  <2>4. /\ pWal'[c].readLock = pWal[c].readLock /\ pWal'[c].nCkpt = pWal[c].nCkpt
        /\ pWal'[c].hdr.mxFrame = pWal[c].hdr.mxFrame /\ pWal'[c].hdr.salt = pWal[c].hdr.salt
    BY <1>0, <1>9, Zenon DEF walWriteOneFrame, WalFields, HdrFields
  <2>5. pc[c] \in Frames \cup {"read", "restart"} /\ pc'[c] = "append"
    BY <2>1, Zenon DEF Frames
  <2>6. IsWorking(c) /\ writeLock(c)
    BY <1>2, <2>1, <2>5, Zenon DEF IsWorking
  <2> QED
    BY <1>3, <1>6, <2>1, <2>3, <2>4, <2>5, <2>6, Zenon DEF IsWorking
<1>10. CASE walIndexAppend(c)
  <2> DEFINE l == loc[c]
             commit == l.nTruncate # 0
             recksum == commit /\ pWal[c].iReCksum # 0
             mx == pWal[c].hdr.mxFrame + l.nAppended
             w == IF recksum THEN walRewriteChecksums(pWalFd, pWal[c].iReCksum, mx, pWal[c].hdr.salt)
                  ELSE pWalFd
  <2>1. /\ pc[c] = "append" /\ UNCHANGED <<lockVars, aHdr, aReadMark, savepoint>>
        /\ pWal' = [pWal EXCEPT ![c].hdr.mxFrame = mx,
                                ![c].hdr.nPage = IF commit THEN l.nTruncate ELSE @,
                                ![c].hdr.ck = IF recksum THEN w[mx].ck ELSE @,
                                ![c].iReCksum = IF recksum THEN 0 ELSE @]
    BY <1>10, Zenon DEF walIndexAppend
  <2>2. \/ pc'[c] = "publish1" /\ loc' = loc
        \/ pc'[c] = "read" /\ loc'[c] = Loc0
    BY <1>0, <1>10, Zenon DEF walIndexAppend, return, goto
  <2>3. pc[c] \in Frames \cup {"read", "restart"} /\ pc'[c] \in Frames \cup {"read", "restart"}
        /\ pc'[c] \notin {"walHdr", "restart"}
    BY <2>1, <2>2, Zenon DEF Frames
  <2>4. IsWorking(c) /\ writeLock(c)
    BY <1>2, <2>1, <2>3, Zenon DEF IsWorking
  <2>5. /\ aHdr[0].mxFrame <= pWal[c].hdr.mxFrame
        /\ pWal[c].hdr.salt = aHdr[0].salt \/ aHdr[0].mxFrame = 0
    BY <1>3, <2>3, <2>4, Zenon
  <2>6. aHdr[0].mxFrame <= mx
    BY <1>0, <2>5
  <2> HIDE DEF w, commit, recksum, mx
  <2>7. /\ pWal'[c].readLock = pWal[c].readLock /\ pWal'[c].nCkpt = pWal[c].nCkpt
        /\ pWal'[c].hdr.mxFrame = mx /\ pWal'[c].hdr.salt = pWal[c].hdr.salt
    BY <1>0, <2>1, Zenon DEF WalFields, HdrFields
  <2>8. (loc'[c].useWal => pc'[c] # "read") /\ loc'[c].eMode = PASSIVE /\ ~loc'[c].closing
    BY <1>1, <2>2, <2>4, Zenon DEF IsWorking
  <2> QED
    BY <1>6, <2>1, <2>3, <2>4, <2>5, <2>6, <2>7, <2>8, Zenon
<1>11. CASE publish1(c)
  <2>1. /\ pc[c] = "publish1" /\ pc'[c] = "publish0" /\ UNCHANGED <<lockVars, aReadMark, pWal, loc, savepoint>>
        /\ aHdr' = [aHdr EXCEPT ![1] = pWal[c].hdr]
    BY <1>0, <1>11, Zenon DEF publish1, goto
  <2>2. aHdr'[0] = aHdr[0] /\ (writeLock(c)' <=> writeLock(c))
    BY <1>0, <2>1 DEF writeLock, lockVars
  <2>3. IsWorking(c)
    BY <1>2, <2>1, Zenon DEF Frames
  <2>4. IsWorking(c)'
    BY <2>1, <2>2, <2>3, Zenon DEF IsWorking, Frames, lockVars
  <2>5. pc[c] \in Transaction \ {"ended"} /\ pc'[c] \in Transaction \ {"ended"} /\ pc'[c] # "walHdr"
    BY <2>1, Zenon DEF Transaction, Frames
  <2>6. Headers(c)'
    BY <1>0, <2>1, <2>2, <2>4, <2>5, StayHeaders, Zenon DEF IsWorking
  <2> QED
    BY <2>4, <2>6, WorkingNext, Zenon
<1>12. CASE publish0(c) \/ sqlite3WalUndo(c)
  <2>1. /\ pc[c] \in {"publish0", "read"} /\ pc'[c] = "ended" /\ UNCHANGED <<lockVars, aReadMark, savepoint>>
        /\ loc'[c] \in {Loc0, loc[c]}
    BY <1>0, <1>12, Zenon DEF publish0, sqlite3WalUndo, return, goto
  <2>2. pc[c] \in Frames \cup {"read", "ended", "restart"} /\ pc[c] \notin {"ended"}
    BY <2>1, Zenon DEF Frames
  <2>3. IsWorking(c)
    BY <1>2, <2>2, Zenon
  <2>4. writeLock(c) /\ writeLock(c)'
    BY <1>12, <2>1, <2>3, Zenon DEF IsWorking, publish0, sqlite3WalUndo, writeLock, lockVars
  <2>5. /\ aHdr'[0] = pWal'[c].hdr /\ aHdr[0].mxFrame <= aHdr'[0].mxFrame /\ aHdr'[0].mxFrame \in Nat
        /\ pWal'[c].readLock = pWal[c].readLock /\ pWal'[c].nCkpt = pWal[c].nCkpt
    <3>1. CASE publish0(c)
      <4>1. aHdr' = [aHdr EXCEPT ![0] = pWal[c].hdr] /\ pWal' = pWal
        BY <3>1, Zenon DEF publish0
      <4>2. aHdr[0].mxFrame <= pWal[c].hdr.mxFrame
        BY <1>3, <2>2, <2>4, Zenon
      <4> QED
        BY <1>0, <4>1, <4>2
    <3>2. CASE sqlite3WalUndo(c)
      BY <1>0, <3>2 DEF sqlite3WalUndo, WalFields
    <3> QED
      BY <1>12, <3>1, <3>2, Zenon
  <2>6. ~loc'[c].useWal /\ loc'[c].eMode = PASSIVE /\ ~loc'[c].closing
    <3>1. CASE publish0(c)
      BY <1>0, <1>1, <3>1, Zenon DEF publish0, return
    <3>2. CASE sqlite3WalUndo(c)
      BY <2>3, <3>2, Zenon DEF sqlite3WalUndo, IsWorking
    <3> QED
      BY <1>12, <3>1, <3>2, Zenon
  <2>7. IsWorking(c)'
    BY <2>1, <2>2, <2>3, <2>4, <2>5, <2>6, ZenonT(30) DEF IsWorking, lockVars
  <2>8. aHdr'[0].mxFrame <= pWal'[c].hdr.mxFrame
    BY <2>5, SMTT(30)
  <2>9. pWal'[c].readLock \in Readers => aReadMark'[pWal'[c].readLock] <= aHdr'[0].mxFrame
    <3>1. pWal[c].readLock \in Readers => aReadMark[pWal[c].readLock] <= aHdr[0].mxFrame
      BY <1>3, <2>2, <2>4, Zenon
    <3> QED
      BY <1>0, <2>1, <2>5, <3>1, SMTT(30)
  <2>10. ReadersHeader(c)' /\ WritersHeader(c)'
    BY <1>1, <2>1, <2>4, <2>5, <2>8, <2>9, Zenon DEF ReadersHeader, WritersHeader
  <2>11. Savepoints(c)'
    BY <1>1, <1>3, <2>1, <2>2, <2>4, <2>5, <2>6, Zenon DEF Savepoints
  <2> QED
    BY <2>7, <2>10, <2>11, WorkingNext, Zenon DEF Headers
<1>13. CASE sqlite3WalSavepoint(c)
  <2>1. /\ pc[c] = "read" /\ writeLock(c) /\ UNCHANGED <<lockVars, aHdr, aReadMark, pc, pWal, loc>>
        /\ savepoint'[c] = [mxFrame |-> pWal[c].hdr.mxFrame, ck |-> pWal[c].hdr.ck, nCkpt |-> pWal[c].nCkpt]
    BY <1>0, <1>13, Zenon DEF sqlite3WalSavepoint, shm
  <2>2. savepoint'[c].mxFrame = pWal[c].hdr.mxFrame /\ savepoint'[c].nCkpt = pWal[c].nCkpt
    BY <2>1
  <2>3. IsWorking(c) /\ writeLock(c)'
    BY <1>2, <2>1, Zenon DEF writeLock, lockVars
  <2>4. IsWorking(c)'
    BY <2>1, <2>3, Zenon DEF IsWorking, lockVars
  <2>5. ReadersHeader(c)' /\ WritersHeader(c)'
    BY <1>1, <1>3, <2>1, <2>3, Zenon DEF ReadersHeader, WritersHeader
  <2>6. pWal[c].nCkpt <= pWal[c].nCkpt
    BY <1>0
  <2>7. Savepoints(c)'
    BY <1>1, <1>3, <2>1, <2>2, <2>3, <2>6, Zenon DEF Savepoints, IsWorking
  <2> QED
    BY <2>4, <2>5, <2>7, WorkingNext, Zenon DEF Headers
<1>14. CASE sqlite3WalSavepointUndo(c)
  <2> DEFINE mx == IF savepoint[c].nCkpt # pWal[c].nCkpt THEN 0 ELSE savepoint[c].mxFrame
  <2>1. /\ pc[c] = "read" /\ writeLock(c) /\ savepoint[c] # NoSavepoint
        /\ UNCHANGED <<lockVars, aHdr, aReadMark, pc, loc>>
        /\ savepoint' = [savepoint EXCEPT ![c].mxFrame = mx, ![c].nCkpt = pWal[c].nCkpt]
    BY <1>14, Zenon DEF sqlite3WalSavepointUndo
  <2>2. \/ pWal' = pWal
        \/ \E ck, k : pWal' = [pWal EXCEPT ![c].hdr.mxFrame = mx, ![c].hdr.ck = ck, ![c].iReCksum = k]
    BY <1>0, <1>14, Zenon DEF sqlite3WalSavepointUndo
  <2>3. aHdr[0].mxFrame <= mx
    <3>1. IF savepoint[c].nCkpt = pWal[c].nCkpt
          THEN aHdr[0].mxFrame <= savepoint[c].mxFrame ELSE aHdr[0].mxFrame = 0
      BY <1>1, <1>3, <2>1, Zenon
    <3> QED
      BY <1>0, <3>1
  <2> HIDE DEF mx
  <2>4. aHdr[0].mxFrame <= pWal[c].hdr.mxFrame /\ (pWal[c].hdr.salt = aHdr[0].salt \/ aHdr[0].mxFrame = 0)
    BY <1>3, <2>1, Zenon
  <2>5. /\ pWal'[c].readLock = pWal[c].readLock /\ pWal'[c].nCkpt = pWal[c].nCkpt
        /\ pWal'[c].hdr.salt = pWal[c].hdr.salt /\ aHdr[0].mxFrame <= pWal'[c].hdr.mxFrame
    <3>1. CASE pWal' = pWal
      BY <2>4, <3>1, Zenon
    <3>2. ASSUME NEW ck, NEW k, pWal' = [pWal EXCEPT ![c].hdr.mxFrame = mx, ![c].hdr.ck = ck, ![c].iReCksum = k]
          PROVE  /\ pWal'[c].readLock = pWal[c].readLock /\ pWal'[c].nCkpt = pWal[c].nCkpt
                 /\ pWal'[c].hdr.salt = pWal[c].hdr.salt /\ pWal'[c].hdr.mxFrame = mx
      BY <1>0, <3>2, Zenon DEF WalFields, HdrFields
    <3> QED
      BY <2>2, <2>3, <3>1, <3>2, Zenon
  <2>6. savepoint'[c].mxFrame = mx /\ savepoint'[c].nCkpt = pWal[c].nCkpt
    BY <1>0, <2>1, Zenon DEF Own, ConnTypes, Saved
  <2>7. IsWorking(c) /\ writeLock(c)'
    BY <1>2, <2>1, Zenon DEF writeLock, lockVars
  <2>8. IsWorking(c)'
    BY <2>1, <2>5, <2>7, Zenon DEF IsWorking, lockVars
  <2>9. ReadersHeader(c)' /\ WritersHeader(c)'
    BY <1>1, <1>3, <2>1, <2>4, <2>5, <2>7, Zenon DEF ReadersHeader, WritersHeader
  <2>10. pWal[c].nCkpt <= pWal[c].nCkpt
    BY <1>0
  <2>11. Savepoints(c)'
    BY <1>1, <2>1, <2>3, <2>5, <2>6, <2>7, <2>10, Zenon DEF Savepoints, IsWorking
  <2> QED
    BY <2>8, <2>9, <2>11, WorkingNext, Zenon DEF Headers
<1> QED
  BY <1>4, <1>5, <1>7, <1>8, <1>9, <1>10, <1>11, <1>12, <1>13, <1>14, Zenon DEF Writing

-----------------------------------------------------------------------------
(* The invariant is inductive *)

\* What a connection knows of itself after one of its own steps.
LEMMA OwnStep ==
    ASSUME LogInv, NEW c \in Conn, step(c) PROVE Own(c)'
<1>1. Shapes /\ IndexTypes /\ BlockTypes /\ SlotsInv /\ Own(c)
  BY Zenon DEF LogInv
<1>2. Elsewhere(c) \/ Reading(c) \/ Writing(c) \/ Restarting(c)
  BY Zenon DEF step, Elsewhere, Reading, Writing, Restarting
<1>3. Locks(c)' /\ Headers(c)'
  BY <1>1, <1>2, ElsewhereStep, ReadingStep, WritingStep, RestartingStep, Zenon
<1> QED
  BY <1>1, <1>3, TypesStep, Zenon DEF Own

\* No step of a connection breaks the invariant, its own part or another's.
LEMMA ConnectionStep ==
    ASSUME LogInv, NEW c \in Conn, step(c) PROVE LogInv'
<1>1. Shapes /\ IndexTypes /\ BlockTypes /\ SlotsInv /\ LevelsInv /\ Own(c) /\ ConnTypes(c)
  BY Zenon DEF LogInv, Own
<1>2. \A d \in Conn : Own(d)'
  <2> TAKE d \in Conn
  <2>1. CASE d = c
    BY <2>1, OwnStep, Zenon
  <2>2. CASE d # c
    BY <2>2, OthersStep, Zenon
  <2> QED
    BY <2>1, <2>2, Zenon
<1>3. Shapes' /\ SlotsInv' /\ LevelsInv'
  BY <1>1, StepIsOwn, SlotsStep, LevelsStep, Zenon
<1>4. IndexTypes' /\ BlockTypes'
  BY <1>1, IndexStep, BlocksStep, Zenon
<1> QED
  BY <1>2, <1>3, <1>4, Zenon DEF LogInv

\* Every connection is between two calls, nothing is locked, the index is empty:
\* the program starts so, and a crash leaves memory so.
Fresh ==
    /\ DOMAIN pc = Conn /\ \A c \in Conn : pc[c] \in {"idle", "closed"}
    /\ pWal = [c \in Conn |-> Wal0] /\ loc = [c \in Conn |-> Loc0]
    /\ savepoint = [c \in Conn |-> NoSavepoint]
    /\ shared = [s \in Slots |-> {}] /\ excl = [s \in Slots |-> NoConn]
    /\ aHdr = [k \in 0..1 |-> NoHdr] /\ aReadMark = [i \in Readers |-> 0]
InMemory == Shapes /\ IndexTypes /\ SlotsInv /\ \A c \in Conn : Own(c)

\* Then the parts of the invariant about memory hold.
LEMMA NothingHeld == Fresh => InMemory
<1> SUFFICES ASSUME Fresh PROVE InMemory
  BY Zenon
<1>1. Shapes
  BY Zenon DEF Shapes, Fresh
<1>2. DOMAIN NoHdr = HdrFields /\ NoHdr.mxFrame = 0 /\ Header(NoHdr)
  BY Zenon DEF NoHdr, HdrFields, Header
<1>3. IndexTypes
  <2>1. aReadMark \in [Readers -> Nat]
    BY Zenon DEF Fresh
  <2>2. DOMAIN aHdr = 0..1 /\ aHdr[0] = NoHdr /\ aHdr[1] = NoHdr
    BY DEF Fresh
  <2> QED
    BY <1>2, <2>1, <2>2, Zenon DEF IndexTypes
<1>4. SlotsInv
  BY ConnAssumption, Zenon DEF SlotsInv, Fresh
<1>5. ASSUME NEW c \in Conn PROVE Own(c)
  <2>1. pWal[c] = Wal0 /\ loc[c] = Loc0 /\ savepoint[c] = NoSavepoint
    BY Zenon DEF Fresh
  <2>2. WalObject(Wal0) /\ Wal0.readLock = -1
    <3>1. Wal0.hdr = NoHdr /\ Wal0.readLock = -1 /\ Wal0.nCkpt = 0 /\ DOMAIN Wal0 = WalFields
      BY Zenon DEF Wal0, WalFields
    <3> QED
      BY <1>2, <3>1 DEF WalObject
  <2>3. Locals(Loc0) /\ Loc0.useWal = FALSE /\ Loc0.closing = FALSE /\ Loc0.eMode = PASSIVE
    BY Zenon DEF Loc0, Locals, LocFields
  <2>4. Saved(NoSavepoint)
    BY DEF NoSavepoint, Saved
  <2>5. pc[c] \in Outside \ {"ckptWrite"} /\ pc[c] \notin Marking \cup NewLog \cup Transaction \cup Copying
        /\ pc[c] \notin {"ckptTruncate", "ckptMark", "ckptTryMark", "walHdr", "ended", "ckptWrite"}
    BY Zenon DEF Fresh, Outside, Marking, NewLog, Transaction, Copying, Frames
  <2>6. ~writeLock(c)
    BY ConnAssumption, SlotNumbers, Zenon DEF writeLock, Fresh
  <2>7. -1 \notin Readers
    BY DEF Readers
  <2>8. ConnTypes(c)
    BY <2>1, <2>2, <2>3, <2>4, <2>5, Zenon DEF ConnTypes
  <2>9. ReadLocks(c)
    <3>1. pc[c] \notin NewLog \cup {"restart", "restartInfo", "ckptTruncate", "storeMark", "lockMark", "checkMark"}
      BY <2>5, Zenon DEF Marking, Transaction
    <3>2. pWal[c].readLock = -1 /\ pWal[c].readLock \notin Readers
      BY <2>1, <2>2, <2>7, Zenon
    <3> QED
      BY <3>1, <3>2, Zenon DEF ReadLocks
  <2>10. WriteLock(c)
    BY <2>1, <2>3, <2>5, <2>6, Zenon DEF WriteLock, Transaction
  <2>11. Headers(c)
    BY <2>1, <2>2, <2>5, <2>6, <2>7, Zenon DEF Headers, ReadersHeader, WritersHeader, Savepoints
  <2> QED
    BY <2>8, <2>9, <2>10, <2>11, Zenon DEF Own, Locks
<1> QED
  BY <1>1, <1>3, <1>4, <1>5, Zenon DEF InMemory

\* The process starts in the invariant.
LEMMA LogInit == Init => LogInv
<1> SUFFICES ASSUME Init PROVE LogInv
  BY Zenon
<1>1. Fresh
  BY Zenon DEF Init, Fresh
<1>3. Shapes /\ IndexTypes /\ SlotsInv /\ \A c \in Conn : Own(c)
  BY <1>1, NothingHeld, Zenon DEF InMemory
<1>4. Counter(NoFrame) /\ 0 \in 0..MaxFrame
  BY WalAssumption DEF NoFrame, Counter
<1>5. BlockTypes
  BY <1>4, Zenon DEF BlockTypes, Init
<1>6. LevelsInv
  <2>1. SHARED # NONE /\ SHARED # EXCLUSIVE /\ NONE # EXCLUSIVE /\ SHARED \in Level /\ NONE \in Level
    BY DEF SHARED, NONE, EXCLUSIVE, Level
  <2>2. \A c \in Conn : levels[c] = NONE <=> pc[c] = "closed"
    BY <2>1, Zenon DEF Init
  <2>3. \A c \in Conn : ~loc[c].closing /\ levels[c] # EXCLUSIVE
    BY <2>1, Zenon DEF Init, Loc0
  <2>4. levels \in [Conn -> Level]
    BY <2>1, Zenon DEF Init
  <2> QED
    BY <2>2, <2>3, <2>4, Zenon DEF LevelsInv
<1> QED
  BY <1>3, <1>5, <1>6, Zenon DEF LogInv

\* A crash: memory is gone, the log has what was written or any of what the
\* device may have of it.
LEMMA CrashStep == LogInv /\ (Kill \/ PowerLoss) => LogInv'
<1> SUFFICES ASSUME LogInv, Kill \/ PowerLoss PROVE LogInv'
  BY Zenon
<1>1. PICK w, d : die(w, d)
  BY Zenon DEF Kill, PowerLoss
<1>2. /\ pc' = [c \in Conn |-> "closed"] /\ pWal' = [c \in Conn |-> Wal0] /\ loc' = [c \in Conn |-> Loc0]
      /\ savepoint' = [c \in Conn |-> NoSavepoint] /\ levels' = [c \in Conn |-> NONE]
      /\ shared' = [s \in Slots |-> {}] /\ excl' = [s \in Slots |-> NoConn]
      /\ aHdr' = [k \in 0..1 |-> NoHdr] /\ aReadMark' = [i \in Readers |-> 0]
  BY <1>1, Zenon DEF die
<1>3. Fresh'
  BY <1>2, Zenon DEF Fresh
<1>4. InMemory'
  BY <1>3, NothingHeld, PTL
<1>5. LevelsInv'
  <2>1. NONE # EXCLUSIVE /\ NONE \in Level /\ Loc0.closing = FALSE
    BY DEF NONE, EXCLUSIVE, Level, Loc0
  <2> QED
    BY <1>2, <2>1, Zenon DEF LevelsInv
<1>6. BlockTypes'
  <2>1. BlockTypes /\ 0 \in 0..MaxFrame /\ Counter(NoFrame)
    BY WalAssumption DEF LogInv, NoFrame, Counter
  <2>2. CASE Kill
    BY <2>1, <2>2, Zenon DEF Kill, files, BlockTypes
  <2>3. CASE PowerLoss
    <3>1. PICK v \in Choices(walMay, MaxFrame) \cup {u \in {[f \in 0..MaxFrame |-> NoFrame]} : walShrunk} :
               pWalFd' = v /\ walMay' = [f \in 0..MaxFrame |-> {v[f]}]
      BY <2>3, Zenon DEF PowerLoss
    <3>2. CASE v \in Choices(walMay, MaxFrame)
      <4>1. DOMAIN v = DOMAIN walMay /\ \A b \in DOMAIN walMay : v[b] \in walMay[b]
        BY <3>2 DEF Choices
      <4> QED
        BY <2>1, <3>1, <4>1, Zenon DEF BlockTypes
    <3>3. CASE v = [f \in 0..MaxFrame |-> NoFrame]
      BY <2>1, <3>1, <3>3, Zenon DEF BlockTypes
    <3> QED
      BY <3>1, <3>2, <3>3, Zenon
  <2> QED
    BY <2>2, <2>3, Zenon
<1> QED
  BY <1>4, <1>5, <1>6, Zenon DEF LogInv, InMemory

\* Nothing else changes what the invariant is about.
LEMMA LogStutter == LogInv /\ UNCHANGED vars => LogInv'
<1> SUFFICES ASSUME LogInv, UNCHANGED vars PROVE LogInv'
  BY Zenon
<1>1. UNCHANGED <<levels, shared, excl, aHdr, aReadMark, pWalFd, walMay, pc, pWal, loc, savepoint>>
  BY Zenon DEF vars, lockVars, shm, files
<1>2. Shapes' /\ IndexTypes' /\ BlockTypes' /\ SlotsInv' /\ LevelsInv'
  BY <1>1, Zenon DEF LogInv, Shapes, IndexTypes, BlockTypes, SlotsInv, LevelsInv
<1>3. ASSUME NEW c \in Conn PROVE Own(c)'
  <2>1. ConnTypes(c) /\ ReadLocks(c) /\ WriteLock(c) /\ ReadersHeader(c) /\ WritersHeader(c) /\ Savepoints(c)
    BY Zenon DEF LogInv, Own, Locks, Headers
  <2>2. writeLock(c)' <=> writeLock(c)
    BY <1>1, Zenon DEF writeLock
  <2>3. ConnTypes(c)' /\ ReadLocks(c)'
    BY <1>1, <2>1, Zenon DEF ConnTypes, ReadLocks
  <2>4. WriteLock(c)' /\ ReadersHeader(c)'
    BY <1>1, <2>1, <2>2, Zenon DEF WriteLock, ReadersHeader
  <2>5. WritersHeader(c)' /\ Savepoints(c)'
    BY <1>1, <2>1, <2>2, Zenon DEF WritersHeader, Savepoints
  <2> QED
    BY <2>3, <2>4, <2>5, Zenon DEF Own, Locks, Headers
<1> QED
  BY <1>2, <1>3, Zenon DEF LogInv

\* The invariant says of a reader between two calls what the property says.
LEMMA KeptLog == LogInv => ReadersKeepTheLog
<1> SUFFICES ASSUME LogInv, NEW c \in Conn, pc[c] = "read", pWal[c].readLock > 0, pWal[c].hdr.mxFrame > 0
             PROVE  /\ pWal[c].hdr.salt = aHdr[0].salt \/ writeLock(c)
                    /\ aReadMark[pWal[c].readLock] <= pWal[c].hdr.mxFrame
  BY Zenon DEF ReadersKeepTheLog
<1>1. ReadersHeader(c) /\ WritersHeader(c) /\ WalObject(pWal[c]) /\ pWal[c].hdr.mxFrame \in Nat
      /\ aReadMark \in [Readers -> Nat] /\ aHdr[0].mxFrame \in Nat
  BY Zenon DEF LogInv, Own, Headers, ConnTypes, WalObject, Header, IndexTypes
<1>2. pWal[c].readLock \in Readers
  BY <1>1 DEF WalObject
<1>3. CASE writeLock(c)
  <2>1. aHdr[0].mxFrame <= pWal[c].hdr.mxFrame /\ aReadMark[pWal[c].readLock] <= aHdr[0].mxFrame
    BY <1>1, <1>2, <1>3, Zenon DEF WritersHeader, Transaction
  <2> QED
    BY <1>1, <1>2, <1>3, <2>1, SMTT(30)
<1>4. CASE ~writeLock(c)
  BY <1>1, <1>2, <1>4, Zenon DEF ReadersHeader
<1> QED
  BY <1>3, <1>4, Zenon

\* No reader of the log has its frames taken away, whatever the other
\* connections write, restart, checkpoint and truncate, and across crashes: the
\* salt of the log in the wal-index stays that of its snapshot, and the mark
\* that checkpoints respect is never past it (walTryBeginRead, walRestartLog,
\* walCheckpoint).
THEOREM LogKeptForReaders == Spec => []ReadersKeepTheLog
<1>1. LogInv /\ [Next]_vars => LogInv'
  <2> SUFFICES ASSUME LogInv, [Next]_vars PROVE LogInv'
    BY Zenon
  <2>1. ASSUME NEW c \in Conn, step(c) PROVE LogInv'
    BY <2>1, ConnectionStep, Zenon
  <2> QED
    BY <2>1, CrashStep, LogStutter, Zenon DEF Next
<1> QED
  BY <1>1, LogInit, KeptLog, PTL DEF Spec

=============================================================================
