-------------------------------- MODULE Wal --------------------------------
(***************************************************************************)
(* The write-ahead log of sqlite3.c (wal.c in the amalgamation) over the   *)
(* wal-index slots of JvmVfsLocks.  The connections of one database share  *)
(* the wal-index (aHdr, nBackfill, aReadMark, aPgno), which lives in the   *)
(* process's linear memory, the WAL file and the database file.            *)
(*                                                                         *)
(* A load or a store of shared memory whose order matters is a step of its *)
(* own; a transient exclusive lock around one store is part of that step.  *)
(* Locks that are busy and make the code retry or give up leave the state  *)
(* alone unless the code remembers the refusal.                            *)
(*                                                                         *)
(* A file block keeps the content the operating system has (pWalFd, pDbFd) *)
(* and the contents that may be on the device (walMay, dbMay): everything  *)
(* written since the last sync, and the content of that sync.  A checksum  *)
(* is the list of what it covers, so that distinct contents have distinct  *)
(* checksums.  synchronous=NORMAL: a commit does not sync the WAL.         *)
(***************************************************************************)
EXTENDS JvmVfsLocks, Sequences, Integers

CONSTANTS MaxPage,      \* database pages are 1..MaxPage
          MaxFrame,     \* bound on the frames of the log
          Limits        \* the bounds of an instance, one record per scenario

\* The locks of the WAL are the write, the checkpoint and the recovery lock,
\* READ_LOCK(0), and one or more that come with a mark.
ASSUME WalAssumption == MaxFrame \in Nat /\ SHM_NLOCK > 4

Page == 1..MaxPage
Frame == 1..MaxFrame

WAL_WRITE_LOCK == 0
WAL_CKPT_LOCK == 1
WAL_RECOVER_LOCK == 2
WAL_READ_LOCK(i) == 3 + i
WAL_NREADER == SHM_NLOCK - 3
Readers == 1..(WAL_NREADER - 1)
ReadSlots == {WAL_READ_LOCK(i) : i \in Readers}
READMARK_NOT_USED == MaxFrame + 1

PASSIVE == 0
FULL == 1
RESTART == 2
TRUNCATE == 3

VARIABLES aHdr,        \* the two copies of the wal-index header
          nBackfill,   \* frames already copied into the database file
          aReadMark,   \* aReadMark[i]: the frame readers of slot i may use the log up to
          aPgno,       \* aPgno[f]: page of frame f, or 0
          pWalFd, pDbFd,     \* what the operating system has of the two files
          walMay, dbMay,     \* what may be on the device
          walShrunk,         \* the WAL may be empty on the device
          pc,          \* where a connection is in the call it is making
          pWal,        \* the connection's Wal object
          loc,         \* local variables of that call
          savepoint,   \* the pager's aWalData[] of its open savepoint
          cache,       \* the image the pages of the pager cache belong to
          hist,        \* images committed to the log file, oldest first
          pub,         \* how many of them are published in the wal-index
          synced,      \* how many of them a power loss must leave
          done,        \* how often each bounded event has happened
          limit        \* the scenario: who may do what, and how often

shm == <<aHdr, nBackfill, aReadMark, aPgno>>
files == <<pWalFd, walMay, walShrunk, pDbFd, dbMay>>
ghosts == <<hist, pub, synced>>
bounds == <<done, limit>>
vars == <<lockVars, shm, files, pc, pWal, loc, savepoint, cache, ghosts, bounds>>

-----------------------------------------------------------------------------
(* Contents *)

Garbage == -1          \* a page past the end of the file
NoImage == [p \in Page |-> Garbage]
NoFrame == [pg |-> 0, val |-> 0, n |-> 0, salt |-> 0, ck |-> <<>>]
NoHdr == [isInit |-> FALSE, salt |-> 0, mxFrame |-> 0, nPage |-> 0, ck |-> <<>>]
NoSavepoint == [mxFrame |-> -1, ck |-> <<>>, nCkpt |-> 0]

\* The largest element of a set of numbers, or 0.
Largest(S) == IF \E x \in S : \A y \in S : y <= x THEN CHOOSE x \in S : \A y \in S : y <= x ELSE 0
Least(S) == CHOOSE x \in S : \A y \in S : x <= y

\* Block 0 of the WAL file is its header; n is nCkpt there and the database
\* size of a commit in a frame.
WalHeader(salt, nCkpt) ==
    [pg |-> 0, val |-> 0, n |-> nCkpt, salt |-> salt, ck |-> <<<<salt, nCkpt>>>>]
HeaderOK(h) == h.salt # 0 /\ h.ck = <<<<h.salt, h.n>>>>
TornHeaders(old, new) ==
    {[old EXCEPT !.salt = s, !.n = k, !.ck = <<>>] : s \in {old.salt, new.salt}, k \in {old.n, new.n}}

Covers(fr) == <<fr.pg, fr.val, fr.n>>

\* A frame whose checksum will be rewritten at commit has none until then.
walEncodeFrame(wal, pg, val, n) ==
    IF wal.iReCksum # 0
    THEN [pg |-> pg, val |-> val, n |-> n, salt |-> 0, ck |-> <<>>]
    ELSE [pg |-> pg, val |-> val, n |-> n, salt |-> wal.hdr.salt,
          ck |-> Append(wal.hdr.ck, <<pg, val, n>>)]

walDecodeFrame(w, f) ==
    /\ w[f].salt = w[0].salt /\ w[f].pg # 0
    /\ w[f].ck = w[0].ck \o [i \in 1..f |-> Covers(w[i])]

\* The overwritten frames keep their old checksums.
keepChecksums(w, first, last, salt) == w

\* walRewriteChecksums: frames first..last get the salt and the checksum that
\* continue the chain of the frame (or the header) before them.
walRewriteChecksums(w, first, last, salt) ==
    [f \in DOMAIN w |->
        IF first <= f /\ f <= last
        THEN [w[f] EXCEPT !.salt = salt,
                          !.ck = w[first - 1].ck \o [i \in 1..(f - first + 1) |-> Covers(w[first + i - 1])]]
        ELSE w[f]]

\* The frames of file w up to the first that is not valid, and the last of
\* them that ends a transaction.
ValidFrames(w) ==
    IF HeaderOK(w[0]) THEN {f \in Frame : \A g \in 1..f : walDecodeFrame(w, g)} ELSE {}
LastCommit(w) == Largest({f \in ValidFrames(w) : w[f].n # 0})

FileSize(d) == Largest({p \in Page : d[p] # Garbage})

\* The last frame of page p among min..mx.
lastFrame(idx, p, min, mx) == Largest({f \in Frame : min <= f /\ f <= mx /\ idx[f] = p})

\* The image a process finds that opens the files w and d after a crash.
Recovered(w, d) ==
    LET mx == LastCommit(w)
        size == IF mx # 0 THEN w[mx].n ELSE FileSize(d)
        idx == [f \in Frame |-> w[f].pg]
    IN  [p \in Page |->
            LET f == lastFrame(idx, p, 1, mx)
            IN  IF p > size THEN Garbage ELSE IF f # 0 THEN w[f].val ELSE d[p]]

-----------------------------------------------------------------------------
(* Connections *)

Wal0 == [hdr |-> NoHdr, readLock |-> -1, minFrame |-> 0, iReCksum |-> 0, nCkpt |-> 0]
Loc0 == [useWal |-> FALSE, changed |-> FALSE, mxI |-> 0, mxReadMark |-> 0,
         pages |-> {}, val |-> 0, nTruncate |-> 0, iFirst |-> 0, nAppended |-> 0,
         eMode |-> PASSIVE, i |-> 0, y |-> 0, mxSafeFrame |-> 0, nBackfill |-> 0,
         closing |-> FALSE, rc |-> OK]

Init ==
    /\ limit \in Limits
    /\ levels = [c \in Conn |-> IF c \in limit.conns THEN SHARED ELSE NONE]
    /\ shared = [s \in Slots |-> {}]
    /\ excl = [s \in Slots |-> NoConn]
    /\ aHdr = [k \in 0..1 |-> NoHdr]
    /\ nBackfill = 0
    /\ aReadMark = [i \in Readers |-> 0]
    /\ aPgno = [f \in Frame |-> 0]
    /\ pWalFd = [f \in 0..MaxFrame |-> NoFrame]
    /\ walMay = [f \in 0..MaxFrame |-> {NoFrame}]
    /\ walShrunk = FALSE
    /\ pDbFd = [p \in Page |-> 0]
    /\ dbMay = [p \in Page |-> {0}]
    /\ pc = [c \in Conn |-> IF c \in limit.conns THEN "idle" ELSE "closed"]
    /\ pWal = [c \in Conn |-> Wal0]
    /\ loc = [c \in Conn |-> Loc0]
    /\ savepoint = [c \in Conn |-> NoSavepoint]
    /\ cache = [c \in Conn |-> NoImage]
    /\ hist = <<pDbFd>>
    /\ pub = 1
    /\ synced = 1
    /\ done = [write |-> 0, salt |-> 0, close |-> 0, kill |-> 0, power |-> 0]

goto(c, l) == pc' = [pc EXCEPT ![c] = l]
return(c, l) == goto(c, l) /\ loc' = [loc EXCEPT ![c] = Loc0]
may(k) == done[k] < limit[k]
count(k) == done' = [done EXCEPT ![k] = @ + 1] /\ UNCHANGED limit
free(c, slots) == \A s \in slots : ~heldByOther(c, s) /\ shared[s] \ {c} = {}
writeLock(c) == excl[WAL_WRITE_LOCK] = c
ckptLock(c) == excl[WAL_CKPT_LOCK] = c

\* What connection c reads: the frame walFindFrame finds, or else the page of
\* the database file.  A connection on READ_LOCK(0) ignores the log.
walFindFrame(c, p) ==
    IF pWal[c].readLock <= 0 THEN 0
    ELSE lastFrame(aPgno, p, pWal[c].minFrame, pWal[c].hdr.mxFrame)

sqlite3WalDbsize(c) ==
    IF pWal[c].hdr.nPage # 0 THEN pWal[c].hdr.nPage ELSE FileSize(pDbFd)

Sees(c) ==
    [p \in Page |->
        LET f == walFindFrame(c, p)
        IN  IF p > sqlite3WalDbsize(c) THEN Garbage ELSE IF f # 0 THEN pWalFd[f].val ELSE pDbFd[p]]

open(c) ==
    /\ pc[c] = "closed" /\ c \in limit.conns
    /\ lock(c, SHARED, OK)
    /\ goto(c, "idle")
    /\ UNCHANGED <<shm, files, pWal, loc, savepoint, cache, ghosts, bounds>>

-----------------------------------------------------------------------------
(* The wal-index header *)

HeaderReadable == aHdr[0] = aHdr[1] /\ aHdr[0].isInit

\* walIndexRecover.  Every frame up to the first invalid one enters the index.
\* A header with a bad checksum still leaves its salt and counter behind.
walIndexRecover(c) ==
    LET w == pWalFd
        mx == LastCommit(w)
        seen == \E f \in Frame : w[f] # NoFrame
        hdr == [isInit |-> TRUE, salt |-> IF seen THEN w[0].salt ELSE 0, mxFrame |-> mx,
                nPage |-> IF mx = 0 THEN 0 ELSE w[mx].n, ck |-> IF mx = 0 THEN <<>> ELSE w[mx].ck]
    IN  /\ free(c, {WAL_WRITE_LOCK, WAL_CKPT_LOCK, WAL_RECOVER_LOCK} \cup ReadSlots)
        /\ aHdr' = [k \in 0..1 |-> hdr]
        /\ nBackfill' = 0
        /\ aReadMark' = [i \in Readers |-> IF i = 1 /\ mx # 0 THEN mx ELSE READMARK_NOT_USED]
        /\ aPgno' = [f \in Frame |-> IF f \in ValidFrames(w) THEN w[f].pg ELSE 0]
        /\ pWal' = [pWal EXCEPT ![c].hdr = hdr, ![c].nCkpt = IF seen THEN w[0].n ELSE @]

\* walIndexReadHdr, when it returns SQLITE_OK; changed is its *pChanged.  A
\* connection that finds the header unreadable and the write lock taken is
\* refused and leaves everything as it was.
walIndexReadHdr(c, changed) ==
    \/ /\ HeaderReadable
       /\ changed = (pWal[c].hdr # aHdr[0])
       /\ pWal' = [pWal EXCEPT ![c].hdr = aHdr[0]]
       /\ UNCHANGED shm
    \/ ~HeaderReadable /\ changed = TRUE /\ walIndexRecover(c)

-----------------------------------------------------------------------------
(* Read transactions: walTryBeginRead, one step per access to the index *)

beginReadHdr(c) ==
    /\ pc[c] \in {"idle", "hdr"}
    /\ \E changed \in BOOLEAN :
          /\ walIndexReadHdr(c, changed)
          /\ loc' = [loc EXCEPT ![c].changed = @ \/ changed]
    /\ goto(c, "info")
    /\ UNCHANGED <<lockVars, files, savepoint, cache, ghosts, bounds>>

\* A log that has been copied into the database file whole can be ignored.
beginReadInfo(c) ==
    /\ pc[c] = "info"
    /\ goto(c, IF nBackfill = pWal[c].hdr.mxFrame THEN "lock0" ELSE "marks")
    /\ UNCHANGED <<lockVars, shm, files, pWal, loc, savepoint, cache, ghosts, bounds>>

beginReadLock0(c) ==
    /\ pc[c] = "lock0"
    /\ \E rc \in {OK, BUSY} :
          /\ shmShared(c, {WAL_READ_LOCK(0)}, rc)
          /\ goto(c, IF rc = OK THEN "check0" ELSE "marks")
    /\ UNCHANGED <<shm, files, pWal, loc, savepoint, cache, ghosts, bounds>>

\* The transaction is open.  The pager drops its cache if the header changed.
begun(c) ==
    /\ IF loc[c].useWal
       THEN goto(c, IF pWal[c].hdr.mxFrame = 0 THEN "walHdr" ELSE "append") /\ UNCHANGED <<loc, cache>>
       ELSE /\ return(c, "read")
            /\ cache' = [cache EXCEPT ![c] = IF loc[c].changed \/ @ = NoImage THEN Sees(c)' ELSE @]

retry(c) ==
    /\ goto(c, IF loc[c].useWal THEN "marks" ELSE "hdr")
    /\ loc' = [loc EXCEPT ![c].mxI = 0, ![c].mxReadMark = 0]
    /\ UNCHANGED cache

beginReadCheck0(c) ==
    /\ pc[c] = "check0"
    /\ \/ /\ aHdr[0] # pWal[c].hdr
          /\ shmUnlock(c, {WAL_READ_LOCK(0)})
          /\ retry(c)
          /\ UNCHANGED pWal
       \/ /\ aHdr[0] = pWal[c].hdr
          /\ pWal' = [pWal EXCEPT ![c].readLock = 0]
          /\ UNCHANGED <<lockVars, aPgno, pWalFd, pDbFd>>
          /\ begun(c)
    /\ UNCHANGED <<shm, files, savepoint, ghosts, bounds>>

\* The largest mark not past the snapshot, in the last slot that has it.  If
\* there is a better mark to set, it is set in the first slot that is free.
beginReadMarks(c) ==
    LET mxFrame == pWal[c].hdr.mxFrame
        usable == {i \in Readers : aReadMark[i] <= mxFrame}
        mark == Largest({aReadMark[i] : i \in usable})
        mxI == Largest({i \in usable : aReadMark[i] = mark})
        better == mark < mxFrame \/ mxI = 0
        use(i, l) == loc' = [loc EXCEPT ![c].mxI = i, ![c].mxReadMark = mark] /\ goto(c, l)
    IN  /\ pc[c] = "marks"
        /\ \/ /\ better
              /\ \E i \in Readers :
                    /\ \A j \in 1..(i - 1) : ~free(c, {WAL_READ_LOCK(j)})
                    /\ shmExclusive(c, {WAL_READ_LOCK(i)}, OK)
                    /\ use(i, "storeMark")
              /\ UNCHANGED cache
           \/ /\ ~better \/ \A i \in Readers : ~free(c, {WAL_READ_LOCK(i)})
              /\ IF mxI = 0 THEN retry(c) ELSE use(mxI, "lockMark") /\ UNCHANGED cache
              /\ UNCHANGED lockVars
        /\ UNCHANGED <<shm, files, pWal, savepoint, ghosts, bounds>>

beginReadStoreMark(c) ==
    LET i == loc[c].mxI
    IN  /\ pc[c] = "storeMark"
        /\ aReadMark' = [aReadMark EXCEPT ![i] = pWal[c].hdr.mxFrame]
        /\ loc' = [loc EXCEPT ![c].mxReadMark = pWal[c].hdr.mxFrame]
        /\ shmUnlock(c, {WAL_READ_LOCK(i)})
        /\ goto(c, "lockMark")
        /\ UNCHANGED <<aHdr, nBackfill, aPgno, files, pWal, savepoint, cache, ghosts, bounds>>

beginReadLockMark(c) ==
    /\ pc[c] = "lockMark"
    /\ \/ /\ shmShared(c, {WAL_READ_LOCK(loc[c].mxI)}, OK)
          /\ pWal' = [pWal EXCEPT ![c].minFrame = nBackfill + 1]
          /\ goto(c, "checkMark")
          /\ UNCHANGED <<loc, cache>>
       \/ /\ shmShared(c, {WAL_READ_LOCK(loc[c].mxI)}, BUSY)
          /\ retry(c)
          /\ UNCHANGED pWal
    /\ UNCHANGED <<shm, files, savepoint, ghosts, bounds>>

beginReadCheckMark(c) ==
    LET i == loc[c].mxI
        stale == aReadMark[i] # loc[c].mxReadMark \/ aHdr[0] # pWal[c].hdr
    IN  /\ pc[c] = "checkMark"
        /\ \/ /\ stale
              /\ shmUnlock(c, {WAL_READ_LOCK(i)})
              /\ retry(c)
              /\ pWal' = [pWal EXCEPT ![c].minFrame = 0]
           \/ /\ ~stale
              /\ pWal' = [pWal EXCEPT ![c].readLock = i]
              /\ UNCHANGED <<lockVars, aPgno, pWalFd, pDbFd>>
              /\ begun(c)
        /\ UNCHANGED <<shm, files, savepoint, ghosts, bounds>>

\* SQLITE_PROTOCOL after too many retries, or SQLITE_BUSY_RECOVERY.
beginReadGivesUp(c) ==
    /\ pc[c] = "hdr"
    /\ return(c, "idle")
    /\ cache' = [cache EXCEPT ![c] = NoImage]
    /\ UNCHANGED <<lockVars, shm, files, pWal, savepoint, ghosts, bounds>>

\* minFrame means nothing without a read lock and is set when the next is taken;
\* it is cleared here and at a retry so that equal situations are equal states.
sqlite3WalEndReadTransaction(c) ==
    /\ pc[c] = "read" /\ ~writeLock(c)
    /\ shmUnlock(c, {WAL_READ_LOCK(pWal[c].readLock)})
    /\ pWal' = [pWal EXCEPT ![c].readLock = -1, ![c].minFrame = 0]
    /\ goto(c, "idle")
    /\ UNCHANGED <<shm, files, loc, savepoint, cache, ghosts, bounds>>

-----------------------------------------------------------------------------
(* Write transactions *)

\* SQLITE_BUSY_SNAPSHOT unless the snapshot is still the newest.
sqlite3WalBeginWriteTransaction(c) ==
    /\ pc[c] = "read" /\ ~writeLock(c) /\ c \in limit.writers
    /\ pWal[c].hdr = aHdr[0]
    /\ shmExclusive(c, {WAL_WRITE_LOCK}, OK)
    /\ UNCHANGED <<shm, files, pc, pWal, loc, savepoint, cache, ghosts, bounds>>

\* Rolling back to nothing: pages the transaction added are written by it.
AllWritten(c, pages, nTruncate) ==
    \A p \in (sqlite3WalDbsize(c) + 1)..nTruncate :
        p \in pages \/ walFindFrame(c, p) > aHdr[0].mxFrame

ImageAfter(c, pages, val, nTruncate) ==
    [p \in Page |->
        LET f == walFindFrame(c, p)
        IN  CASE p > nTruncate -> Garbage
              [] p \in pages   -> val
              [] OTHER         -> IF f # 0 THEN pWalFd[f].val ELSE pDbFd[p]]

\* walFrames: write the pages, as part of a transaction (nTruncate = 0: the
\* pager spills one page, never the first) or to commit one.
walFrames(c, pages, nTruncate) ==
    /\ pc[c] = "read" /\ writeLock(c) /\ may("write")
    /\ AllWritten(c, pages, nTruncate)
    /\ count("write")
    /\ loc' = [loc EXCEPT ![c].useWal = TRUE, ![c].pages = pages, ![c].val = done.write + 1,
                          ![c].nTruncate = nTruncate,
                          ![c].iFirst = IF pWal[c].hdr # aHdr[0] THEN aHdr[0].mxFrame + 1 ELSE 0]
    /\ hist' = IF nTruncate = 0 THEN hist
               ELSE Append(hist, ImageAfter(c, pages, done.write + 1, nTruncate))
    /\ goto(c, IF pWal[c].readLock = 0 THEN "restart"
               ELSE IF pWal[c].hdr.mxFrame = 0 THEN "walHdr" ELSE "append")
    /\ UNCHANGED <<lockVars, shm, files, pWal, savepoint, cache, pub, synced>>

\* walRestartHdr: the private header, its two shared copies, then the rest.
newLog(c) ==
    /\ pWal' = [pWal EXCEPT ![c].hdr.mxFrame = 0, ![c].hdr.salt = done.salt + 1, ![c].nCkpt = @ + 1]
    /\ count("salt")

restartHdr1(c) ==
    /\ pc[c] = "restart1"
    /\ aHdr' = [aHdr EXCEPT ![1] = pWal[c].hdr]
    /\ goto(c, "restart0")
    /\ UNCHANGED <<lockVars, nBackfill, aReadMark, aPgno, files, pWal, loc, savepoint, cache, ghosts, bounds>>

restartHdr0(c) ==
    /\ pc[c] = "restart0"
    /\ aHdr' = [aHdr EXCEPT ![0] = pWal[c].hdr]
    /\ goto(c, "restartInfo")
    /\ UNCHANGED <<lockVars, nBackfill, aReadMark, aPgno, files, pWal, loc, savepoint, cache, ghosts, bounds>>

\* The writer then gives READ_LOCK(0) up too and takes a mark, still in its
\* transaction; a TRUNCATE checkpoint empties the file first.
leaveReadLock0(c) ==
    /\ shmUnlock(c, {WAL_READ_LOCK(0)} \cup ReadSlots)
    /\ pWal' = [pWal EXCEPT ![c].readLock = -1]
    /\ goto(c, "marks")

restartInfo(c) ==
    /\ pc[c] = "restartInfo"
    /\ nBackfill' = 0
    /\ aReadMark' = [i \in Readers |-> IF i = 1 THEN 0 ELSE READMARK_NOT_USED]
    /\ IF loc[c].useWal THEN leaveReadLock0(c)
       ELSE goto(c, "ckptTruncate") /\ UNCHANGED <<lockVars, pWal>>
    /\ UNCHANGED <<aHdr, aPgno, files, loc, savepoint, cache, ghosts, bounds>>

\* Readers of the log are not waited for.
restartUnderReaders(c) ==
    /\ pc[c] = "restart"
    /\ IF nBackfill > 0
       THEN newLog(c) /\ goto(c, "restart1") /\ UNCHANGED lockVars
       ELSE leaveReadLock0(c) /\ UNCHANGED bounds
    /\ UNCHANGED <<shm, files, loc, savepoint, cache, ghosts>>

\* walRestartLog: start over if the log is copied and nobody reads it.
walRestartLog(c) ==
    /\ pc[c] = "restart"
    /\ \/ /\ nBackfill > 0
          /\ shmExclusive(c, ReadSlots, OK)
          /\ newLog(c)
          /\ goto(c, "restart1")
       \/ /\ nBackfill = 0 \/ ~free(c, ReadSlots)
          /\ leaveReadLock0(c)
          /\ UNCHANGED bounds
    /\ UNCHANGED <<shm, files, loc, savepoint, cache, ghosts>>

\* The first frame of a log comes after its header, which is synced.
writeWalHeader(c) ==
    LET fresh == pWal[c].nCkpt = 0
        salt == IF fresh THEN done.salt + 1 ELSE pWal[c].hdr.salt
        h == WalHeader(salt, pWal[c].nCkpt)
    IN  /\ pc[c] = "walHdr"
        /\ IF fresh THEN count("salt") ELSE UNCHANGED bounds
        /\ pWalFd' = [pWalFd EXCEPT ![0] = h]
        /\ walMay' = [walMay EXCEPT ![0] = @ \cup {h} \cup UNION {TornHeaders(o, h) : o \in @}]
        /\ pWal' = [pWal EXCEPT ![c].hdr.salt = salt, ![c].hdr.ck = h.ck]
        /\ goto(c, "walSync")
        /\ UNCHANGED <<lockVars, shm, walShrunk, pDbFd, dbMay, loc, savepoint, cache, ghosts>>

syncWal ==
    /\ walMay' = [f \in 0..MaxFrame |-> {pWalFd[f]}]
    /\ walShrunk' = FALSE
    /\ synced' = pub

syncWalHeader(c) ==
    /\ pc[c] = "walSync"
    /\ syncWal
    /\ goto(c, "append")
    /\ UNCHANGED <<lockVars, shm, pWalFd, pDbFd, dbMay, pWal, loc, savepoint, cache, hist, pub, bounds>>

\* One page.  A page this transaction has written before is overwritten in
\* place, unless it is the last of a commit, which needs a frame of its own.
walWriteOneFrame(c) ==
    LET l == loc[c]
        p == Least(l.pages)
        last == l.pages = {p}
        iWrite == walFindFrame(c, p)
        overwrite == l.iFirst # 0 /\ (~last \/ l.nTruncate = 0) /\ iWrite >= l.iFirst
        f == IF overwrite THEN iWrite ELSE pWal[c].hdr.mxFrame + l.nAppended + 1
        fr == IF overwrite THEN [pWalFd[f] EXCEPT !.val = l.val]
              ELSE walEncodeFrame(pWal[c], p, l.val, IF last THEN l.nTruncate ELSE 0)
    IN  /\ pc[c] = "append" /\ l.pages # {}
        /\ pWalFd' = [pWalFd EXCEPT ![f] = fr]
        /\ walMay' = [walMay EXCEPT ![f] = @ \cup {fr}]
        /\ loc' = [loc EXCEPT ![c].pages = @ \ {p}, ![c].nAppended = IF overwrite THEN @ ELSE @ + 1]
        /\ pWal' = [pWal EXCEPT
                      ![c].iReCksum = IF overwrite /\ (@ = 0 \/ f < @) THEN f ELSE @,
                      ![c].hdr.ck = IF overwrite \/ pWal[c].iReCksum # 0 THEN @ ELSE fr.ck]
        /\ UNCHANGED <<lockVars, shm, walShrunk, pDbFd, dbMay, pc, savepoint, cache, ghosts, bounds>>

\* The checksums a commit must repair, the index and the private header.
walIndexAppend(c) ==
    LET l == loc[c]
        commit == l.nTruncate # 0
        recksum == commit /\ pWal[c].iReCksum # 0
        old == pWal[c].hdr.mxFrame
        mx == old + l.nAppended
        w == IF recksum THEN walRewriteChecksums(pWalFd, pWal[c].iReCksum, mx, pWal[c].hdr.salt)
             ELSE pWalFd
    IN  /\ pc[c] = "append" /\ l.pages = {}
        /\ pWalFd' = w
        /\ walMay' = [f \in 0..MaxFrame |-> walMay[f] \cup {w[f]}]
        /\ aPgno' = IF mx = old THEN aPgno
                    ELSE [f \in Frame |-> CASE f <= old -> aPgno[f] [] f > mx -> 0 [] OTHER -> w[f].pg]
        /\ pWal' = [pWal EXCEPT ![c].hdr.mxFrame = mx,
                                ![c].hdr.nPage = IF commit THEN l.nTruncate ELSE @,
                                ![c].hdr.ck = IF recksum THEN w[mx].ck ELSE @,
                                ![c].iReCksum = IF recksum THEN 0 ELSE @]
        /\ IF commit THEN goto(c, "publish1") /\ UNCHANGED loc ELSE return(c, "read")
        /\ UNCHANGED <<lockVars, aHdr, nBackfill, aReadMark, walShrunk, pDbFd, dbMay, savepoint, cache,
                       ghosts, bounds>>

\* walIndexWriteHdr: the second copy first; the transaction is committed when
\* the first copy is written.
publish1(c) ==
    /\ pc[c] = "publish1"
    /\ aHdr' = [aHdr EXCEPT ![1] = pWal[c].hdr]
    /\ goto(c, "publish0")
    /\ UNCHANGED <<lockVars, nBackfill, aReadMark, aPgno, files, pWal, loc, savepoint, cache, ghosts, bounds>>

publish0(c) ==
    /\ pc[c] = "publish0"
    /\ aHdr' = [aHdr EXCEPT ![0] = pWal[c].hdr]
    /\ pub' = pub + 1
    /\ return(c, "ended")
    /\ UNCHANGED <<lockVars, nBackfill, aReadMark, aPgno, files, pWal, savepoint, cache, hist, synced, bounds>>

\* walCleanupHash: an empty log is cleaned by the first frame written to it.
Cleaned(mxFrame) ==
    IF mxFrame = 0 THEN aPgno ELSE [f \in Frame |-> IF f > mxFrame THEN 0 ELSE aPgno[f]]

sqlite3WalUndo(c) ==
    /\ pc[c] = "read" /\ writeLock(c)
    /\ pWal' = [pWal EXCEPT ![c].hdr = aHdr[0], ![c].iReCksum = 0]
    /\ aPgno' = Cleaned(aHdr[0].mxFrame)
    /\ goto(c, "ended")
    /\ UNCHANGED <<lockVars, aHdr, nBackfill, aReadMark, files, loc, savepoint, cache, ghosts, bounds>>

sqlite3WalSavepoint(c) ==
    /\ pc[c] = "read" /\ writeLock(c) /\ savepoint[c] = NoSavepoint
    /\ savepoint' = [savepoint EXCEPT ![c] = [mxFrame |-> pWal[c].hdr.mxFrame, ck |-> pWal[c].hdr.ck,
                                              nCkpt |-> pWal[c].nCkpt]]
    /\ UNCHANGED <<lockVars, shm, files, pc, pWal, loc, cache, ghosts, bounds>>

\* A log restarted since the savepoint is rolled back to its beginning.
sqlite3WalSavepointUndo(c) ==
    LET s == savepoint[c]
        mx == IF s.nCkpt # pWal[c].nCkpt THEN 0 ELSE s.mxFrame
        moves == mx < pWal[c].hdr.mxFrame
    IN  /\ pc[c] = "read" /\ writeLock(c) /\ s # NoSavepoint
        /\ savepoint' = [savepoint EXCEPT ![c].mxFrame = mx, ![c].nCkpt = pWal[c].nCkpt]
        /\ pWal' = IF ~moves THEN pWal
                   ELSE [pWal EXCEPT ![c].hdr.mxFrame = mx, ![c].hdr.ck = s.ck,
                                     ![c].iReCksum = IF @ > mx THEN 0 ELSE @]
        /\ aPgno' = IF moves THEN Cleaned(mx) ELSE aPgno
        /\ UNCHANGED <<lockVars, aHdr, nBackfill, aReadMark, files, pc, loc, cache, ghosts, bounds>>

\* The pager ends every write transaction so, with its cache up to date.
sqlite3WalEndWriteTransaction(c) ==
    /\ pc[c] = "ended"
    /\ shmUnlock(c, {WAL_WRITE_LOCK})
    /\ pWal' = [pWal EXCEPT ![c].iReCksum = 0]
    /\ savepoint' = [savepoint EXCEPT ![c] = NoSavepoint]
    /\ cache' = [cache EXCEPT ![c] = Sees(c)]
    /\ goto(c, "read")
    /\ UNCHANGED <<shm, files, loc, ghosts, bounds>>

-----------------------------------------------------------------------------
(* Checkpoints: sqlite3WalCheckpoint and walCheckpoint *)

\* BUSY if another checkpoint runs.
sqlite3WalCheckpoint(c, eMode) ==
    /\ pc[c] = "idle" /\ c \in limit.checkpointers
    /\ eMode = TRUNCATE => may("salt")
    /\ shmExclusive(c, {WAL_CKPT_LOCK}, OK)
    /\ loc' = [loc EXCEPT ![c].eMode = eMode]
    /\ goto(c, IF eMode = PASSIVE THEN "ckptHdr" ELSE "ckptWrite")
    /\ UNCHANGED <<shm, files, pWal, savepoint, cache, ghosts, bounds>>

\* With a writer in the way the checkpoint is a passive one.
ckptWriteLock(c) ==
    /\ pc[c] = "ckptWrite"
    /\ \E rc \in {OK, BUSY} :
          /\ shmExclusive(c, {WAL_WRITE_LOCK}, rc)
          /\ loc' = [loc EXCEPT ![c].eMode = IF rc = OK THEN @ ELSE PASSIVE]
    /\ goto(c, "ckptHdr")
    /\ UNCHANGED <<shm, files, pWal, savepoint, cache, ghosts, bounds>>

ckptReadHdr(c) ==
    /\ pc[c] = "ckptHdr"
    /\ \/ \E changed \in BOOLEAN :
             /\ walIndexReadHdr(c, changed)
             /\ loc' = [loc EXCEPT ![c].changed = changed]
             /\ goto(c, "ckptInfo")
       \/ /\ ~HeaderReadable /\ ~free(c, {WAL_WRITE_LOCK})
          /\ loc' = [loc EXCEPT ![c].rc = BUSY]
          /\ goto(c, "ckptEnd")
          /\ UNCHANGED <<shm, pWal>>
    /\ UNCHANGED <<lockVars, files, savepoint, cache, ghosts, bounds>>

\* PASSIVE stops here; the other modes want more than the copying.
ckptDone(c) ==
    /\ goto(c, IF loc[c].eMode = PASSIVE THEN "ckptEnd" ELSE "ckptDone")
    /\ loc' = [loc EXCEPT ![c].mxSafeFrame = 0, ![c].nBackfill = 0, ![c].pages = {}]

\* The next slot, or the copying.
nextMark(c, mxSafeFrame) ==
    LET more == loc[c].i + 1 < WAL_NREADER
    IN  /\ loc' = [loc EXCEPT ![c].i = IF more THEN @ + 1 ELSE 0, ![c].y = 0, ![c].mxSafeFrame = mxSafeFrame]
        /\ goto(c, IF more THEN "ckptMark" ELSE "ckptLock0")

ckptInfo(c) ==
    /\ pc[c] = "ckptInfo"
    /\ IF nBackfill < pWal[c].hdr.mxFrame
       THEN /\ loc' = [loc EXCEPT ![c].mxSafeFrame = pWal[c].hdr.mxFrame, ![c].i = 1]
            /\ goto(c, "ckptMark")
       ELSE ckptDone(c)
    /\ UNCHANGED <<lockVars, shm, files, pWal, savepoint, cache, ghosts, bounds>>

ckptReadMark(c) ==
    /\ pc[c] = "ckptMark"
    /\ IF loc[c].mxSafeFrame > aReadMark[loc[c].i]
       THEN loc' = [loc EXCEPT ![c].y = aReadMark[loc[c].i]] /\ goto(c, "ckptTryMark")
       ELSE nextMark(c, loc[c].mxSafeFrame)
    /\ UNCHANGED <<lockVars, shm, files, pWal, savepoint, cache, ghosts, bounds>>

\* A slot nobody holds is moved out of the way; one that is held limits what
\* may be copied to the mark read before the lock was tried.
ckptTryMark(c) ==
    LET l == loc[c]
        slot == {WAL_READ_LOCK(l.i)}
    IN  /\ pc[c] = "ckptTryMark"
        /\ \/ /\ free(c, slot)
              /\ aReadMark' = [aReadMark EXCEPT ![l.i] = IF l.i = 1 THEN l.mxSafeFrame ELSE READMARK_NOT_USED]
              /\ nextMark(c, l.mxSafeFrame)
           \/ /\ ~free(c, slot)
              /\ nextMark(c, l.y)
              /\ UNCHANGED aReadMark
        /\ UNCHANGED <<lockVars, aHdr, nBackfill, aPgno, files, pWal, savepoint, cache, ghosts, bounds>>

\* The log is taken for the one whose header was read.
ckptLock0NoSaltCheck(c) ==
    LET work == nBackfill < loc[c].mxSafeFrame
    IN  /\ pc[c] = "ckptLock0"
        /\ \/ /\ work
              /\ shmExclusive(c, {WAL_READ_LOCK(0)}, OK)
              /\ syncWal
              /\ loc' = [loc EXCEPT ![c].nBackfill = nBackfill, ![c].pages = Page]
              /\ goto(c, "ckptCopy")
           \/ /\ ~work \/ ~free(c, {WAL_READ_LOCK(0)})
              /\ ckptDone(c)
              /\ UNCHANGED <<lockVars, walMay, walShrunk, synced>>
        /\ UNCHANGED <<shm, pWalFd, pDbFd, dbMay, pWal, savepoint, cache, hist, pub, bounds>>

\* Nobody may be reading the database file alone while it is written.  A log
\* restarted since the header was read has nothing left to copy.
ckptLock0(c) ==
    LET work == nBackfill < loc[c].mxSafeFrame
        same == aHdr[0].salt = pWal[c].hdr.salt
    IN  /\ pc[c] = "ckptLock0"
        /\ \/ /\ work /\ same
              /\ shmExclusive(c, {WAL_READ_LOCK(0)}, OK)
              /\ syncWal
              /\ loc' = [loc EXCEPT ![c].nBackfill = nBackfill, ![c].pages = Page]
              /\ goto(c, "ckptCopy")
           \/ /\ ~work \/ ~same \/ ~free(c, {WAL_READ_LOCK(0)})
              /\ ckptDone(c)
              /\ UNCHANGED <<lockVars, walMay, walShrunk, synced>>
        /\ UNCHANGED <<shm, pWalFd, pDbFd, dbMay, pWal, savepoint, cache, hist, pub, bounds>>

\* The iterator yields each page's last frame of the log, in page order.
Copyable(c) ==
    {p \in loc[c].pages :
        LET f == lastFrame(aPgno, p, 1, pWal[c].hdr.mxFrame)
        IN  loc[c].nBackfill < f /\ f <= loc[c].mxSafeFrame /\ p <= pWal[c].hdr.nPage}

ckptCopyPage(c) ==
    LET p == Least(Copyable(c))
        val == pWalFd[lastFrame(aPgno, p, 1, pWal[c].hdr.mxFrame)].val
    IN  /\ pc[c] = "ckptCopy" /\ Copyable(c) # {}
        /\ pDbFd' = [pDbFd EXCEPT ![p] = val]
        /\ dbMay' = [dbMay EXCEPT ![p] = @ \cup {val, Garbage}]
        /\ loc' = [loc EXCEPT ![c].pages = @ \ {p}]
        /\ UNCHANGED <<lockVars, shm, pWalFd, walMay, walShrunk, pc, pWal, savepoint, cache, ghosts, bounds>>

\* sqlite3_interrupt stops the copying.
ckptInterrupted(c) ==
    /\ pc[c] = "ckptCopy" /\ Copyable(c) # {}
    /\ shmUnlock(c, {WAL_READ_LOCK(0)})
    /\ loc' = [loc EXCEPT ![c].mxSafeFrame = 0, ![c].nBackfill = 0, ![c].pages = {}, ![c].rc = BUSY]
    /\ goto(c, "ckptEnd")
    /\ UNCHANGED <<shm, files, pWal, savepoint, cache, ghosts, bounds>>

\* The database file is not synced before its pages leave the log.
ckptBackfilledNoSync(c) ==
    /\ pc[c] = "ckptCopy" /\ Copyable(c) = {}
    /\ nBackfill' = loc[c].mxSafeFrame
    /\ shmUnlock(c, {WAL_READ_LOCK(0)})
    /\ ckptDone(c)
    /\ UNCHANGED <<aHdr, aReadMark, aPgno, files, pWal, savepoint, cache, ghosts, bounds>>

\* If the whole log is in the database file, cut the file to size and sync it.
ckptBackfilled(c) ==
    /\ pc[c] = "ckptCopy" /\ Copyable(c) = {}
    /\ IF loc[c].mxSafeFrame = aHdr[0].mxFrame
       THEN /\ pDbFd' = [p \in Page |-> IF p > pWal[c].hdr.nPage THEN Garbage ELSE pDbFd[p]]
            /\ dbMay' = [p \in Page |-> {pDbFd'[p]}]
       ELSE UNCHANGED <<pDbFd, dbMay>>
    /\ nBackfill' = loc[c].mxSafeFrame
    /\ shmUnlock(c, {WAL_READ_LOCK(0)})
    /\ ckptDone(c)
    /\ UNCHANGED <<aHdr, aReadMark, aPgno, pWalFd, walMay, walShrunk, pWal, savepoint, cache, ghosts, bounds>>

\* RESTART waits until no reader uses the log, so that the next writer will
\* restart it; TRUNCATE restarts it and empties the file.
ckptRestart(c) ==
    LET l == loc[c]
        whole == nBackfill >= pWal[c].hdr.mxFrame
    IN  /\ pc[c] = "ckptDone"
        /\ \/ /\ l.eMode = TRUNCATE /\ whole
              /\ shmExclusive(c, ReadSlots, OK)
              /\ newLog(c)
              /\ goto(c, "restart1")
              /\ UNCHANGED loc
           \/ /\ l.eMode # TRUNCATE \/ ~whole \/ ~free(c, ReadSlots)
              /\ loc' = [loc EXCEPT ![c].rc =
                            IF l.eMode = PASSIVE \/ (whole /\ (l.eMode = FULL \/ free(c, ReadSlots)))
                            THEN OK ELSE BUSY]
              /\ goto(c, "ckptEnd")
              /\ UNCHANGED <<lockVars, pWal, bounds>>
        /\ UNCHANGED <<shm, files, savepoint, cache, ghosts>>

emptyWal ==
    /\ pWalFd' = [f \in 0..MaxFrame |-> NoFrame]
    /\ walShrunk' = TRUE
    /\ UNCHANGED walMay

ckptTruncate(c) ==
    /\ pc[c] = "ckptTruncate"
    /\ emptyWal
    /\ shmUnlock(c, ReadSlots)
    /\ goto(c, "ckptEnd")
    /\ UNCHANGED <<shm, pDbFd, dbMay, pWal, loc, savepoint, cache, ghosts, bounds>>

\* The header the checkpoint read is kept.
ckptEndKeepingHdr(c) ==
    /\ pc[c] = "ckptEnd" /\ ~loc[c].closing
    /\ shmUnlock(c, {WAL_WRITE_LOCK, WAL_CKPT_LOCK})
    /\ return(c, "idle")
    /\ UNCHANGED <<shm, files, pWal, savepoint, cache, ghosts, bounds>>

\* A connection whose checkpoint read a new header forgets it: its cache is
\* older than that header.
ckptEnd(c) ==
    /\ pc[c] = "ckptEnd" /\ ~loc[c].closing
    /\ pWal' = [pWal EXCEPT ![c].hdr = IF loc[c].changed THEN NoHdr ELSE @]
    /\ shmUnlock(c, {WAL_WRITE_LOCK, WAL_CKPT_LOCK})
    /\ return(c, "idle")
    /\ UNCHANGED <<shm, files, savepoint, cache, ghosts, bounds>>

-----------------------------------------------------------------------------
(* sqlite3WalClose *)

leave(c) ==
    /\ pWal' = [pWal EXCEPT ![c] = Wal0]
    /\ cache' = [cache EXCEPT ![c] = NoImage]
    /\ return(c, "closed")

closeNotLast(c) ==
    /\ pc[c] = "idle" /\ may("close") /\ count("close")
    /\ lock(c, EXCLUSIVE, BUSY)
    /\ goto(c, "leaving")
    /\ UNCHANGED <<shm, files, pWal, loc, savepoint, cache, ghosts>>

closeLeave(c) ==
    /\ pc[c] = "leaving"
    /\ unlock(c, NONE)
    /\ leave(c)
    /\ UNCHANGED <<shm, files, savepoint, ghosts, bounds>>

\* The only connection checkpoints what is left,
closeLast(c) ==
    /\ pc[c] = "idle" /\ may("close") /\ count("close")
    /\ lock(c, EXCLUSIVE, OK)
    /\ loc' = [loc EXCEPT ![c].closing = TRUE]
    /\ goto(c, "ckptHdr")
    /\ UNCHANGED <<shm, files, pWal, savepoint, cache, ghosts>>

\* and if that succeeded removes the wal-index and the WAL.
closeDelete(c) ==
    /\ pc[c] = "ckptEnd" /\ loc[c].closing
    /\ IF loc[c].rc = OK
       THEN /\ emptyWal
            /\ aHdr' = [k \in 0..1 |-> NoHdr]
            /\ nBackfill' = 0
            /\ aReadMark' = [i \in Readers |-> 0]
            /\ aPgno' = [f \in Frame |-> 0]
       ELSE UNCHANGED <<shm, pWalFd, walMay, walShrunk>>
    /\ unlock(c, NONE)
    /\ leave(c)
    /\ UNCHANGED <<pDbFd, dbMay, savepoint, ghosts, bounds>>

-----------------------------------------------------------------------------
(* Crashes.  The wal-index and the locks are memory of the process. *)

die(w, d) ==
    /\ LET found == Recovered(w, d)
           n == Largest({k \in 1..Len(hist) : hist[k] = found})
       IN  pub' = n /\ hist' = SubSeq(hist, 1, n)
    /\ levels' = [c \in Conn |-> NONE]
    /\ shared' = [s \in Slots |-> {}]
    /\ excl' = [s \in Slots |-> NoConn]
    /\ aHdr' = [k \in 0..1 |-> NoHdr]
    /\ nBackfill' = 0
    /\ aReadMark' = [i \in Readers |-> 0]
    /\ aPgno' = [f \in Frame |-> 0]
    /\ pc' = [c \in Conn |-> "closed"]
    /\ pWal' = [c \in Conn |-> Wal0]
    /\ loc' = [c \in Conn |-> Loc0]
    /\ savepoint' = [c \in Conn |-> NoSavepoint]
    /\ cache' = [c \in Conn |-> NoImage]

\* The process dies; the operating system still has what was written.
Kill ==
    /\ may("kill") /\ count("kill")
    /\ die(pWalFd, pDbFd)
    /\ UNCHANGED <<files, synced>>

\* The functions that give each block up to n one of its contents, put together
\* block by block.
Choices(blocks, n) ==
    LET lo == Least(DOMAIN blocks)
        ch[k \in (lo - 1)..n] ==
            IF k < lo THEN {[b \in DOMAIN blocks |-> CHOOSE x \in blocks[b] : TRUE]}
            ELSE {[v EXCEPT ![k] = x] : v \in ch[k - 1], x \in blocks[k]}
    IN  {v \in ch[n] : DOMAIN v = DOMAIN blocks /\ \A b \in DOMAIN blocks : v[b] \in blocks[b]}

\* The machine dies: each block has one of the contents it may have.
PowerLoss ==
    /\ may("power") /\ count("power")
    /\ \E w \in Choices(walMay, MaxFrame) \cup {v \in {[f \in 0..MaxFrame |-> NoFrame]} : walShrunk},
          d \in Choices(dbMay, MaxPage) :
          /\ die(w, d)
          /\ pWalFd' = w
          /\ walMay' = [f \in 0..MaxFrame |-> {w[f]}]
          /\ pDbFd' = d
          /\ dbMay' = [p \in Page |-> {d[p]}]
    /\ walShrunk' = FALSE
    /\ synced' = pub'

step(c) ==
    \/ open(c) \/ closeNotLast(c) \/ closeLeave(c) \/ closeLast(c) \/ closeDelete(c)
    \/ beginReadHdr(c) \/ beginReadInfo(c) \/ beginReadLock0(c) \/ beginReadCheck0(c)
    \/ beginReadMarks(c) \/ beginReadStoreMark(c)
    \/ beginReadLockMark(c) \/ beginReadCheckMark(c) \/ beginReadGivesUp(c)
    \/ sqlite3WalEndReadTransaction(c)
    \/ sqlite3WalBeginWriteTransaction(c) \/ sqlite3WalEndWriteTransaction(c)
    \/ limit.spill /\ \E p \in Page \ {1} : walFrames(c, {p}, 0)
    \/ \E size \in limit.sizes, pages \in limit.dirty : walFrames(c, pages \cap 1..size, size)
    \/ walRestartLog(c) \/ restartHdr1(c) \/ restartHdr0(c) \/ restartInfo(c)
    \/ writeWalHeader(c) \/ syncWalHeader(c)
    \/ walWriteOneFrame(c) \/ walIndexAppend(c) \/ publish1(c) \/ publish0(c)
    \/ sqlite3WalUndo(c)
    \/ limit.spill /\ sqlite3WalSavepoint(c)
    \/ sqlite3WalSavepointUndo(c)
    \/ \E eMode \in limit.modes : sqlite3WalCheckpoint(c, eMode)
    \/ ckptWriteLock(c) \/ ckptReadHdr(c) \/ ckptInfo(c) \/ ckptReadMark(c) \/ ckptTryMark(c)
    \/ ckptLock0(c) \/ ckptCopyPage(c) \/ ckptInterrupted(c)
    \/ ckptBackfilled(c) \/ ckptRestart(c) \/ ckptTruncate(c) \/ ckptEnd(c)

Next == (\E c \in Conn : step(c)) \/ Kill \/ PowerLoss

Spec == Init /\ [][Next]_vars

-----------------------------------------------------------------------------
(* Properties *)

\* Marks and frames are in range, and what a connection between two calls
\* believes to hold is what the slots say it holds.
WalStateOK ==
    /\ LocksTypeOK
    /\ nBackfill \in 0..MaxFrame
    /\ aReadMark \in [Readers -> 0..READMARK_NOT_USED]
    /\ aPgno \in [Frame -> 0..MaxPage]
    /\ pub \in 1..Len(hist) /\ synced \in 1..pub
    /\ \A c \in Conn :
          pc[c] \in {"closed", "idle", "read"} =>
              {s \in Slots : c \in shared[s]} = {WAL_READ_LOCK(i) : i \in {pWal[c].readLock} \ {-1}}

\* The process dying at any step loses no committed transaction: only the
\* power can take those the WAL has not been synced for (synchronous=NORMAL).
KillLosesNothing == [][done'.kill # done.kill => pub' >= pub]_vars

\* The pages a pager kept from an earlier transaction belong to the snapshot
\* of the one it is in: *pChanged was reported whenever they might not, also
\* when a checkpoint of the same connection read the newer header first.
CacheFresh == \A c \in Conn : pc[c] = "read" /\ ~writeLock(c) => cache[c] = Sees(c)

\* No reader of the log loses the log it reads: its header is that of the log
\* in use, unless it has restarted the log itself, and the read mark that the
\* checkpoints respect is not past its snapshot.
ReadersKeepTheLog ==
    \A c \in Conn :
        pc[c] = "read" /\ pWal[c].readLock > 0 /\ pWal[c].hdr.mxFrame > 0 =>
            /\ pWal[c].hdr.salt = aHdr[0].salt \/ writeLock(c)
            /\ aReadMark[pWal[c].readLock] <= pWal[c].hdr.mxFrame
=============================================================================
