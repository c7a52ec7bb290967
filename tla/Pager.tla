------------------------------- MODULE Pager -------------------------------
(***************************************************************************)
(* The pager of sqlite3.c in rollback-journal mode, over the file lock     *)
(* levels of JvmVfsLocks: the mode a database is in before the worker's    *)
(* PRAGMA journal_mode=WAL, when that pragma is refused, and in the file   *)
(* that WorkerDbPort.runBackup leaves behind.                              *)
(*                                                                         *)
(* A call of the file system is a step.  The journal is a row of blocks,   *)
(* each a header or a page record; sectors and byte offsets are left out.  *)
(* The database file and the journal keep what the operating system has    *)
(* (fd, jfd) and what may be on the device (dbMay, jMay): everything       *)
(* written since the last sync and the content of that sync.  A journal    *)
(* that was unlinked may come back until the directory is synced (jOld).   *)
(*                                                                         *)
(* All connections of a scenario use one journal mode, and a connection    *)
(* drops its lock after a write transaction before it begins another.      *)
(***************************************************************************)
EXTENDS JvmVfsLocks, Sequences, Integers

CONSTANTS MaxPage,      \* database pages are 1..MaxPage
          MaxBlock,     \* bound on the blocks of the journal
          Limits        \* the bounds of an instance, one record per scenario

Page == 1..MaxPage
Block == 1..MaxBlock

PAGER_OPEN == 0
PAGER_READER == 1
PAGER_WRITER_LOCKED == 2
PAGER_WRITER_CACHEMOD == 3
PAGER_WRITER_DBMOD == 4
PAGER_WRITER_FINISHED == 5
PAGER_ERROR == 6

VARIABLES fd, dbMay,    \* the database file: in the operating system, on the device
          jfd, jMay,    \* the journal file likewise
          jExists,      \* the journal is in the directory
          jOld,         \* journals the directory on the device may still name
          pager,        \* the Pager object of a connection
          cache,        \* cache[c][p]: page p in the page cache of c, or Uncached
          pc, loc,      \* where a connection is in the call it is making
          hist,         \* committed images, oldest first
          synced,       \* how many of them a power loss must leave
          done, limit   \* how often each bounded event has happened, and may

files == <<fd, dbMay, jfd, jMay, jExists, jOld>>
dbFile == <<fd, dbMay>>
journal == <<jfd, jMay, jExists, jOld>>
ghosts == <<hist, synced>>
bounds == <<done, limit>>
vars == <<lockVars, files, pager, cache, pc, loc, ghosts, bounds>>

-----------------------------------------------------------------------------
(* Contents *)

\* Page 1 holds the change counter v and the size n of the database in pages;
\* of another page v tells the versions apart.
Content(v, n) == [v |-> v, n |-> n]
Absent == Content(0, 0)          \* past the end of the file: read as zeros
Torn == Content(-1, MaxPage)     \* a write the power loss cut short
Uncached == Content(-2, 0)
NoImage == [p \in Page |-> Uncached]

Largest(S) == IF S = {} THEN 0 ELSE CHOOSE x \in S : \A y \in S : y <= x
Least(S) == CHOOSE x \in S : \A y \in S : x <= y

FileSize(d) == Largest({p \in Page : d[p] # Absent})

\* The database in a file: the pages that page 1 counts.
Image(d) == [p \in Page |-> IF p <= d[1].n THEN d[p] ELSE Absent]

NoBlock == [magic |-> FALSE, nRec |-> 0, ck |-> 0, size |-> 0, pg |-> -1, val |-> Absent]
Header(ck, size) == [NoBlock EXCEPT !.ck = ck, !.size = size, !.pg = 0]
Record(ck, pg, val) == [NoBlock EXCEPT !.ck = ck, !.pg = pg, !.val = val]
NoJournal == [b \in Block |-> NoBlock]
JLen(j) == Largest({b \in Block : j[b] # NoBlock})

\* readJournalHdr: the header at block h.  Its magic is not looked at when it
\* is the header the pager itself is filling (own).
HeaderReadable(j, h, isHot, own) ==
    h <= JLen(j) /\ (isHot \/ h # own => j[h].magic)

\* The records a header announces; a pager rolling back its own transaction
\* takes what follows the header it was filling.
NRec(j, h, isHot, own) ==
    IF j[h].nRec = 0 /\ ~isHot /\ h = own THEN JLen(j) - h ELSE j[h].nRec

\* pager_playback_one_page gives up at the first record with a bad checksum,
\* unless its page is one the database does not have.
RecordOK(j, b, ck) ==
    b <= JLen(j) /\ j[b].pg > 0 /\ (j[b].pg > j[1].size \/ j[b].ck = ck)

\* The blocks pager_playback plays back, in order.
Played(j, isHot, own) ==
    LET segment[h \in 1..(2 * MaxBlock + 1)] ==
            IF h > MaxBlock \/ ~HeaderReadable(j, h, isHot, own) THEN <<>>
            ELSE LET n == NRec(j, h, isHot, own)
                     bad == {k \in 1..n : ~RecordOK(j, h + k, j[h].ck)}
                     m == IF bad = {} THEN n ELSE Least(bad) - 1
                 IN  [k \in 1..m |-> h + k] \o (IF bad = {} THEN segment[h + n + 1] ELSE <<>>)
    IN  segment[1]

\* pager_truncate, which also makes a file longer by writing its last page.
Truncated(d, n) == [p \in Page |-> IF p > n THEN Absent ELSE d[p]]

Hot(j, d) == FileSize(d) > 0 /\ j[1].magic

\* The image a process finds that opens the files d and j after a crash.
Recovered(j, d) ==
    LET blocks == Played(j, TRUE, 0)
        cut == Truncated(d, j[1].size)
        lastOf(p) == Largest({i \in 1..Len(blocks) : j[blocks[i]].pg = p})
    IN  IF ~Hot(j, d) THEN Image(d)
        ELSE Image([p \in Page |-> IF p <= j[1].size /\ lastOf(p) # 0 THEN j[blocks[lastOf(p)]].val ELSE cut[p]])

-----------------------------------------------------------------------------
(* Connections *)

Pager0 == [eState |-> PAGER_OPEN, dbSize |-> 0, dbOrigSize |-> 0, dbFileSize |-> 0,
           jOpen |-> FALSE, off |-> 0, hdr |-> 0, nRec |-> 0, ck |-> 0, inJournal |-> {},
           vers |-> Absent, held |-> FALSE, countDone |-> FALSE, dirty |-> {}, needSync |-> {}]
Loc0 == [next |-> "none", p |-> 0, todo |-> <<>>, commit |-> FALSE]

Init ==
    /\ LocksInit
    /\ limit \in Limits
    /\ fd = [p \in Page |-> IF p > limit.pages THEN Absent ELSE Content(1, IF p = 1 THEN limit.pages ELSE 0)]
    /\ dbMay = [p \in Page |-> {fd[p]}]
    /\ jfd = NoJournal
    /\ jMay = [b \in Block |-> {NoBlock}]
    /\ jExists = FALSE
    /\ jOld = {}
    /\ pager = [c \in Conn |-> Pager0]
    /\ cache = [c \in Conn |-> NoImage]
    /\ pc = [c \in Conn |-> "idle"]
    /\ loc = [c \in Conn |-> Loc0]
    /\ hist = <<Image(fd)>>
    /\ synced = 1
    /\ done = [txn |-> 0, read |-> 0, hdr |-> 0, kill |-> 0, power |-> 0, ioerr |-> 0]

goto(c, l) == pc' = [pc EXCEPT ![c] = l] /\ UNCHANGED loc
return(c) == pc' = [pc EXCEPT ![c] = "idle"] /\ loc' = [loc EXCEPT ![c] = Loc0]
may(k) == done[k] < limit[k]
count(k) == done' = [done EXCEPT ![k] = @ + 1] /\ UNCHANGED limit

writeDb(p, val) ==
    /\ fd' = [fd EXCEPT ![p] = val]
    /\ dbMay' = [dbMay EXCEPT ![p] = @ \cup {val, Torn}]
truncateDb(n) ==
    /\ fd' = Truncated(fd, n)
    /\ dbMay' = [p \in Page |-> IF p > n THEN dbMay[p] \cup {Absent} ELSE dbMay[p]]
syncDb ==
    /\ dbMay' = [p \in Page |-> {fd[p]}]
    /\ UNCHANGED fd

writeJournal(b, blk) ==
    /\ jfd' = [jfd EXCEPT ![b] = blk]
    /\ jMay' = [jMay EXCEPT ![b] = @ \cup {blk}]

\* The pages as connection c has them.
Pages(c) == [p \in Page |-> IF cache[c][p] # Uncached THEN cache[c][p] ELSE fd[p]]

\* unixSync: the file, and the directory if this handle created the file.
Certain(j) == [b \in Block |-> {j[b]}]

\* unixDelete without the directory sync that only synchronous=EXTRA asks for.
deleteJournal ==
    /\ jExists' = FALSE
    /\ jfd' = NoJournal
    /\ jMay' = Certain(NoJournal)
    /\ jOld' = IF jExists THEN jOld \cup {jMay} ELSE jOld

unlockDb(c, eLock) == pagerUnlockDb(c, eLock)

-----------------------------------------------------------------------------
(* sqlite3PagerSharedLock *)

sharedLock(c) ==
    /\ pc[c] = "idle" /\ pager[c].eState = PAGER_OPEN /\ may("read") /\ count("read")
    /\ pagerLockDb(c, SHARED, OK)
    /\ goto(c, "hotAccess")
    /\ UNCHANGED <<files, pager, cache, ghosts>>

\* hasHotJournal: is there a journal, does anybody hold RESERVED, is the
\* database empty, is the first byte of the journal not zero.
hotAccess(c) ==
    /\ pc[c] = "hotAccess"
    /\ goto(c, IF jExists THEN "hotReserved" ELSE "version")
    /\ UNCHANGED <<lockVars, files, pager, cache, ghosts, bounds>>

hotReserved(c) ==
    /\ pc[c] = "hotReserved"
    /\ goto(c, IF checkReserved(c) THEN "version" ELSE "hotFirst")
    /\ UNCHANGED <<lockVars, files, pager, cache, ghosts, bounds>>

\* The journal of an empty database is deleted under a RESERVED lock.
hotFirst(c) ==
    LET empty == FileSize(fd) = 0
    IN  /\ pc[c] = "hotFirst"
        /\ IF empty /\ ~blocked(c, RESERVED) THEN deleteJournal ELSE UNCHANGED journal
        /\ goto(c, IF ~empty /\ (jExists => jfd[1].magic) THEN "hotLock" ELSE "version")
        /\ UNCHANGED <<lockVars, dbFile, pager, cache, ghosts, bounds>>

\* The hot journal is played back under RESERVED, which lets readers in.
hotLockReserved(c) ==
    /\ pc[c] = "hotLock"
    /\ \/ /\ jExists
          /\ pagerLockDb(c, RESERVED, OK)
          /\ jMay' = Certain(jfd)
          /\ pager' = [pager EXCEPT ![c].jOpen = TRUE, ![c].hdr = JLen(jfd) + 1]
          /\ goto(c, "play")
       \/ /\ blocked(c, RESERVED) \/ ~jExists
          /\ unlockDb(c, NONE)
          /\ return(c)
          /\ UNCHANGED <<jMay, pager>>
    /\ UNCHANGED <<dbFile, jfd, jExists, jOld, cache, ghosts, bounds>>

\* pagerSyncHotJournal, and journalHdr past the end: every record is synced.
hotLock(c) ==
    /\ pc[c] = "hotLock"
    /\ \/ /\ jExists
          /\ pagerLockDb(c, EXCLUSIVE, OK)
          /\ jMay' = Certain(jfd)
          /\ pager' = [pager EXCEPT ![c].jOpen = TRUE, ![c].hdr = JLen(jfd) + 1]
          /\ goto(c, "play")
       \/ /\ ~jExists /\ ~blocked(c, EXCLUSIVE)
          /\ goto(c, "version")
          /\ UNCHANGED <<lockVars, jMay, pager>>
       \/ /\ blocked(c, EXCLUSIVE)
          /\ unlockDb(c, NONE)
          /\ return(c)
          /\ UNCHANGED <<jMay, pager>>
    /\ UNCHANGED <<dbFile, jfd, jExists, jOld, cache, ghosts, bounds>>

\* The cache of an earlier lock survives if the version of the file is the
\* one it was read from.
version(c) ==
    /\ pc[c] = "version"
    /\ cache' = [cache EXCEPT ![c] = IF pager[c].held /\ pager[c].vers # fd[1] THEN NoImage ELSE @]
    /\ pager' = [pager EXCEPT ![c].eState = PAGER_READER, ![c].held = TRUE, ![c].dbSize = FileSize(fd)]
    /\ return(c)
    /\ UNCHANGED <<lockVars, files, ghosts, bounds>>

\* getPageNormal and readDbPage
getPage(c, p) ==
    /\ pc[c] = "idle" /\ pager[c].eState \in PAGER_READER..PAGER_WRITER_DBMOD
    /\ p = 1 \/ cache[c][1] # Uncached
    /\ cache[c][p] = Uncached /\ (p <= pager[c].dbSize \/ p = 1)
    /\ cache' = [cache EXCEPT ![c][p] = fd[p]]
    /\ pager' = [pager EXCEPT ![c].vers = IF p = 1 /\ p <= pager[c].dbSize THEN fd[1] ELSE @]
    /\ UNCHANGED <<lockVars, files, pc, loc, ghosts, bounds>>

\* pager_unlock of a connection that has no transaction left.  The cache stays.
pager_unlock(c) ==
    /\ pc[c] = "idle" /\ pager[c].eState = PAGER_READER
    /\ unlockDb(c, NONE)
    /\ pager' = [pager EXCEPT ![c].eState = PAGER_OPEN, ![c].jOpen = FALSE, ![c].countDone = FALSE,
                              ![c].off = 0, ![c].hdr = 0]
    /\ UNCHANGED <<files, cache, pc, loc, ghosts, bounds>>

\* pager_unlock in the error state: the journal stays for the next lock to
\* play back, and nothing in the cache can be trusted.
pager_unlockError(c) ==
    /\ pc[c] = "idle" /\ pager[c].eState = PAGER_ERROR
    /\ unlockDb(c, NONE)
    /\ pager' = [pager EXCEPT ![c] = [Pager0 EXCEPT !.held = TRUE, !.vers = pager[c].vers]]
    /\ cache' = [cache EXCEPT ![c] = NoImage]
    /\ UNCHANGED <<files, pc, loc, ghosts, bounds>>

-----------------------------------------------------------------------------
(* A write transaction *)

\* With exFlag a connection that cannot have EXCLUSIVE keeps RESERVED and
\* stays a reader.
sqlite3PagerBegin(c, exFlag) ==
    LET P == pager[c]
        refused == exFlag /\ othersAtLeast(c, SHARED)
    IN  /\ pc[c] = "idle" /\ P.eState = PAGER_READER /\ cache[c][1] # Uncached /\ ~P.jOpen
        /\ c \in limit.writers /\ may("txn") /\ count("txn")
        /\ ~blocked(c, RESERVED)
        /\ levels' = [levels EXCEPT ![c] = IF exFlag /\ ~refused THEN EXCLUSIVE ELSE RESERVED]
        /\ pager' = IF refused THEN pager
                    ELSE [pager EXCEPT ![c].eState = PAGER_WRITER_LOCKED, ![c].dbFileSize = P.dbSize,
                                       ![c].dbOrigSize = P.dbSize, ![c].off = 0]
        /\ UNCHANGED <<shared, excl, files, cache, pc, loc, ghosts>>

writeJournalHdr(c, b) ==
    /\ count("hdr")
    /\ writeJournal(b, Header(done.hdr + 1, pager[c].dbOrigSize))

pager_open_journal(c) ==
    /\ pc[c] = "idle" /\ pager[c].eState = PAGER_WRITER_LOCKED
    /\ writeJournalHdr(c, 1)
    /\ jExists' = TRUE
    /\ jOld' = IF jExists THEN jOld ELSE jOld \cup {Certain(NoJournal)}
    /\ pager' = [pager EXCEPT ![c].eState = PAGER_WRITER_CACHEMOD, ![c].jOpen = TRUE, ![c].nRec = 0,
                              ![c].hdr = 1, ![c].off = 2, ![c].ck = done.hdr + 1, ![c].inJournal = {}]
    /\ UNCHANGED <<lockVars, dbFile, cache, pc, loc, ghosts>>

\* A page the database had when the transaction began goes into the journal
\* before it is changed for the first time.
journalled(P, p) ==
    LET first == p \notin P.inJournal /\ p <= P.dbOrigSize
        append == p \notin P.inJournal /\ p > P.dbOrigSize /\ P.eState # PAGER_WRITER_DBMOD
    IN  [P EXCEPT !.dirty = @ \cup {p},
                  !.needSync = IF first \/ append THEN @ \cup {p} ELSE @,
                  !.inJournal = IF first THEN @ \cup {p} ELSE @,
                  !.off = IF first THEN @ + 1 ELSE @,
                  !.nRec = IF first THEN @ + 1 ELSE @,
                  !.dbSize = IF p > @ THEN p ELSE @]

pagerAddPageToRollbackJournal(c, p) ==
    IF p \notin pager[c].inJournal /\ p <= pager[c].dbOrigSize
    THEN writeJournal(pager[c].off, Record(pager[c].ck, p, cache[c][p]))
    ELSE UNCHANGED <<jfd, jMay>>

\* The new content of page p: page 1 gets the size of the database, which the
\* b-tree layer raises before it writes a page past the end.
pager_write(c, p, val) ==
    /\ pc[c] = "idle" /\ pager[c].eState \in {PAGER_WRITER_CACHEMOD, PAGER_WRITER_DBMOD}
    /\ cache[c][p] # Uncached \/ p > pager[c].dbSize
    /\ limit.shrink => ~pager[c].countDone
    /\ cache[c][p] # val
    /\ pagerAddPageToRollbackJournal(c, p)
    /\ pager' = [pager EXCEPT ![c] = journalled(@, p)]
    /\ cache' = [cache EXCEPT ![c][p] = val]
    /\ UNCHANGED <<lockVars, dbFile, jExists, jOld, pc, loc, ghosts, bounds>>

\* pagerStress: memory is short and an unreferenced dirty page (never page 1)
\* is written to the file and leaves the cache.
pagerStress(c, p) ==
    LET sync == p \in pager[c].needSync \/ pager[c].eState = PAGER_WRITER_CACHEMOD
    IN  /\ pc[c] = "idle" /\ pager[c].eState \in {PAGER_WRITER_CACHEMOD, PAGER_WRITER_DBMOD}
        /\ limit.spill /\ p \in pager[c].dirty \ {1}
        /\ pc' = [pc EXCEPT ![c] = IF sync THEN "syncLock" ELSE "write"]
        /\ loc' = [loc EXCEPT ![c] = [Loc0 EXCEPT !.next = "spill", !.p = p, !.todo = <<p>>]]
        /\ UNCHANGED <<lockVars, files, pager, cache, ghosts, bounds>>

\* sqlite3PagerCommitPhaseOne: pager_incr_changecounter makes page 1 part of
\* the transaction; a smaller size is that of sqlite3PagerTruncateImage.
sqlite3PagerCommitPhaseOne(c, size) ==
    LET P == pager[c]
        counter == IF P.countDone THEN cache[c][1].v ELSE P.vers.v + 1
    IN  /\ pc[c] = "idle" /\ P.eState \in {PAGER_WRITER_CACHEMOD, PAGER_WRITER_DBMOD}
        /\ P.dirty # {} /\ cache[c][1] # Uncached /\ cache[c][1].n \in 1..P.dbSize
        /\ size = cache[c][1].n \/ (limit.shrink /\ size = cache[c][1].n - 1 /\ size > 0)
        /\ pagerAddPageToRollbackJournal(c, 1)
        /\ pager' = [pager EXCEPT ![c] = [journalled(P, 1) EXCEPT
                         !.countDone = TRUE, !.dbSize = IF size < cache[c][1].n THEN size ELSE @]]
        /\ cache' = [cache EXCEPT ![c][1] = Content(counter, size)]
        /\ pc' = [pc EXCEPT ![c] = "syncLock"]
        /\ loc' = [loc EXCEPT ![c] = [Loc0 EXCEPT !.next = "commit"]]
        /\ UNCHANGED <<lockVars, dbFile, jExists, jOld, ghosts, bounds>>

-----------------------------------------------------------------------------
(* syncJournal, pager_write_pagelist and the end of CommitPhaseOne *)

\* A header that an earlier, longer transaction left behind the last record
\* stays in the journal.
syncLockKeepingNextHdr(c) ==
    /\ pc[c] = "syncLock"
    /\ \/ pagerLockDb(c, EXCLUSIVE, OK) /\ goto(c, "syncNRec")
       \/ pagerLockDb(c, EXCLUSIVE, BUSY) /\ return(c)
    /\ UNCHANGED <<files, pager, cache, ghosts, bounds>>

\* EXCLUSIVE first: a spill or a commit that is refused leaves its caller in
\* the transaction.  The header of an earlier, longer transaction that would
\* follow the last record is made unreadable.
syncLock(c) ==
    LET off == pager[c].off
    IN  /\ pc[c] = "syncLock"
        /\ \/ /\ pagerLockDb(c, EXCLUSIVE, OK)
              /\ IF jfd[off].magic THEN writeJournal(off, [jfd[off] EXCEPT !.magic = FALSE])
                 ELSE UNCHANGED <<jfd, jMay>>
              /\ goto(c, "syncNRec")
           \/ /\ pagerLockDb(c, EXCLUSIVE, BUSY)
              /\ return(c)
              /\ UNCHANGED <<jfd, jMay>>
        /\ UNCHANGED <<dbFile, jExists, jOld, pager, cache, ghosts, bounds>>

\* With synchronous=FULL the records are on the device before nRec counts them.
syncNRec(c) ==
    LET h == pager[c].hdr
        blk == [jfd[h] EXCEPT !.magic = TRUE, !.nRec = pager[c].nRec]
        before == IF limit.fullSync THEN Certain(jfd) ELSE jMay
    IN  /\ pc[c] = "syncNRec"
        /\ jfd' = [jfd EXCEPT ![h] = blk]
        /\ jMay' = [before EXCEPT ![h] = @ \cup {blk}]
        /\ jOld' = IF limit.fullSync THEN {} ELSE jOld
        /\ synced' = IF limit.fullSync THEN Len(hist) ELSE synced
        /\ goto(c, "syncEnd")
        /\ UNCHANGED <<lockVars, dbFile, jExists, pager, cache, hist, bounds>>

DirtyList(c) ==
    LET pages == {p \in pager[c].dirty : p <= pager[c].dbSize}
        from[p \in 1..(MaxPage + 1)] ==
            IF p > MaxPage THEN <<>> ELSE (IF p \in pages THEN <<p>> ELSE <<>>) \o from[p + 1]
    IN  from[1]

\* The file is written without waiting for the journal.
syncEndNoSync(c) ==
    LET P == pager[c]
        spill == loc[c].next = "spill"
    IN  /\ pc[c] = "syncEnd"
        /\ IF spill THEN writeJournalHdr(c, P.off) ELSE UNCHANGED <<jfd, jMay, bounds>>
        /\ pager' = [pager EXCEPT ![c] = [P EXCEPT
                         !.eState = PAGER_WRITER_DBMOD, !.needSync = {}, !.hdr = P.off,
                         !.nRec = IF spill THEN 0 ELSE @, !.off = IF spill THEN @ + 1 ELSE @,
                         !.ck = IF spill THEN done.hdr + 1 ELSE @]]
        /\ loc' = [loc EXCEPT ![c].todo = IF spill THEN @ ELSE DirtyList(c)]
        /\ pc' = [pc EXCEPT ![c] = "write"]
        /\ UNCHANGED <<lockVars, dbFile, jExists, jOld, cache, ghosts>>

\* The journal is synced; after a spill the next records get a new header.
syncEnd(c) ==
    LET P == pager[c]
        spill == loc[c].next = "spill"
        blk == Header(done.hdr + 1, P.dbOrigSize)
    IN  /\ pc[c] = "syncEnd"
        /\ jfd' = IF spill THEN [jfd EXCEPT ![P.off] = blk] ELSE jfd
        /\ jMay' = IF spill THEN [Certain(jfd) EXCEPT ![P.off] = @ \cup {blk}] ELSE Certain(jfd)
        /\ IF spill THEN count("hdr") ELSE UNCHANGED bounds
        /\ jOld' = {}
        /\ synced' = Len(hist)
        /\ pager' = [pager EXCEPT ![c] = [P EXCEPT
                         !.eState = PAGER_WRITER_DBMOD, !.needSync = {}, !.hdr = P.off,
                         !.nRec = IF spill THEN 0 ELSE @, !.off = IF spill THEN @ + 1 ELSE @,
                         !.ck = IF spill THEN done.hdr + 1 ELSE @]]
        /\ loc' = [loc EXCEPT ![c].todo = IF spill THEN @ ELSE DirtyList(c)]
        /\ pc' = [pc EXCEPT ![c] = "write"]
        /\ UNCHANGED <<lockVars, dbFile, jExists, cache, hist>>

pager_write_pagelist(c) ==
    LET P == pager[c]
        p == Head(loc[c].todo)
        val == IF p = 1 THEN Content(P.vers.v + 1, cache[c][1].n) ELSE cache[c][p]
    IN  /\ pc[c] = "write" /\ loc[c].todo # <<>>
        /\ writeDb(p, val)
        /\ cache' = [cache EXCEPT ![c][p] = val]
        /\ pager' = [pager EXCEPT ![c].vers = IF p = 1 THEN val ELSE @,
                                  ![c].dbFileSize = IF p > @ THEN p ELSE @]
        /\ loc' = [loc EXCEPT ![c].todo = Tail(@)]
        /\ UNCHANGED <<lockVars, journal, pc, ghosts, bounds>>

\* A spilled page leaves the cache.
spilled(c) ==
    /\ pc[c] = "write" /\ loc[c].todo = <<>> /\ loc[c].next = "spill"
    /\ pager' = [pager EXCEPT ![c].dirty = @ \ {loc[c].p}]
    /\ cache' = [cache EXCEPT ![c][loc[c].p] = Uncached]
    /\ return(c)
    /\ UNCHANGED <<lockVars, files, ghosts, bounds>>

sqlite3PagerSync(c) ==
    /\ pc[c] = "write" /\ loc[c].todo = <<>> /\ loc[c].next = "commit"
    /\ syncDb
    /\ pager' = [pager EXCEPT ![c].eState = PAGER_WRITER_FINISHED, ![c].dirty = {}]
    /\ pc' = [pc EXCEPT ![c] = "finalize"]
    /\ loc' = [loc EXCEPT ![c].commit = TRUE]
    /\ UNCHANGED <<lockVars, journal, cache, ghosts, bounds>>

-----------------------------------------------------------------------------
(* pager_end_transaction *)

\* DELETE unlinks the journal, TRUNCATE empties it, and zeroJournalHdr of
\* PERSIST overwrites its first header.
finalizeJournal(c) ==
    \/ /\ limit.mode = "DELETE"
       /\ deleteJournal
    \/ /\ limit.mode = "TRUNCATE"
       /\ jfd' = NoJournal
       /\ jMay' = Certain(NoJournal)
       /\ jOld' = jOld \cup {jMay}
       /\ UNCHANGED jExists
    \/ /\ limit.mode = "PERSIST"
       /\ writeJournal(1, Header(0, 0))
       /\ UNCHANGED <<jExists, jOld>>

SyncsFinalized == limit.mode = "PERSIST" \/ (limit.mode = "TRUNCATE" /\ limit.fullSync)

\* Finalizing the journal is what commits.
finalize(c) ==
    LET noop == limit.mode # "DELETE" /\ pager[c].off = 0
    IN  /\ pc[c] = "finalize"
        /\ hist' = IF loc[c].commit THEN Append(hist, Image(Pages(c))) ELSE hist
        /\ IF noop THEN UNCHANGED journal ELSE finalizeJournal(c)
        /\ pager' = [pager EXCEPT ![c].inJournal = {}, ![c].nRec = 0, ![c].off = 0, ![c].dirty = {},
                                  ![c].needSync = {}, ![c].jOpen = limit.mode # "DELETE"]
        /\ cache' = [cache EXCEPT ![c] = [p \in Page |-> IF p > pager[c].dbSize THEN Uncached ELSE @[p]]]
        /\ goto(c, IF SyncsFinalized /\ ~noop THEN "finalSync" ELSE "ended")
        /\ UNCHANGED <<lockVars, dbFile, synced, bounds>>

\* The directory is synced too, but not through the handle of a hot journal,
\* which did not create the file.
finalizeSync(c) ==
    /\ pc[c] = "finalSync"
    /\ jMay' = Certain(jfd)
    /\ IF pager[c].eState = PAGER_OPEN THEN UNCHANGED <<jOld, synced>>
       ELSE jOld' = {} /\ synced' = Len(hist)
    /\ goto(c, "ended")
    /\ UNCHANGED <<lockVars, dbFile, jfd, jExists, pager, cache, hist, bounds>>

\* The file loses the pages past the committed size; then the lock goes down
\* to SHARED.  A pager that rolled back a hot journal goes on to read.
ended(c) ==
    LET P == pager[c]
    IN  /\ pc[c] = "ended"
        /\ IF loc[c].commit /\ P.dbFileSize > P.dbSize THEN truncateDb(P.dbSize) ELSE UNCHANGED dbFile
        /\ unlockDb(c, SHARED)
        /\ pager' = [pager EXCEPT ![c].countDone = FALSE,
                                  ![c].eState = IF @ = PAGER_OPEN THEN PAGER_OPEN ELSE PAGER_READER]
        /\ pc' = [pc EXCEPT ![c] = IF P.eState = PAGER_OPEN THEN "version" ELSE "idle"]
        /\ loc' = [loc EXCEPT ![c] = Loc0]
        /\ UNCHANGED <<journal, cache, ghosts, bounds>>

\* A transaction that changed nothing commits or rolls back without a journal.
endUnchanged(c) ==
    /\ pc[c] = "idle" /\ pager[c].eState = PAGER_WRITER_LOCKED
    /\ unlockDb(c, SHARED)
    /\ pager' = [pager EXCEPT ![c].eState = PAGER_READER, ![c].countDone = FALSE]
    /\ UNCHANGED <<files, cache, pc, loc, ghosts, bounds>>

-----------------------------------------------------------------------------
(* sqlite3PagerRollback and pager_playback *)

sqlite3PagerRollback(c) ==
    /\ pc[c] = "idle" \/ pc[c] = "rollback"
    /\ pager[c].eState \in PAGER_WRITER_CACHEMOD..PAGER_WRITER_FINISHED
    /\ pc' = [pc EXCEPT ![c] = "play"]
    /\ loc' = [loc EXCEPT ![c] = Loc0]
    /\ UNCHANGED <<lockVars, files, pager, cache, ghosts, bounds>>

WritesFile(P) == P.eState = PAGER_OPEN \/ P.eState >= PAGER_WRITER_DBMOD

\* The first header gives the size the database had.
playStart(c) ==
    LET P == pager[c]
        isHot == P.eState = PAGER_OPEN
        blocks == Played(jfd, isHot, P.hdr)
        readable == HeaderReadable(jfd, 1, isHot, P.hdr)
        mxPg == jfd[1].size
    IN  /\ pc[c] = "play"
        /\ IF readable /\ WritesFile(P) THEN truncateDb(mxPg) ELSE UNCHANGED dbFile
        /\ pager' = [pager EXCEPT ![c].dbSize = IF readable THEN mxPg ELSE @,
                                  ![c].dbFileSize = IF readable /\ WritesFile(P) THEN mxPg ELSE @,
                                  ![c].off = IF readable THEN JLen(jfd) + 1 ELSE 0]
        /\ cache' = [cache EXCEPT ![c] = IF isHot /\ blocks # <<>> THEN NoImage ELSE @]
        /\ loc' = [loc EXCEPT ![c].todo = blocks]
        /\ pc' = [pc EXCEPT ![c] = "playPage"]
        /\ UNCHANGED <<lockVars, journal, ghosts, bounds>>

\* Records that were not synced go to the cache alone: their pages were never
\* written to the file.
pager_playback_one_page(c) ==
    LET P == pager[c]
        b == Head(loc[c].todo)
        r == jfd[b]
        play == r.pg <= P.dbSize
        cached == cache[c][r.pg] # Uncached
    IN  /\ pc[c] = "playPage" /\ loc[c].todo # <<>>
        /\ IF play /\ WritesFile(P) /\ b < P.hdr THEN writeDb(r.pg, r.val) ELSE UNCHANGED dbFile
        /\ cache' = [cache EXCEPT ![c][r.pg] = IF play /\ cached THEN r.val ELSE @]
        /\ pager' = [pager EXCEPT ![c].vers = IF play /\ cached /\ r.pg = 1 THEN r.val ELSE @]
        /\ loc' = [loc EXCEPT ![c].todo = Tail(@)]
        /\ UNCHANGED <<lockVars, journal, pc, ghosts, bounds>>

playEnd(c) ==
    /\ pc[c] = "playPage" /\ loc[c].todo = <<>>
    /\ IF WritesFile(pager[c]) THEN syncDb ELSE UNCHANGED dbFile
    /\ pager' = [pager EXCEPT ![c].countDone = FALSE]
    /\ goto(c, "finalize")
    /\ UNCHANGED <<lockVars, journal, cache, ghosts, bounds>>

-----------------------------------------------------------------------------
(* Faults *)

\* pager_error of a failed spill, rollback or journal finalization; after a
\* failed rollback of a hot journal pager_unlock follows at once.
pager_error(c) ==
    /\ IF pager[c].eState = PAGER_OPEN
       THEN /\ pager' = [pager EXCEPT ![c] = [Pager0 EXCEPT !.held = pager[c].held, !.vers = pager[c].vers]]
            /\ cache' = [cache EXCEPT ![c] = NoImage]
            /\ unlockDb(c, NONE)
       ELSE LET ending == pc[c] \in {"finalize", "finalSync"}
            IN  /\ pager' = [pager EXCEPT ![c].eState = PAGER_ERROR, ![c].countDone = @ /\ ~ending]
                /\ IF ending THEN unlockDb(c, SHARED) ELSE UNCHANGED lockVars
                /\ UNCHANGED cache
    /\ return(c)

\* A write or a sync fails.  A commit is rolled back by its caller.
ioError(c) ==
    /\ pc[c] \in {"syncNRec", "syncEnd", "write", "playPage", "finalize", "finalSync"}
    /\ may("ioerr") /\ count("ioerr")
    /\ IF pc[c] \in {"syncNRec", "syncEnd", "write"} /\ loc[c].next = "commit"
       THEN /\ goto(c, "rollback")
            /\ UNCHANGED <<lockVars, pager, cache>>
       ELSE pager_error(c)
    /\ UNCHANGED <<files, ghosts>>

die(j, d) ==
    /\ hist' = SubSeq(hist, 1, Largest({k \in 1..Len(hist) : hist[k] = Recovered(j, d)}))
    /\ levels' = [c \in Conn |-> NONE]
    /\ pager' = [c \in Conn |-> Pager0]
    /\ cache' = [c \in Conn |-> NoImage]
    /\ pc' = [c \in Conn |-> "idle"]
    /\ loc' = [c \in Conn |-> Loc0]
    /\ UNCHANGED <<shared, excl>>

\* The process dies; the operating system still has what was written.
Kill ==
    /\ may("kill") /\ count("kill")
    /\ die(jfd, fd)
    /\ UNCHANGED <<files, synced>>

\* The functions that give each block or page up to n one of its contents.
Choices(blocks, n) ==
    LET ch[k \in 0..n] ==
            IF k = 0 THEN {[b \in 1..n |-> CHOOSE x \in blocks[b] : TRUE]}
            ELSE {[v EXCEPT ![k] = x] : v \in ch[k - 1], x \in blocks[k]}
    IN  ch[n]

\* The machine dies: each page and block has one of the contents it may have,
\* in the journal the directory names.
PowerLoss ==
    /\ may("power") /\ count("power")
    /\ \E blocks \in {jMay} \cup jOld : \E j \in Choices(blocks, MaxBlock), d \in Choices(dbMay, MaxPage) :
          /\ die(j, d)
          /\ jfd' = j
          /\ jMay' = Certain(j)
          /\ jExists' = (j # NoJournal)
          /\ fd' = d
          /\ dbMay' = [p \in Page |-> {d[p]}]
    /\ jOld' = {}
    /\ synced' = Len(hist')

\* Connections between two calls need not make another.
Quiet == (\A c \in Conn : pc[c] = "idle") /\ UNCHANGED vars

Next ==
    \/ \E c \in Conn :
          \/ sharedLock(c) \/ hotAccess(c) \/ hotReserved(c) \/ hotFirst(c) \/ hotLock(c) \/ version(c)
          \/ \E p \in Page : getPage(c, p) \/ pagerStress(c, p)
          \/ \E exFlag \in limit.exFlag : sqlite3PagerBegin(c, exFlag)
          \/ pager_open_journal(c)
          \/ \E p \in Page \ {1} :
                p <= cache[c][1].n /\ pager_write(c, p, Content(done.txn + 1, 0))
          \/ \E n \in Page :
                n = cache[c][1].n + 1 /\ n <= limit.maxPages /\ pager_write(c, 1, [cache[c][1] EXCEPT !.n = n])
          \/ \E size \in Page : sqlite3PagerCommitPhaseOne(c, size)
          \/ syncLock(c) \/ syncNRec(c) \/ syncEnd(c) \/ pager_write_pagelist(c) \/ spilled(c)
          \/ sqlite3PagerSync(c) \/ finalize(c) \/ finalizeSync(c) \/ ended(c) \/ endUnchanged(c)
          \/ sqlite3PagerRollback(c) \/ playStart(c) \/ pager_playback_one_page(c) \/ playEnd(c)
          \/ pager_unlock(c) \/ pager_unlockError(c)
          \/ ioError(c)
    \/ Kill
    \/ PowerLoss
    \/ Quiet

Spec == Init /\ [][Next]_vars

-----------------------------------------------------------------------------
(* Properties *)

Writing(c) == pager[c].eState \in PAGER_WRITER_LOCKED..PAGER_WRITER_FINISHED
Reading(c) == pager[c].eState = PAGER_READER

\* The state, the lock and the journal of a pager go together as the asserts
\* of assert_pager_state say (inside pager_end_transaction they do not yet).
PagerStateOK ==
    /\ LocksTypeOK
    /\ \A c \in Conn :
          LET P == pager[c]
          IN  /\ P.eState \in PAGER_OPEN..PAGER_ERROR
              /\ P.countDone => levels[c] >= RESERVED
              /\ P.eState = PAGER_READER => levels[c] >= SHARED
              /\ P.eState = PAGER_WRITER_LOCKED =>
                    levels[c] >= RESERVED /\ P.dbSize = P.dbOrigSize /\ P.dbOrigSize = P.dbFileSize
              /\ P.eState = PAGER_WRITER_CACHEMOD /\ pc[c] \notin {"finalSync", "ended"} =>
                    levels[c] >= RESERVED /\ P.jOpen /\ P.dbOrigSize = P.dbFileSize
              /\ P.eState \in {PAGER_WRITER_DBMOD, PAGER_WRITER_FINISHED} /\ pc[c] # "ended" =>
                    levels[c] = EXCLUSIVE /\ P.jOpen

\* At every step, spills, commits, rollbacks and failed ones included, the two
\* files as they stand recover to the last committed image: what the process
\* dying at that moment would leave.
AlwaysRecoverable == hist # <<>> => Recovered(jfd, fd) = hist[Len(hist)]

\* The journal that is being played back as hot belongs to nobody alive: no
\* connection is in a write transaction, and none reads the file.
HotIsDead ==
    \A c \in Conn : pc[c] \in {"play", "playPage", "finalize", "finalSync"} /\ pager[c].eState = PAGER_OPEN =>
        \A d \in Conn \ {c} : ~Writing(d) /\ ~Reading(d)

Writer == {c \in Conn : Writing(c)}
View(c) == IF Writing(c) \/ Reading(c) THEN Image(Pages(c)) ELSE NoImage

Store == INSTANCE SnapshotStore
            WITH log <- hist, writer <- IF Writer = {} THEN NoConn ELSE CHOOSE c \in Writer : TRUE,
                 view <- [c \in Conn |-> View(c)]

\* The pager implements the list of committed images: a transaction reads one
\* image through cache and file, a commit adds one when its journal is
\* finalized, an I/O error gives the transaction up, and a crash at any step
\* leaves a prefix of the images that is at least what was synced.
PagerImplementsStore == Store!Spec
=============================================================================
