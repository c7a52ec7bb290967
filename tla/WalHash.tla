------------------------------ MODULE WalHash ------------------------------
\* The frame index of the wal-index: the arrays aPgno[] and the hash tables
\* aHash[] of wal.c, one pair for every HASHTABLE_NPAGE frames, shared without
\* a lock by one writer (WAL_WRITE_LOCK) and a reader in a read transaction.
\* Wal.tla looks a page up by searching the frames of the log; here the search
\* goes through the hash tables one slot at a time while the writer appends,
\* rolls back, or restarts the log, and the run compares the two.
EXTENDS Integers, Sequences, FiniteSetsExt

CONSTANTS
    Page,             \* the page numbers written
    HASHTABLE_NPAGE,  \* frames per hash table (4096 in the code)
    HASHTABLE_NPAGE_ONE, \* frames of the first table, which shares with the header
    MaxFrame          \* bound: frames in the log

\* The masks of walHash, walNextHash and aPgno[] are remainders: the code's sizes
\* are powers of two, the theorems hold for any.
ASSUME HashAssumption ==
    /\ Page \subseteq Nat \ {0} /\ MaxFrame \in Nat
    /\ HASHTABLE_NPAGE \in Nat \ {0}
    /\ HASHTABLE_NPAGE_ONE \in 1..HASHTABLE_NPAGE

VARIABLES
    frames,  \* the page numbers of the log's frames, the writer's included
    mxFrame, \* the published header's mxFrame
    aPgno,   \* aPgno[iHash][j], the page of the table's frame j + 1
    aHash,   \* aHash[iHash][k], a frame of the table, or 0
    w,       \* the writer: pc, its hdr.mxFrame, the frame and slot at hand
    r        \* the reader: pc, its snapshot, the search in progress, and whether
             \* walCleanupHash has cleared a slot during it (history)

vars == <<frames, mxFrame, aPgno, aHash, w, r>>

HASHTABLE_NSLOT == 2 * HASHTABLE_NPAGE
HASHTABLE_HASH_1 == 383

walHash(iPage) == (iPage * HASHTABLE_HASH_1) % HASHTABLE_NSLOT

walNextHash(iPriorHash) == (iPriorHash + 1) % HASHTABLE_NSLOT

walFramePage(iFrame) ==
    (iFrame + HASHTABLE_NPAGE - HASHTABLE_NPAGE_ONE - 1) \div HASHTABLE_NPAGE

\* walHashGet: iZero and the number of entries of table iHash.
iZero(iHash) ==
    IF iHash = 0 THEN 0 ELSE HASHTABLE_NPAGE_ONE + (iHash - 1) * HASHTABLE_NPAGE
NEntry(iHash) == IF iHash = 0 THEN HASHTABLE_NPAGE_ONE ELSE HASHTABLE_NPAGE

Tables == 0..walFramePage(MaxFrame)
Slots == 0..(HASHTABLE_NSLOT - 1)
NoPages(iHash) == [j \in 0..(NEntry(iHash) - 1) |-> 0]
NoSlots == [k \in Slots |-> 0]

-----------------------------------------------------------------------------
\* The writer.

Writer0 == [pc |-> "idle", mx |-> 0, end |-> 0, slot |-> 0, then |-> "idle"]
Reader0 == [pc |-> "idle", iLast |-> 0, minFrame |-> 1, pgno |-> 0, iHash |-> 0,
            iKey |-> 0, nCollide |-> 0, iH |-> 0, iRead |-> 0, undone |-> FALSE]

Init ==
    /\ frames = <<>> /\ mxFrame = 0
    /\ aPgno = [i \in Tables |-> NoPages(i)] /\ aHash = [i \in Tables |-> NoSlots]
    /\ w = Writer0 /\ r = Reader0

beginWrite ==
    /\ w.pc = "idle"
    /\ w' = [Writer0 EXCEPT !.pc = "ready", !.mx = mxFrame, !.end = mxFrame]
    /\ UNCHANGED <<frames, mxFrame, aPgno, aHash, r>>

\* walRestartLog, with no reader on the log: the next frame is frame 1. The
\* tables keep what they hold.
restartLog ==
    /\ w.pc = "ready" /\ w.mx = mxFrame /\ w.end = mxFrame /\ r.pc = "idle"
    /\ mxFrame > 0
    /\ mxFrame' = 0 /\ w' = [w EXCEPT !.mx = 0, !.end = 0] /\ frames' = <<>>
    /\ UNCHANGED <<aPgno, aHash, r>>

\* walIndexAppend up to the first look at aPgno[idx-1]: the first entry of a
\* table clears the table (nothing of it is in any reader's snapshot); an entry
\* already there is what a writer that is gone has left.
walIndexAppend(iPage) ==
    LET iFrame == w.end + 1
        iHash == walFramePage(iFrame)
        idx == iFrame - iZero(iHash)
        pages == IF idx = 1 THEN NoPages(iHash) ELSE aPgno[iHash]
    IN  /\ w.pc = "ready" /\ iFrame <= MaxFrame
        /\ frames' = Append(frames, iPage)
        /\ aPgno' = [aPgno EXCEPT ![iHash] = pages]
        /\ aHash' = [aHash EXCEPT ![iHash] = IF idx = 1 THEN NoSlots ELSE @]
        /\ w' = IF pages[idx - 1] # 0 /\ w.mx > 0
                THEN [w EXCEPT !.pc = "cleanup", !.then = "insert"]
                ELSE [w EXCEPT !.pc = "insert"]
        /\ UNCHANGED <<mxFrame, r>>

\* The slot of the new entry, found by linear probing, and the store of aPgno[].
insertPgno ==
    LET iFrame == w.end + 1
        iHash == walFramePage(iFrame)
        idx == iFrame - iZero(iHash)
        probe == [n \in 0..idx |->
                     (walHash(frames[iFrame]) + n) % HASHTABLE_NSLOT]
        free == {n \in DOMAIN probe : aHash[iHash][probe[n]] = 0}
    IN  /\ w.pc = "insert"
        /\ IF free = {}
           THEN /\ w' = [w EXCEPT !.pc = "SQLITE_CORRUPT"]
                /\ UNCHANGED aPgno
           ELSE /\ aPgno' = [aPgno EXCEPT
                       ![iHash][(idx - 1) % HASHTABLE_NPAGE] = frames[iFrame]]
                /\ w' = [w EXCEPT !.pc = "store",
                       !.slot = probe[CHOOSE n \in free : \A m \in free : n <= m]]
        /\ UNCHANGED <<frames, mxFrame, aHash, r>>

\* AtomicStore(&aHash[iKey], idx), which makes the entry visible.
insertHash ==
    LET iFrame == w.end + 1
        iHash == walFramePage(iFrame)
    IN  /\ w.pc = "store"
        /\ aHash' = [aHash EXCEPT ![iHash][w.slot] = iFrame - iZero(iHash)]
        /\ w' = [w EXCEPT !.pc = "ready", !.end = iFrame, !.slot = 0]
        /\ UNCHANGED <<frames, mxFrame, aPgno, r>>

\* The end of walFrames: hdr.mxFrame moves past the frames it appended, and a
\* commit publishes the header.
walFramesEnd(commit) ==
    /\ w.pc = "ready" /\ w.end > w.mx
    /\ mxFrame' = IF commit THEN w.end ELSE mxFrame
    /\ w' = IF commit THEN Writer0 ELSE [w EXCEPT !.mx = w.end]
    /\ UNCHANGED <<frames, aPgno, aHash, r>>

\* A bug in walCleanupHash: it also clears the slot of frame hdr.mxFrame.
cleanupOneTooMany ==
    LET iHash == walFramePage(w.mx)
        iLimit == w.mx - iZero(iHash)
    IN  /\ w.pc = "cleanup"
        /\ aHash' = [aHash EXCEPT
               ![iHash] = [k \in Slots |-> IF @[k] >= iLimit THEN 0 ELSE @[k]]]
        /\ aPgno' = [aPgno EXCEPT ![iHash] =
               [j \in DOMAIN @ |-> IF j >= iLimit THEN 0 ELSE @[j]]]
        /\ w' = IF w.then = "idle" THEN Writer0
                ELSE [w EXCEPT !.pc = w.then]
        /\ UNCHANGED <<frames, mxFrame, r>>

\* walCleanupHash: the slots of the table of hdr.mxFrame that hold a later frame
\* are cleared one at a time in ascending order, then the rest of its aPgno[].
walCleanupHash ==
    LET iHash == walFramePage(w.mx)
        iLimit == w.mx - iZero(iHash)
        stale == {k \in Slots : aHash[iHash][k] > iLimit}
    IN  /\ w.pc = "cleanup"
        /\ IF stale # {}
           THEN /\ aHash' = [aHash EXCEPT ![iHash][Min(stale)] = 0]
                /\ r' = [r EXCEPT !.undone = r.pc # "idle"]
                /\ UNCHANGED <<aPgno, w>>
           ELSE /\ aPgno' = [aPgno EXCEPT ![iHash] =
                       [j \in DOMAIN @ |-> IF j >= iLimit THEN 0 ELSE @[j]]]
                /\ w' = IF w.then = "idle" THEN Writer0
                        ELSE [w EXCEPT !.pc = w.then]
                /\ UNCHANGED <<aHash, r>>
        /\ UNCHANGED <<frames, mxFrame>>

\* sqlite3WalUndo and sqlite3WalSavepointUndo: hdr.mxFrame goes back to the
\* published one, or to a savepoint's, and the tables are cleaned up.
undoTo(mx, then) ==
    /\ w.pc = "ready" /\ w.end = w.mx /\ mx \in mxFrame..(w.mx - 1)
    /\ w' = IF mx > 0
            THEN [w EXCEPT !.pc = "cleanup", !.mx = mx, !.end = mx, !.then = then]
            ELSE [Writer0 EXCEPT !.pc = then]
    /\ frames' = SubSeq(frames, 1, mx)
    /\ UNCHANGED <<mxFrame, aPgno, aHash, r>>
sqlite3WalUndo == undoTo(mxFrame, "idle")
sqlite3WalSavepointUndo == \E mx \in mxFrame..w.mx : undoTo(mx, "ready")

\* "the previous writer must have exited unexpectedly in the middle of a
\* transaction": the lock is free again and nothing has been cleaned up.
writerGone ==
    /\ w.pc # "idle" /\ w' = Writer0 /\ frames' = SubSeq(frames, 1, mxFrame)
    /\ UNCHANGED <<mxFrame, aPgno, aHash, r>>

-----------------------------------------------------------------------------
\* The reader: walFindFrame, one load at a time.

\* A read transaction on the log and the search for a page: the snapshot is the
\* published header; minFrame is one past what has been backfilled.
findStart(pgno, minFrame) ==
    /\ r.pc = "idle" /\ mxFrame > 0 /\ minFrame \in 1..mxFrame
    /\ r' = [Reader0 EXCEPT !.pc = "load", !.iLast = mxFrame, !.minFrame = minFrame,
                 !.pgno = pgno, !.iHash = walFramePage(mxFrame),
                 !.iKey = walHash(pgno), !.nCollide = HASHTABLE_NSLOT]
    /\ UNCHANGED <<frames, mxFrame, aPgno, aHash, w>>

\* iH = AtomicLoad(&aHash[iKey]). At the end of a chain the search stops if it
\* has a frame, and goes to the previous table if there is one.
findLoad ==
    LET iH == aHash[r.iHash][r.iKey]
    IN  /\ r.pc = "load"
        /\ r' = IF iH # 0 THEN [r EXCEPT !.pc = "match", !.iH = iH]
                ELSE IF r.iRead # 0 \/ r.iHash = walFramePage(r.minFrame)
                THEN [r EXCEPT !.pc = "found"]
                ELSE [r EXCEPT !.iHash = @ - 1, !.iKey = walHash(r.pgno),
                               !.nCollide = HASHTABLE_NSLOT]
        /\ UNCHANGED <<frames, mxFrame, aPgno, aHash, w>>

\* A bug in walFindFrame: entries newer than the snapshot are not filtered out.
findMatchAnyFrame ==
    LET iFrame == r.iH + iZero(r.iHash)
        hit == /\ iFrame >= r.minFrame
               /\ aPgno[r.iHash][(r.iH - 1) % HASHTABLE_NPAGE] = r.pgno
    IN  /\ r.pc = "match"
        /\ r' = [r EXCEPT !.pc = "load", !.iRead = IF hit THEN iFrame ELSE @,
                          !.iKey = walNextHash(@), !.nCollide = @ - 1, !.iH = 0]
        /\ UNCHANGED <<frames, mxFrame, aPgno, aHash, w>>

\* The comparison of aPgno[iH-1] and the step to the next slot of the chain.
findMatch ==
    LET iFrame == r.iH + iZero(r.iHash)
        hit == /\ iFrame <= r.iLast /\ iFrame >= r.minFrame
               /\ aPgno[r.iHash][(r.iH - 1) % HASHTABLE_NPAGE] = r.pgno
    IN  /\ r.pc = "match"
        /\ r' = IF r.nCollide = 0 THEN [r EXCEPT !.pc = "SQLITE_CORRUPT"]
                ELSE [r EXCEPT !.pc = "load", !.iRead = IF hit THEN iFrame ELSE @,
                          !.iKey = walNextHash(@), !.nCollide = @ - 1, !.iH = 0]
        /\ UNCHANGED <<frames, mxFrame, aPgno, aHash, w>>

endRead ==
    /\ r.pc \in {"found", "SQLITE_CORRUPT"} /\ r' = Reader0
    /\ UNCHANGED <<frames, mxFrame, aPgno, aHash, w>>

Next ==
    \/ beginWrite \/ restartLog
    \/ \E p \in Page : walIndexAppend(p)
    \/ insertPgno \/ insertHash
    \/ \E commit \in BOOLEAN : walFramesEnd(commit)
    \/ walCleanupHash \/ sqlite3WalUndo \/ sqlite3WalSavepointUndo \/ writerGone
    \/ \E p \in Page, minFrame \in 1..MaxFrame : findStart(p, minFrame)
    \/ findLoad \/ findMatch \/ endRead

Spec == Init /\ [][Next]_vars

-----------------------------------------------------------------------------
\* Properties.

\* The frame a search of the log itself finds for a page, or 0.
LastFrameOf(pgno, minFrame, iLast) ==
    Max({0} \cup {f \in minFrame..iLast : frames[f] = pgno})

\* The type invariant of the index: every table entry names a frame of its
\* table.
HashTypeOK ==
    /\ frames \in Seq(Page) /\ mxFrame \in 0..Len(frames)
    /\ \A i \in Tables : /\ aPgno[i] \in [0..(NEntry(i) - 1) -> Page \cup {0}]
                         /\ aHash[i] \in [Slots -> 0..NEntry(i)]

\* walFindFrame, running while a writer appends to, cleans up or abandons the
\* same tables, returns the newest frame of the page in the reader's snapshot (the
\* linear search of SQLITE_ENABLE_EXPENSIVE_ASSERT finds the same frame). It gives
\* up with SQLITE_CORRUPT only if slots were cleared while it searched: entries
\* that a rollback removes and the next append puts back further on may keep the
\* search from ever meeting an unused slot.
FindsSnapshotFrame ==
    /\ r.pc = "SQLITE_CORRUPT" => r.undone
    /\ r.pc = "found" => r.iRead = LastFrameOf(r.pgno, r.minFrame, r.iLast)

\* The expensive assertions of walIndexAppend and walCleanupHash: with no append
\* or cleanup under way, every frame up to the writer's hdr.mxFrame is reached
\* from its page's first slot before an empty one; no append runs out of slots.
FramesReachable ==
    /\ w.pc # "SQLITE_CORRUPT"
    /\ w.pc \in {"idle", "ready"} =>
        \A f \in 1..(IF w.pc = "idle" THEN mxFrame ELSE w.end) :
            LET iHash == walFramePage(f)
                key(n) == (walHash(frames[f]) + n) % HASHTABLE_NSLOT
            IN  /\ aPgno[iHash][f - iZero(iHash) - 1] = frames[f]
                /\ \E n \in Slots : /\ aHash[iHash][key(n)] = f - iZero(iHash)
                                    /\ \A m \in 0..(n - 1) : aHash[iHash][key(m)] # 0
=============================================================================
