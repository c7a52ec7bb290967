----------------------------- MODULE DbOwnerLock -----------------------------
(***************************************************************************)
(* DbOwnerLock.kt: one runtime owns a database file, enforced with an OS   *)
(* advisory lock on the sidecar <db>.jvmlock.  The sidecar is deleted when *)
(* its owner closes, so an acquirer may lock an inode that is no longer    *)
(* the one the path names; it finds out by writing a random token through  *)
(* its own channel and reading the path again.                             *)
(*                                                                         *)
(* An acquirer is one caller of acquire (a runtime being opened) in one    *)
(* process.  The file system and the lock manager are external:            *)
(*  - a deleted inode lives on while a channel is open on it; a new sidecar *)
(*    is an inode nobody refers to;                                        *)
(*  - FileChannel.tryLock first looks in a table the JVM keeps per process *)
(*    (OverlappingFileLockException) and then asks the OS;                 *)
(*  - CloseDropsLocks says what closing ANY descriptor of an inode does to *)
(*    the locks its process holds there: with POSIX fcntl locks they are   *)
(*    dropped, with per-handle locks they stay.                            *)
(* A token is modelled by the acquirer that wrote it: coarser than the     *)
(* fresh 64-bit number of each attempt, so a mix-up is easier here.        *)
(***************************************************************************)
EXTENDS Naturals, FiniteSets

CONSTANTS Acq, Proc, procOf,     \* acquirers, processes, and who runs where
          Inode, NoInode, NoAcq,
          MaxTries,              \* 16 in the code
          CloseDropsLocks

ASSUME OwnerAssumption ==
    /\ procOf \in [Acq -> Proc]
    /\ NoAcq \notin Acq /\ NoInode \notin Inode
    /\ MaxTries \in Nat \ {0}
    /\ CloseDropsLocks \in BOOLEAN

VARIABLES path,      \* the inode the sidecar path names, or NoInode
          token,     \* token[i]: what was last written to inode i
          osLock,    \* osLock[i]: the acquirer whose lock the OS holds on i
          jvmTable,  \* jvmTable[i]: acquirers with a FileLock object on i
          acqPc, ino, ino2, tries   \* of an acquirer: control state, channels, attempts

osVars == <<path, token, osLock, jvmTable>>
acqVars == <<acqPc, ino, ino2, tries>>
ownerVars == <<path, token, osLock, jvmTable, acqPc, ino, ino2, tries>>

OwnerInit ==
    /\ path = NoInode
    /\ token = [i \in Inode |-> NoAcq]
    /\ osLock = [i \in Inode |-> NoAcq]
    /\ jvmTable = [i \in Inode |-> {}]
    /\ acqPc = [a \in Acq |-> "idle"]
    /\ ino = [a \in Acq |-> NoInode]
    /\ ino2 = [a \in Acq |-> NoInode]
    /\ tries = [a \in Acq |-> 0]

-----------------------------------------------------------------------------
(* The operating system, as acquire and close use it *)

acqGoto(a, l) == acqPc' = [acqPc EXCEPT ![a] = l]

sameProc(a, b) == b # NoAcq /\ procOf[a] = procOf[b]

Referenced(i) == i = path \/ \E a \in Acq : i \in {ino[a], ino2[a]}

\* The lock of inode i after a's process closes a descriptor of it.
lockAfterClose(a, i) ==
    IF CloseDropsLocks /\ sameProc(a, osLock[i])
    THEN [osLock EXCEPT ![i] = NoAcq] ELSE osLock

\* FileLock.release: the JVM forgets the lock and the process gives it up.
release(a) ==
    /\ osLock' = IF sameProc(a, osLock[ino[a]])
                 THEN [osLock EXCEPT ![ino[a]] = NoAcq] ELSE osLock
    /\ jvmTable' = [jvmTable EXCEPT ![ino[a]] = @ \ {a}]

\* FileChannel.close on the channel acquire opened.
closeChannel(a) ==
    /\ osLock' = lockAfterClose(a, ino[a])
    /\ ino' = [ino EXCEPT ![a] = NoInode]

-----------------------------------------------------------------------------
(* DbOwnerLock.acquire *)

acquireOpen(a) ==
    /\ acqPc[a] \in {"idle", "open"}
    /\ tries' = [tries EXCEPT ![a] = @ + 1]
    /\ acqGoto(a, "opened")
    /\ \/ /\ path # NoInode
          /\ ino' = [ino EXCEPT ![a] = path]
          /\ UNCHANGED <<path, token>>
       \/ /\ path = NoInode
          /\ \E i \in Inode :
                /\ ~Referenced(i)
                /\ path' = i
                /\ token' = [token EXCEPT ![i] = NoAcq]
                /\ ino' = [ino EXCEPT ![a] = i]
    /\ UNCHANGED <<osLock, jvmTable, ino2>>

\* The JVM's own table of locks is not looked at.
acquireTryLockOsOnly(a) ==
    /\ acqPc[a] = "opened"
    /\ LET i == ino[a]
       IN  IF osLock[i] # NoAcq /\ ~sameProc(a, osLock[i])
           THEN acqGoto(a, "denied") /\ UNCHANGED <<osLock, jvmTable>>
           ELSE /\ osLock' = [osLock EXCEPT ![i] = a]
                /\ jvmTable' = [jvmTable EXCEPT ![i] = @ \cup {a}]
                /\ acqGoto(a, "locked")
    /\ UNCHANGED <<path, token, ino, ino2, tries>>

acquireTryLock(a) ==
    /\ acqPc[a] = "opened"
    /\ LET i == ino[a]
           overlapping == \E b \in jvmTable[i] : sameProc(a, b)
           denied == osLock[i] # NoAcq /\ ~sameProc(a, osLock[i])
       IN  IF overlapping \/ denied
           THEN acqGoto(a, "denied") /\ UNCHANGED <<osLock, jvmTable>>
           ELSE /\ osLock' = [osLock EXCEPT ![i] = a]
                /\ jvmTable' = [jvmTable EXCEPT ![i] = @ \cup {a}]
                /\ acqGoto(a, "locked")
    /\ UNCHANGED <<path, token, ino, ino2, tries>>

\* Both refusals close the channel and throw.
acquireDenied(a) ==
    /\ acqPc[a] = "denied"
    /\ closeChannel(a)
    /\ acqGoto(a, "idle")
    /\ tries' = [tries EXCEPT ![a] = 0]
    /\ UNCHANGED <<path, token, jvmTable, ino2>>

acquireWriteToken(a) ==
    /\ acqPc[a] = "locked"
    /\ token' = [token EXCEPT ![ino[a]] = a]
    /\ acqGoto(a, "written")
    /\ UNCHANGED <<path, osLock, jvmTable, ino, ino2, tries>>

acquireReopen(a) ==
    /\ acqPc[a] = "written"
    /\ ino2' = [ino2 EXCEPT ![a] = path]
    /\ acqGoto(a, IF path = NoInode THEN "orphan" ELSE "reading")
    /\ UNCHANGED <<path, token, osLock, jvmTable, ino, tries>>

\* Read the token through the second channel and close it.
acquireVerify(a) ==
    /\ acqPc[a] = "reading"
    /\ acqGoto(a, IF token[ino2[a]] = a THEN "owner" ELSE "orphan")
    /\ osLock' = lockAfterClose(a, ino2[a])
    /\ ino2' = [ino2 EXCEPT ![a] = NoInode]
    /\ UNCHANGED <<path, token, jvmTable, ino, tries>>

acquireRelease(a) ==
    /\ acqPc[a] = "orphan"
    /\ release(a)
    /\ acqGoto(a, "released")
    /\ UNCHANGED <<path, token, ino, ino2, tries>>

\* Close the channel, then the next round of repeat(16) or the final exception.
acquireRetry(a) ==
    /\ acqPc[a] = "released"
    /\ closeChannel(a)
    /\ IF tries[a] < MaxTries
       THEN acqGoto(a, "open") /\ UNCHANGED tries
       ELSE acqGoto(a, "idle") /\ tries' = [tries EXCEPT ![a] = 0]
    /\ UNCHANGED <<path, token, jvmTable, ino2>>

-----------------------------------------------------------------------------
(* DbOwnerLock.close *)

\* Deleting an open file may be refused (Windows): the sidecar then stays.
closeDelete(a) ==
    /\ acqPc[a] = "owner"
    /\ path' \in {NoInode, path}
    /\ acqGoto(a, "deleted")
    /\ UNCHANGED <<token, osLock, jvmTable, ino, ino2, tries>>

closeRelease(a) ==
    /\ acqPc[a] = "deleted"
    /\ release(a)
    /\ acqGoto(a, "closing")
    /\ UNCHANGED <<path, token, ino, ino2, tries>>

\* The sidecar is deleted once the lock is given up.
closeDeleteLate(a) ==
    /\ acqPc[a] = "closing"
    /\ path' = NoInode
    /\ closeChannel(a)
    /\ acqGoto(a, "idle")
    /\ tries' = [tries EXCEPT ![a] = 0]
    /\ UNCHANGED <<token, jvmTable, ino2>>

closeClose(a) ==
    /\ acqPc[a] = "closing"
    /\ closeChannel(a)
    /\ acqGoto(a, "idle")
    /\ tries' = [tries EXCEPT ![a] = 0]
    /\ UNCHANGED <<path, token, jvmTable, ino2>>

-----------------------------------------------------------------------------

\* A process dies: the OS closes its descriptors and drops its locks, the
\* sidecar stays, and the process may be started again.
crash(p) ==
    LET dead == {a \in Acq : procOf[a] = p}
    IN  /\ osLock' = [i \in Inode |-> IF osLock[i] \in dead THEN NoAcq ELSE osLock[i]]
        /\ jvmTable' = [i \in Inode |-> jvmTable[i] \ dead]
        /\ acqPc' = [a \in Acq |-> IF a \in dead THEN "idle" ELSE acqPc[a]]
        /\ ino' = [a \in Acq |-> IF a \in dead THEN NoInode ELSE ino[a]]
        /\ ino2' = [a \in Acq |-> IF a \in dead THEN NoInode ELSE ino2[a]]
        /\ tries' = [a \in Acq |-> IF a \in dead THEN 0 ELSE tries[a]]
        /\ UNCHANGED <<path, token>>

acquirerStep(a) ==
    \/ acquireOpen(a) \/ acquireTryLock(a) \/ acquireDenied(a)
    \/ acquireWriteToken(a) \/ acquireReopen(a) \/ acquireVerify(a)
    \/ acquireRelease(a) \/ acquireRetry(a)
    \/ closeDelete(a) \/ closeRelease(a) \/ closeClose(a)

OwnerNext == (\E a \in Acq : acquirerStep(a)) \/ (\E p \in Proc : crash(p))

OwnerSpec == OwnerInit /\ [][OwnerNext]_ownerVars

-----------------------------------------------------------------------------
(* Properties *)

PCs == {"idle", "open", "opened", "denied", "locked", "written", "reading",
        "orphan", "released", "owner", "deleted", "closing"}

\* The variables have their types.
OwnerTypeOK ==
    /\ path \in Inode \cup {NoInode}
    /\ token \in [Inode -> Acq \cup {NoAcq}]
    /\ osLock \in [Inode -> Acq \cup {NoAcq}]
    /\ jvmTable \in [Inode -> SUBSET Acq]
    /\ acqPc \in [Acq -> PCs]
    /\ ino \in [Acq -> Inode \cup {NoInode}]
    /\ ino2 \in [Acq -> Inode \cup {NoInode}]
    /\ tries \in [Acq -> 0..MaxTries]

\* "One runtime owns the database file": no two acquirers, in one process or
\* in two, are ever past acquire and before close (DbOwnerLock.kt, class
\* comment), whatever the deletes, re-creations and crashes in between.
SoleOwner == \A a, b \in Acq : acqPc[a] = "owner" /\ acqPc[b] = "owner" => a = b

\* close() removes the sidecar its own FileLock is on, and never that of a later
\* owner, so that no owner loses the file its lock is on.
DeletesOwnSidecar ==
    [][path # NoInode /\ path' = NoInode
         => \E a \in Acq : acqPc'[a] # acqPc[a] /\ ino[a] = path /\ a \in jvmTable[path]]_ownerVars
=============================================================================
