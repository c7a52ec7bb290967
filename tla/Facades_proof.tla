---------------------------- MODULE Facades_proof ---------------------------
(***************************************************************************)
(* The ownership of a database file.                                       *)
(*                                                                         *)
(* DbOwnerLock.kt gives a file at most one owner, for any number of        *)
(* runtimes, retries and crashes: in one process, whatever the locks of    *)
(* the platform are, and in any number of processes where a lock belongs   *)
(* to the handle it was taken with.  Two processes under POSIX fcntl locks *)
(* are the case left: there it is false, see the run owner_posix.          *)
(*                                                                         *)
(* The two facades that hold the lock, SqliteDataSource and SqliteWal,     *)
(* close what they handed out before they give it up, and SqliteWal        *)
(* conserves its pool of readers, for any number of threads that open,     *)
(* close and execute, and of connections and readers.                      *)
(***************************************************************************)
EXTENDS MCFacades, DbOwnerLock, TLAPS

-----------------------------------------------------------------------------
(* DbOwnerLock *)

\* The loop counter of acquire: reset between calls, below the limit on a retry.
TriesInv ==
    \A a \in Acq : /\ acqPc[a] = "idle" => tries[a] = 0
                   /\ acqPc[a] = "open" => tries[a] < MaxTries

OwnerTypeInv == OwnerTypeOK /\ TriesInv

\* The variables keep their types, whatever closing a descriptor does.
LEMMA OwnerTypeStep == OwnerTypeInv /\ [OwnerNext]_ownerVars => OwnerTypeInv'
<1> SUFFICES ASSUME OwnerTypeInv, [OwnerNext]_ownerVars
             PROVE  OwnerTypeInv'
  BY Zenon
<1> USE OwnerAssumption DEF OwnerTypeInv, TriesInv, OwnerTypeOK, PCs, acqGoto, lockAfterClose,
                            release, closeChannel
<1>0. \A a \in Acq, i \in Inode \cup {NoInode} : lockAfterClose(a, i) \in [Inode -> Acq \cup {NoAcq}]
  BY Zenon
<1>1. ASSUME NEW a \in Acq, acquireOpen(a) PROVE OwnerTypeInv'
  <2>1. tries[a] + 1 \in 0..MaxTries
    BY <1>1 DEF acquireOpen
  <2> QED
    BY <1>1, <2>1 DEF acquireOpen
<1>2. ASSUME NEW a \in Acq, acquireTryLock(a) PROVE OwnerTypeInv'
  BY <1>2 DEF acquireTryLock
<1>3. ASSUME NEW a \in Acq, acquireDenied(a) PROVE OwnerTypeInv'
  <2>1. osLock' \in [Inode -> Acq \cup {NoAcq}] /\ ino' = [ino EXCEPT ![a] = NoInode]
    BY <1>0, <1>3, Zenon DEF acquireDenied
  <2> QED
    BY <1>3, <2>1 DEF acquireDenied
<1>4. ASSUME NEW a \in Acq, acquireWriteToken(a) PROVE OwnerTypeInv'
  BY <1>4, Zenon DEF acquireWriteToken
<1>5. ASSUME NEW a \in Acq, acquireReopen(a) PROVE OwnerTypeInv'
  BY <1>5, Zenon DEF acquireReopen
<1>6. ASSUME NEW a \in Acq, acquireVerify(a) PROVE OwnerTypeInv'
  BY <1>6, Zenon DEF acquireVerify
<1>7. ASSUME NEW a \in Acq, acquireRelease(a) PROVE OwnerTypeInv'
  BY <1>7, Zenon DEF acquireRelease
<1>8. ASSUME NEW a \in Acq, acquireRetry(a) PROVE OwnerTypeInv'
  <2>1. osLock' \in [Inode -> Acq \cup {NoAcq}] /\ ino' = [ino EXCEPT ![a] = NoInode]
    BY <1>0, <1>8, Zenon DEF acquireRetry
  <2> QED
    BY <1>8, <2>1 DEF acquireRetry
<1>9. ASSUME NEW a \in Acq, closeDelete(a) PROVE OwnerTypeInv'
  BY <1>9, Zenon DEF closeDelete
<1>10. ASSUME NEW a \in Acq, closeRelease(a) PROVE OwnerTypeInv'
  BY <1>10, Zenon DEF closeRelease
<1>11. ASSUME NEW a \in Acq, closeClose(a) PROVE OwnerTypeInv'
  <2>1. osLock' \in [Inode -> Acq \cup {NoAcq}] /\ ino' = [ino EXCEPT ![a] = NoInode]
    BY <1>0, <1>11, Zenon DEF closeClose
  <2> QED
    BY <1>11, <2>1 DEF closeClose
<1>12. ASSUME NEW p \in Proc, crash(p) PROVE OwnerTypeInv'
  BY <1>12 DEF crash
<1>13. CASE UNCHANGED ownerVars
  BY <1>13, Zenon DEF ownerVars
<1> QED
  BY <1>1, <1>2, <1>3, <1>4, <1>5, <1>6, <1>7, <1>8, <1>9, <1>10, <1>11, <1>12, <1>13, Zenon
     DEF OwnerNext, acquirerStep

Opened == PCs \ {"idle", "open"}
Holding == {"locked", "written", "reading", "orphan", "owner", "deleted"}

\* What the JVM guarantees by itself: it lists an acquirer from tryLock to release,
\* and lists no two of one process for one inode.
JvmInv ==
    \A a \in Acq :
        /\ acqPc[a] \in Opened => ino[a] \in Inode
        /\ \A i \in Inode : a \in jvmTable[i] <=> acqPc[a] \in Holding /\ ino[a] = i
        /\ \A b \in Acq : acqPc[a] \in Holding /\ acqPc[b] \in Holding /\ ino[a] = ino[b]
                             /\ procOf[a] = procOf[b] => a = b

\* What the OS adds where a lock belongs to the handle it was taken with.
HandleInv == ~CloseDropsLocks => \A a \in Acq : acqPc[a] \in Holding => osLock[ino[a]] = a

\* An owner's inode is the one the path names, and the token read back through the
\* path is the acquirer's only if the path still names its inode.
PathInv ==
    \A a \in Acq :
        /\ acqPc[a] = "owner" => path = ino[a]
        /\ acqPc[a] \in {"opened", "locked", "written"} /\ path \notin {NoInode, ino[a]}
              => token[path] # a
        /\ acqPc[a] = "reading" =>
              /\ ino2[a] \in Inode
              /\ IF ino2[a] = ino[a] THEN path = ino[a] ELSE token[ino2[a]] # a

\* The hypothesis on the lock manager: closing a descriptor drops no other handle's
\* lock, or no lock is asked for by a second process.
OneProcess == \A a, b \in Acq : procOf[a] = procOf[b]
LocksLast == CloseDropsLocks => OneProcess

\* The JVM's table is right after every step, whatever closing a descriptor does.
LEMMA JvmStep ==
    ASSUME OwnerTypeOK, JvmInv, [OwnerNext]_ownerVars PROVE JvmInv'
<1> USE OwnerAssumption DEF OwnerTypeOK, JvmInv, PCs, Opened, Holding, acqGoto
<1>1. ASSUME NEW a \in Acq, acquireOpen(a) PROVE JvmInv'
  BY <1>1 DEF acquireOpen
<1>2. ASSUME NEW a \in Acq, acquireTryLock(a) PROVE JvmInv'
  BY <1>2, SMTT(30) DEF acquireTryLock, sameProc
<1>3. ASSUME NEW a \in Acq, acquireDenied(a) PROVE JvmInv'
  BY <1>3 DEF acquireDenied, closeChannel
<1>4. ASSUME NEW a \in Acq, acquireWriteToken(a) PROVE JvmInv'
  BY <1>4 DEF acquireWriteToken
<1>5. ASSUME NEW a \in Acq, acquireReopen(a) PROVE JvmInv'
  BY <1>5 DEF acquireReopen
<1>6. ASSUME NEW a \in Acq, acquireVerify(a) PROVE JvmInv'
  BY <1>6 DEF acquireVerify
<1>7. ASSUME NEW a \in Acq, acquireRelease(a) \/ closeRelease(a) PROVE JvmInv'
  BY <1>7, SMTT(30) DEF acquireRelease, closeRelease, release
<1>8. ASSUME NEW a \in Acq, acquireRetry(a) PROVE JvmInv'
  BY <1>8 DEF acquireRetry, closeChannel
<1>9. ASSUME NEW a \in Acq, closeDelete(a) PROVE JvmInv'
  BY <1>9 DEF closeDelete
<1>11. ASSUME NEW a \in Acq, closeClose(a) PROVE JvmInv'
  BY <1>11 DEF closeClose, closeChannel
<1>12. ASSUME NEW p \in Proc, crash(p) PROVE JvmInv'
  BY <1>12 DEF crash
<1>13. CASE UNCHANGED ownerVars
  BY <1>13, Zenon DEF ownerVars
<1> QED
  BY <1>1, <1>2, <1>3, <1>4, <1>5, <1>6, <1>7, <1>8, <1>9, <1>11, <1>12, <1>13, Zenon
     DEF OwnerNext, acquirerStep

\* A lock that belongs to its handle is held from tryLock to release.
LEMMA HandleStep ==
    ASSUME OwnerTypeOK, JvmInv, HandleInv, [OwnerNext]_ownerVars PROVE HandleInv'
<1> SUFFICES ASSUME ~CloseDropsLocks PROVE HandleInv'
  BY Zenon DEF HandleInv
<1> USE OwnerAssumption DEF OwnerTypeOK, HandleInv, Holding, acqGoto
<1>0. /\ \A a \in Acq : acqPc[a] \in Holding => ino[a] \in Inode /\ a \in jvmTable[ino[a]]
      /\ \A a, i : lockAfterClose(a, i) = osLock
  BY Zenon DEF JvmInv, Opened, PCs, lockAfterClose
<1>1. ASSUME NEW a \in Acq, acquireOpen(a) PROVE HandleInv'
  BY <1>1 DEF acquireOpen
<1>2. ASSUME NEW a \in Acq, acquireTryLock(a) PROVE HandleInv'
  <2>1. ino[a] \in Inode
    BY <1>2, Zenon DEF acquireTryLock, JvmInv, Opened, PCs
  <2> QED
    BY <1>0, <1>2, <2>1, SMTT(30) DEF acquireTryLock, sameProc
<1>3. ASSUME NEW a \in Acq, acquireDenied(a) \/ acquireRetry(a) \/ closeClose(a) PROVE HandleInv'
  BY <1>0, <1>3 DEF acquireDenied, acquireRetry, closeClose, closeChannel
<1>4. ASSUME NEW a \in Acq, acquireWriteToken(a) \/ acquireReopen(a) \/ closeDelete(a) PROVE HandleInv'
  BY <1>4 DEF acquireWriteToken, acquireReopen, closeDelete
<1>6. ASSUME NEW a \in Acq, acquireVerify(a) PROVE HandleInv'
  BY <1>0, <1>6 DEF acquireVerify
<1>7. ASSUME NEW a \in Acq, acquireRelease(a) \/ closeRelease(a) PROVE HandleInv'
  BY <1>0, <1>7, SMTT(30) DEF acquireRelease, closeRelease, release
<1>12. ASSUME NEW p \in Proc, crash(p) PROVE HandleInv'
  BY <1>0, <1>12 DEF crash
<1>13. CASE UNCHANGED ownerVars
  BY <1>13, Zenon DEF ownerVars
<1> QED
  BY <1>1, <1>2, <1>3, <1>4, <1>6, <1>7, <1>12, <1>13, Zenon DEF OwnerNext, acquirerStep

\* Either way two acquirers do not hold one inode.
LEMMA HoldersExclude ==
    ASSUME LocksLast, JvmInv, HandleInv, NEW a \in Acq, NEW b \in Acq,
           acqPc[a] \in Holding, acqPc[b] \in Holding, ino[a] = ino[b]
    PROVE  a = b
BY Zenon DEF LocksLast, OneProcess, JvmInv, HandleInv

\* So the path stays an owner's until the owner itself deletes it.
LEMMA PathStep ==
    ASSUME LocksLast, OwnerTypeOK, JvmInv, HandleInv, PathInv, [OwnerNext]_ownerVars PROVE PathInv'
<1> USE OwnerAssumption DEF OwnerTypeOK, PathInv, acqGoto
<1>0. \A a \in Acq : acqPc[a] \in {"opened", "locked", "written", "reading", "owner"} => ino[a] \in Inode
  BY Zenon DEF JvmInv, Opened, PCs
<1>1. ASSUME NEW a \in Acq, acquireOpen(a) PROVE PathInv'
  BY <1>0, <1>1, SMTT(30) DEF acquireOpen, Referenced
<1>2. ASSUME NEW a \in Acq, acquireTryLock(a) PROVE PathInv'
  BY <1>0, <1>2 DEF acquireTryLock
<1>3. ASSUME NEW a \in Acq, acquireDenied(a) \/ acquireRetry(a) \/ closeClose(a) PROVE PathInv'
  BY <1>3 DEF acquireDenied, acquireRetry, closeClose, closeChannel
<1>4. ASSUME NEW a \in Acq, acquireWriteToken(a) PROVE PathInv'
  BY <1>0, <1>4 DEF acquireWriteToken
<1>5. ASSUME NEW a \in Acq, acquireReopen(a) PROVE PathInv'
  BY <1>0, <1>5 DEF acquireReopen
<1>6. ASSUME NEW a \in Acq, acquireVerify(a) PROVE PathInv'
  BY <1>0, <1>6 DEF acquireVerify
<1>7. ASSUME NEW a \in Acq, acquireRelease(a) \/ closeRelease(a) PROVE PathInv'
  BY <1>7 DEF acquireRelease, closeRelease
<1>9. ASSUME NEW a \in Acq, closeDelete(a) PROVE PathInv'
  <2>1. \A b \in Acq : acqPc[b] \in {"owner", "reading"} /\ ino[b] = ino[a] => a = b
    BY <1>9, HoldersExclude, Zenon DEF closeDelete, Holding
  <2> QED
    BY <1>0, <1>9, <2>1 DEF closeDelete
<1>12. ASSUME NEW p \in Proc, crash(p) PROVE PathInv'
  BY <1>12 DEF crash
<1>13. CASE UNCHANGED ownerVars
  BY <1>13, Zenon DEF ownerVars
<1> QED
  BY <1>1, <1>2, <1>3, <1>4, <1>5, <1>6, <1>7, <1>9, <1>12, <1>13, Zenon DEF OwnerNext, acquirerStep

\* The counters and program counters of acquire stay in range: OwnerTypeOK is
\* an invariant of the code under either behaviour of close.
THEOREM OwnerTypes == OwnerSpec => []OwnerTypeOK
<1>1. OwnerInit => OwnerTypeInv
  BY OwnerAssumption DEF OwnerInit, OwnerTypeInv, OwnerTypeOK, TriesInv, PCs
<1> QED
  BY <1>1, OwnerTypeStep, PTL DEF OwnerSpec, OwnerTypeInv

\* On every platform, with locks of either kind: the acquirers of one JVM that have
\* a FileLock on one sidecar are one, however the sidecar is deleted and created
\* again, and from tryLock to release they are in the table tryLock looks at.
THEOREM OnePerJvm == OwnerSpec => []JvmInv
<1>1. OwnerInit => JvmInv
  BY OwnerAssumption, Zenon DEF OwnerInit, JvmInv, Opened, Holding, PCs
<1>2. OwnerTypeOK /\ JvmInv /\ [OwnerNext]_ownerVars => JvmInv'
  BY JvmStep, Zenon
<1> QED
  BY <1>1, <1>2, OwnerTypes, PTL DEF OwnerSpec

\* The invariant behind the next two theorems.
LEMMA OwnershipInvariant == ASSUME LocksLast PROVE OwnerSpec => [](JvmInv /\ HandleInv /\ PathInv)
<1>1. OwnerInit => HandleInv /\ PathInv
  BY OwnerAssumption, Zenon DEF OwnerInit, HandleInv, PathInv, Holding
<1>2. OwnerTypeOK /\ JvmInv /\ HandleInv /\ PathInv /\ [OwnerNext]_ownerVars => HandleInv' /\ PathInv'
  BY HandleStep, PathStep, Zenon
<1> QED
  BY <1>1, <1>2, OwnerTypes, OnePerJvm, PTL DEF OwnerSpec

\* DbOwnerLock admits one owner at a time: in any number of processes where a lock
\* belongs to its handle, and within one process with POSIX locks.  The case left
\* out, POSIX locks and two processes, is refuted by the run owner_posix.
THEOREM OneOwner == ASSUME LocksLast PROVE OwnerSpec => []SoleOwner
<1>1. JvmInv /\ HandleInv /\ PathInv => SoleOwner
  BY HoldersExclude, Zenon DEF PathInv, SoleOwner, Holding
<1> QED
  BY <1>1, OwnershipInvariant, PTL

\* close() deletes the sidecar its own FileLock is on and no other, under the same
\* hypothesis.
THEOREM OwnSidecarDeleted == ASSUME LocksLast PROVE OwnerSpec => DeletesOwnSidecar
<1>1. OwnerTypeOK /\ JvmInv /\ PathInv /\ [OwnerNext]_ownerVars
        => [path # NoInode /\ path' = NoInode
              => \E a \in Acq : acqPc'[a] # acqPc[a] /\ ino[a] = path /\ a \in jvmTable[path]]_ownerVars
  <2> SUFFICES ASSUME OwnerTypeOK, JvmInv, PathInv, OwnerNext, path # NoInode, path' = NoInode
               PROVE  \E a \in Acq : acqPc'[a] # acqPc[a] /\ ino[a] = path /\ a \in jvmTable[path]
    BY Zenon
  <2>1. PICK a \in Acq : closeDelete(a)
    BY OwnerAssumption, Zenon DEF OwnerTypeOK, OwnerNext, acquirerStep, acquireOpen, acquireTryLock,
       acquireDenied, acquireWriteToken, acquireReopen, acquireVerify, acquireRelease,
       acquireRetry, closeRelease, closeClose, crash
  <2>2. acqPc[a] = "owner" /\ acqPc'[a] = "deleted" /\ ino[a] = path
    BY <2>1, Zenon DEF closeDelete, acqGoto, OwnerTypeOK, PathInv
  <2>3. a \in jvmTable[path]
    BY <2>2, Zenon DEF JvmInv, OwnerTypeOK, Holding
  <2> QED
    BY <2>2, <2>3
<1> QED
  BY <1>1, OwnerTypes, OwnershipInvariant, PTL DEF OwnerSpec, DeletesOwnSidecar

-----------------------------------------------------------------------------
(* SqliteDataSource *)

Stopping == {"stop", "stopping", "stopped"}

\* Types of the control state.
SourceTypes ==
    /\ state \in [Child -> {"absent", "live", "closing", "closed"}]
    /\ pc \in [Thread -> Stopping \cup {"idle", "getConnection", "spawned", "submit", "running",
                                        "closeCon", "close", "closeAll", "release"}]
    /\ at \in [Thread -> Child \cup {Nothing}]
    /\ todo \in [Thread -> SUBSET Child]
    /\ connections \subseteq Child /\ listed \subseteq Child
    /\ conClosed \in [Child -> BOOLEAN]
    /\ \A t \in Thread : pc[t] \in Stopping \cup {"spawned", "closeCon"} => at[t] \in Child

\* The thread has begun the loop of SqliteDataSource.close.
closer(t) == pc[t] \in {"closeAll", "release"} \/ todo[t] # {}

\* A connection that is marked closed is closed, or a thread is at its stop ...
MarkedInv ==
    \A w \in Child : conClosed[w] =>
        state[w] = "closed" \/ \E t \in Thread : at[t] = w /\ pc[t] \in {"stop", "stopping"}

\* ... a listed connection leaves connections only when it is closed, and leaves the
\* loop of a close only when it is closed or marked, so that at the release all are.
ListedInv ==
    /\ \A w \in listed : w \in connections \/ state[w] = "closed"
    /\ \A t \in Thread : closer(t) =>
          \A w \in listed : w \in todo[t] \/ conClosed[w] \/ state[w] = "closed"
    /\ ~ownerHeld => \A w \in listed : conClosed[w] \/ state[w] = "closed"

SourceInv ==
    /\ SourceTypes
    /\ \A w \in connections : state[w] # "absent"
    /\ \A t \in Thread : pc[t] = "stopped" => state[at[t]] = "closed"
    /\ \A t \in Thread : pc[t] = "release" => todo[t] = {}
    /\ ~dsClosed => ownerHeld /\ listed = {} /\ \A t \in Thread : ~closer(t)
    /\ ~stopFailed => MarkedInv /\ ListedInv

\* The types are kept.
LEMMA SourceTypesStep == ASSUME SourceTypes, [Next]_vars PROVE SourceTypes'
<1> USE ManagerAssumption DEF ManagerAssumption, SourceTypes, Stopping, dsVars, workerVars, history, goto, gotoAt, done
<1>1. CASE UNCHANGED vars
  BY <1>1, Zenon DEF vars
<1>2. ASSUME NEW t \in Thread, getConnection(t) \/ close(t) PROVE SourceTypes'
  BY <1>2, ZenonT(30) DEF getConnection, close
<1>3. ASSUME NEW t \in Thread, NEW w \in Child, spawnOpen(t, w) PROVE SourceTypes'
  BY <1>3 DEF spawnOpen
<1>4. ASSUME NEW t \in Thread, spawnReturns(t) PROVE SourceTypes'
  BY <1>4 DEF spawnReturns, publish
<1>5. ASSUME NEW t \in Thread, NEW w \in Child, execute(t, w) \/ closeConnection(t, w) PROVE SourceTypes'
  BY <1>5 DEF execute, closeConnection
<1>6. ASSUME NEW t \in Thread, submit(t) \/ executeReturns(t) PROVE SourceTypes'
  BY <1>6 DEF submit, executeReturns, runEnter, runExit
<1>7. ASSUME NEW t \in Thread, markClosed(t) PROVE SourceTypes'
  BY <1>7, Zenon DEF markClosed
<1>8. ASSUME NEW t \in Thread, stopWorker(t) \/ stopReturns(t) PROVE SourceTypes'
  BY <1>8 DEF stopWorker, stopReturns, stopEnter, stopExit
<1>9. ASSUME NEW t \in Thread, stopThrows(t) PROVE SourceTypes'
  BY <1>9 DEF stopThrows, stopExit
<1>10. ASSUME NEW t \in Thread, connectionClosed(t) PROVE SourceTypes'
  BY <1>10 DEF connectionClosed
<1>11. ASSUME NEW t \in Thread, closeMark(t) \/ closeNext(t) PROVE SourceTypes'
  BY <1>11 DEF closeMark, closeNext
<1>12. ASSUME NEW t \in Thread, closeRuntime(t) \/ releaseOwner(t) PROVE SourceTypes'
  BY <1>12 DEF closeRuntime, releaseOwner
<1> QED
  BY <1>1, <1>2, <1>3, <1>4, <1>5, <1>6, <1>7, <1>8, <1>9, <1>10, <1>11, <1>12, Zenon DEF Next, goOn

\* SourceInv is kept by every step, of any number of threads that open and close.
LEMMA SourceStep == ASSUME SourceInv, SourceTypes', [Next]_vars PROVE SourceInv'
<1> USE DEF SourceInv, MarkedInv, ListedInv, closer, SourceTypes, Stopping, dsVars, workerVars, history, goto, gotoAt, done
<1>1. CASE UNCHANGED vars
  BY <1>1, ZenonT(30) DEF vars
<1>2. ASSUME NEW t \in Thread, getConnection(t) \/ close(t) PROVE SourceInv'
  BY <1>2, SMTT(30) DEF getConnection, close
<1>3. ASSUME NEW t \in Thread, NEW w \in Child, spawnOpen(t, w) PROVE SourceInv'
  BY <1>3, SMTT(30) DEF spawnOpen
<1>4. ASSUME NEW t \in Thread, spawnReturns(t) PROVE SourceInv'
  BY <1>4, SMTT(30) DEF spawnReturns, publish
<1>5. ASSUME NEW t \in Thread, NEW w \in Child, execute(t, w) \/ closeConnection(t, w) PROVE SourceInv'
  BY <1>5, SMTT(30) DEF execute, closeConnection
<1>6. ASSUME NEW t \in Thread, submit(t) \/ executeReturns(t) PROVE SourceInv'
  BY <1>6, SMTT(30) DEF submit, executeReturns, runEnter, runExit
<1>7. ASSUME NEW t \in Thread, markClosed(t) PROVE SourceInv'
  BY <1>7, SMTT(30) DEF markClosed
<1>8. ASSUME NEW t \in Thread, stopWorker(t) \/ stopReturns(t) PROVE SourceInv'
  BY <1>8, SMTT(30) DEF stopWorker, stopReturns, stopEnter, stopExit
<1>9. ASSUME NEW t \in Thread, stopThrows(t) PROVE SourceInv'
  BY <1>9, SMTT(30) DEF stopThrows, stopExit
<1>10. ASSUME NEW t \in Thread, connectionClosed(t) PROVE SourceInv'
  BY <1>10, SMTT(30) DEF connectionClosed
<1>11. ASSUME NEW t \in Thread, closeMark(t) PROVE SourceInv'
  <2>1. /\ UNCHANGED <<state, at, connections, conClosed, ownerHeld, stopFailed>> /\ dsClosed' = TRUE
        /\ pc[t] = "close" /\ pc' = [pc EXCEPT ![t] = "closeAll"]
        /\ todo' = [todo EXCEPT ![t] = connections]
        /\ listed' = IF dsClosed THEN listed ELSE connections
    BY <1>11, Zenon DEF closeMark
  <2>2. ~stopFailed => MarkedInv'
    BY <2>1, SMTT(30)
  <2>3. ~stopFailed => \A w \in listed' : w \in connections \/ state[w] = "closed"
    BY <2>1
  <2>4. ASSUME NEW u \in Thread, closer(u)', NEW w \in listed', ~stopFailed
        PROVE  w \in todo'[u] \/ conClosed[w] \/ state[w] = "closed"
    <3>1. CASE u = t
      BY <2>1, <2>3, <2>4, <3>1
    <3>2. CASE u # t
      BY <2>1, <2>4, <3>2
    <3> QED
      BY <3>1, <3>2, Zenon
  <2>5. ~ownerHeld /\ ~stopFailed => \A w \in listed' : conClosed[w] \/ state[w] = "closed"
    BY <2>1
  <2> QED
    BY <2>1, <2>2, <2>3, <2>4, <2>5, SMTT(30)
<1>12. ASSUME NEW t \in Thread, closeNext(t) PROVE SourceInv'
  BY <1>12, SMTT(30) DEF closeNext
<1>13. ASSUME NEW t \in Thread, closeRuntime(t) PROVE SourceInv'
  BY <1>13, SMTT(30) DEF closeRuntime
<1>14. ASSUME NEW t \in Thread, releaseOwner(t) PROVE SourceInv'
  BY <1>14, SMTT(30) DEF releaseOwner
<1> QED
  BY <1>1, <1>2, <1>3, <1>4, <1>5, <1>6, <1>7, <1>8, <1>9, <1>10, <1>11, <1>12, <1>13, <1>14, Zenon DEF Next, goOn

\* The initial states satisfy SourceInv.
LEMMA SourceStart == Init => SourceInv
BY Zenon DEF Init, WorkerInit, SourceInv, MarkedInv, ListedInv, closer, SourceTypes, Stopping

\* "Closes all open connections, ... then releases the sole-owner lock"
\* (SqliteDataSource.close), for any number of threads that open, close and execute
\* at once: at the release every connection that was open when the close began is
\* closed, or a thread is at the stop of its worker, unless a stop threw.  That no
\* worker at all is alive then is false with two threads (MCSqliteDataSourceRace.cfg).
THEOREM ListedAreClosed == Spec => []ClosedBeforeRelease
<1>1. SourceInv /\ [Next]_vars => SourceInv'
  <2>1. SourceInv /\ [Next]_vars => SourceTypes'
    BY SourceTypesStep, Zenon DEF SourceInv
  <2> QED
    BY <2>1, SourceStep, Zenon
<1>2. SourceInv => ClosedBeforeRelease
  BY Zenon DEF SourceInv, MarkedInv, ListedInv, SourceTypes, ClosedBeforeRelease
<1> QED
  BY SourceStart, <1>1, <1>2, PTL DEF Spec

-----------------------------------------------------------------------------
(* SqliteWal *)

\* The writer is one of the workers; none of them stands for "no worker".
WalConstants == Writer \in WChild /\ Nothing \notin WChild

Busy == {"exec", "borrowed", "query", "giveBack", "stop", "stopping", "stopped", "release"}

\* Types of the control state; nobody calls before open has returned.
ControlInv ==
    /\ wstate \in [WChild -> {"absent", "live", "closing", "closed"}]
    /\ wpc \in [WThread -> Busy \cup {"idle"}]
    /\ wat \in [WThread -> WChild \cup {Nothing}]
    /\ wtodo \in [WThread -> SUBSET WChild]
    /\ phase \in {"opening", "open", "failed"}
    /\ phase # "open" => \A t \in WThread : wpc[t] = "idle"

\* A closing thread has stopped every worker but those it has still to stop;
\* one that goes on to release the owner lock has stopped all, or failed.
CloseInv ==
    /\ \A t \in WThread :
          /\ wpc[t] \in {"stop", "stopping", "stopped"} =>
                \A w \in WChild :
                    \/ w \in wtodo[t] \/ wstate[w] = "closed"
                    \/ w = wat[t] /\ wpc[t] # "stopped"
          /\ wpc[t] = "release" /\ ~wstopFailed => \A w \in WChild : wstate[w] = "closed"
    /\ CloseIsLast

\* The control invariant holds initially and is kept by every step of the
\* threads and of open.
LEMMA ControlStep == ASSUME WalConstants, ControlInv, [W!Next]_W!vars PROVE ControlInv'
<1> USE DEF WalConstants, ControlInv, Busy
<1>1. CASE UNCHANGED W!vars
  BY <1>1, Zenon DEF W!vars, W!workerVars, W!walVars
<1>2. CASE W!openFails
  BY <1>2, Zenon DEF W!openFails, W!workerVars
<1>3. ASSUME NEW w \in WChild, W!open(w) PROVE ControlInv'
  BY <1>3, Zenon DEF W!open, W!publish
<1>4. ASSUME NEW t \in WThread, W!exec(t) \/ W!execReturns(t) PROVE ControlInv'
  BY <1>4, Zenon DEF W!exec, W!execReturns, W!runEnter, W!runExit, W!gotoAt, W!done, W!walVars
<1>5. ASSUME NEW t \in WThread, NEW r \in W!Reader, W!borrow(t, r) PROVE ControlInv'
  BY <1>5, Zenon DEF W!borrow, W!gotoAt, W!workerVars, W!Reader
<1>6. ASSUME NEW t \in WThread, W!query(t) \/ W!queryReturns(t) \/ W!giveBack(t) PROVE ControlInv'
  BY <1>6, Zenon DEF W!query, W!queryReturns, W!giveBack, W!runEnter, W!runExit, W!goto, W!gotoAt, W!done, W!walVars, W!workerVars
<1>7. ASSUME NEW t \in WThread, W!close(t) \/ W!closeNext(t) \/ W!closeRuntime(t) \/ W!releaseOwner(t)
      PROVE ControlInv'
  BY <1>7 DEF W!close, W!closeNext, W!closeRuntime, W!releaseOwner, W!gotoAt, W!done, W!workerVars, W!Reader
<1>8. ASSUME NEW t \in WThread, W!stopWorker(t) \/ W!stopReturns(t) \/ W!stopThrows(t) PROVE ControlInv'
  BY <1>8, Zenon DEF W!stopWorker, W!stopReturns, W!stopThrows, W!stopEnter, W!stopExit, W!goto, W!gotoAt, W!walVars, W!workerVars
<1> QED
  BY <1>1, <1>2, <1>3, <1>4, <1>5, <1>6, <1>7, <1>8, Zenon DEF W!Next, W!goOn

\* PoolConserved is kept: only borrow takes a reader out, for a thread that then
\* is its only borrower, and only the borrower's giveBack puts it in again.
LEMMA PoolStep ==
    ASSUME WalConstants, ControlInv, ControlInv', PoolConserved, [W!Next]_W!vars
    PROVE  PoolConserved'
<1> USE DEF WalConstants, ControlInv, PoolConserved, W!PoolConserved, W!borrowers, W!Reader
<1>1. CASE UNCHANGED W!vars
  BY <1>1 DEF W!vars, W!workerVars, W!walVars
<1>2. CASE W!openFails
  BY <1>2, Zenon DEF W!openFails
<1>3. ASSUME NEW w \in WChild, W!open(w) PROVE PoolConserved'
  BY <1>3, ZenonT(30) DEF W!open
<1>4. ASSUME NEW t \in WThread, W!exec(t) \/ W!execReturns(t) PROVE PoolConserved'
  BY <1>4 DEF W!exec, W!execReturns, W!gotoAt, W!done, W!walVars
<1>5. ASSUME NEW t \in WThread, NEW x \in W!Reader, W!borrow(t, x) PROVE PoolConserved'
  <2> SUFFICES ASSUME NEW r \in W!Reader
               PROVE  (IF r \in pool THEN W!borrowers(r) = {} ELSE \E u \in WThread : W!borrowers(r) = {u})'
    BY Zenon
  <2>1. CASE r = x
    BY <1>5, <2>1 DEF W!borrow, W!gotoAt
  <2>2. CASE r # x
    BY <1>5, <2>2 DEF W!borrow, W!gotoAt
  <2> QED
    BY <2>1, <2>2, Zenon
<1>6. ASSUME NEW t \in WThread, W!query(t) \/ W!queryReturns(t) PROVE PoolConserved'
  <2>1. phase' = phase /\ pool' = pool /\ wat' = wat
    BY <1>6, Zenon DEF W!query, W!queryReturns, W!goto, W!walVars
  <2>2. \A u \in WThread : wpc[u] \in {"borrowed", "query", "giveBack"}
                           <=> wpc'[u] \in {"borrowed", "query", "giveBack"}
    BY <1>6 DEF W!query, W!queryReturns, W!goto
  <2>3. \A r \in W!Reader : W!borrowers(r)' = W!borrowers(r)
    BY <2>1, <2>2, Zenon
  <2> QED
    BY <2>1, <2>3, Zenon
<1>7. ASSUME NEW t \in WThread, W!giveBack(t) PROVE PoolConserved'
  <2> SUFFICES ASSUME NEW r \in W!Reader
               PROVE  (IF r \in pool THEN W!borrowers(r) = {} ELSE \E u \in WThread : W!borrowers(r) = {u})'
    BY Zenon
  <2>0. phase = "open"
    BY <1>7, Zenon DEF W!giveBack
  <2>1. CASE r = wat[t]
    BY <1>7, <2>0, <2>1 DEF W!giveBack, W!done, W!gotoAt
  <2>2. CASE r # wat[t]
    BY <1>7, <2>0, <2>2 DEF W!giveBack, W!done, W!gotoAt
  <2> QED
    BY <2>1, <2>2, Zenon
<1>8. ASSUME NEW t \in WThread, W!close(t) \/ W!closeNext(t) \/ W!closeRuntime(t) \/ W!releaseOwner(t)
      PROVE PoolConserved'
  BY <1>8 DEF W!close, W!closeNext, W!closeRuntime, W!releaseOwner, W!gotoAt, W!done
<1>9. ASSUME NEW t \in WThread, W!stopWorker(t) \/ W!stopReturns(t) \/ W!stopThrows(t) PROVE PoolConserved'
  BY <1>9 DEF W!stopWorker, W!stopReturns, W!stopThrows, W!goto, W!gotoAt, W!walVars
<1> QED
  BY <1>1, <1>2, <1>3, <1>4, <1>5, <1>6, <1>7, <1>8, <1>9, Zenon DEF W!Next, W!goOn

\* CloseInv is kept: a worker that was stopped stays so, and a closing thread
\* moves a worker from todo to at, stops it, and goes on.
LEMMA CloseStep ==
    ASSUME WalConstants, ControlInv, ControlInv', CloseInv, [W!Next]_W!vars
    PROVE  CloseInv'
<1> USE DEF WalConstants, ControlInv, CloseInv, CloseIsLast, W!CloseIsLast
<1>1. CASE UNCHANGED W!vars
  BY <1>1, Zenon DEF W!vars, W!workerVars, W!walVars
<1>2. CASE W!openFails
  BY <1>2, Zenon DEF W!openFails, W!workerVars
<1>3. ASSUME NEW w \in WChild, W!open(w) PROVE CloseInv'
  BY <1>3, Zenon DEF W!open, W!publish
<1>4. ASSUME NEW t \in WThread, W!exec(t) \/ W!execReturns(t) PROVE CloseInv'
  BY <1>4 DEF W!exec, W!execReturns, W!runEnter, W!runExit, W!gotoAt, W!done, W!walVars
<1>5. ASSUME NEW t \in WThread, NEW x \in W!Reader, W!borrow(t, x) PROVE CloseInv'
  BY <1>5, Zenon DEF W!borrow, W!gotoAt, W!workerVars
<1>6. ASSUME NEW t \in WThread, W!query(t) \/ W!queryReturns(t) \/ W!giveBack(t) PROVE CloseInv'
  BY <1>6 DEF W!query, W!queryReturns, W!giveBack, W!runEnter, W!runExit, W!goto, W!gotoAt, W!done, W!walVars, W!workerVars
<1>7. ASSUME NEW t \in WThread, W!close(t) PROVE CloseInv'
  BY <1>7, Zenon DEF W!close, W!gotoAt, W!workerVars, W!Reader
<1>8. ASSUME NEW t \in WThread, W!closeNext(t) \/ W!closeRuntime(t) \/ W!releaseOwner(t) PROVE CloseInv'
  BY <1>8 DEF W!closeNext, W!closeRuntime, W!releaseOwner, W!gotoAt, W!done, W!workerVars
<1>9. ASSUME NEW t \in WThread, W!stopWorker(t) PROVE CloseInv'
  BY <1>9 DEF W!stopWorker, W!stopEnter, W!goto, W!walVars, W!workerVars
<1>10. ASSUME NEW t \in WThread, W!stopReturns(t) \/ W!stopThrows(t) PROVE CloseInv'
  BY <1>10 DEF W!stopReturns, W!stopThrows, W!stopExit, W!goto, W!gotoAt, W!walVars, W!workerVars
<1> QED
  BY <1>1, <1>2, <1>3, <1>4, <1>5, <1>6, <1>7, <1>8, <1>9, <1>10, Zenon DEF W!Next, W!goOn

\* The three invariants hold when open begins.
LEMMA WalStart == W!Init => ControlInv /\ PoolConserved /\ CloseInv
BY DEF W!Init, W!WorkerInit, ControlInv, Busy, PoolConserved, W!PoolConserved, CloseInv, CloseIsLast, W!CloseIsLast

\* A reader is in the pool or borrowed by exactly one thread of SqliteWal,
\* whatever queries throw and whoever closes meanwhile.
THEOREM ReadersConserved == ASSUME WalConstants PROVE W!Spec => []PoolConserved
<1>1. W!Init => ControlInv /\ PoolConserved
  BY WalStart, Zenon
<1>2. ControlInv /\ PoolConserved /\ [W!Next]_W!vars => ControlInv' /\ PoolConserved'
  BY ControlStep, PoolStep, Zenon
<1> QED
  BY <1>1, <1>2, PTL DEF W!Spec

\* SqliteWal.close closes the runtime and releases the owner lock after every
\* worker is stopped, however many threads call it, unless a stop threw.
THEOREM ClosedLast == ASSUME WalConstants PROVE W!Spec => []CloseIsLast
<1>1. W!Init => ControlInv /\ CloseInv
  BY WalStart, Zenon
<1>2. ControlInv /\ CloseInv /\ [W!Next]_W!vars => ControlInv' /\ CloseInv'
  BY ControlStep, CloseStep, Zenon
<1>3. CloseInv => CloseIsLast
  BY Zenon DEF CloseInv
<1> QED
  BY <1>1, <1>2, <1>3, PTL DEF W!Spec
=============================================================================
