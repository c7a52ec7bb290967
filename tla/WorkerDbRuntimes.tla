-------------------------- MODULE WorkerDbRuntimes --------------------------
(***************************************************************************)
(* WorkerDbPort.kt: the JDBC driver's ports and the registry of runtimes   *)
(* they share.  There is one counted runtime per path, and one for all     *)
(* :memory: databases (path Memory); openFile, openMemory, releaseFile and *)
(* releaseMemory hold the monitor of the registry, a port is closed        *)
(* outside it.  A port is named by its worker (module Worker).             *)
(***************************************************************************)
EXTENDS Worker, Integers, FiniteSets

CONSTANTS Path, Memory,         \* normalised paths; the key of the in-memory runtime
          fileOf,               \* the file behind each path (a function on Path)
          Runtime, NoRuntime, Nothing, \* the runtimes ever created (bounds their number)
          SharedPort            \* two threads may call close of one port at once

VARIABLES pc, at,               \* control state of a thread; its port, or the path it opens
          monitor,              \* holder of the registry's monitor
          files,                \* path -> runtime and reference count
          rtPath,               \* the path of each open runtime; else absent
          ownerLock,            \* the runtime that holds the path's DbOwnerLock
          port,                 \* worker -> its runtime and path
          portClosed,
          stopFailed,           \* ports whose worker.stop threw (history)
          abandoned             \* runtimes whose openRuntime threw (history)

registry == <<files, rtPath, ownerLock>>
portVars == <<port, portClosed, stopFailed, abandoned>>
vars == <<workerVars, pc, at, monitor, registry, portVars>>

Absent == [rt |-> NoRuntime, refs |-> 0]
NoPort == [rt |-> NoRuntime, path |-> Memory]
Open == DOMAIN rtPath           \* runtimes that exist and are not closed

Init ==
    /\ WorkerInit
    /\ pc = [t \in Thread |-> "idle"]
    /\ at = [t \in Thread |-> Nothing]
    /\ monitor = NoThread
    /\ files = [p \in Path |-> Absent]
    /\ rtPath = << >>
    /\ ownerLock = [p \in Path |-> NoRuntime]
    /\ port = [w \in Child |-> NoPort]
    /\ portClosed = [w \in Child |-> FALSE]
    /\ stopFailed = {}
    /\ abandoned = {}

goto(t, p) == pc' = [pc EXCEPT ![t] = p] /\ UNCHANGED at
gotoAt(t, p, x) == pc' = [pc EXCEPT ![t] = p] /\ at' = [at EXCEPT ![t] = x]
done(t) == gotoAt(t, "idle", Nothing)

-----------------------------------------------------------------------------
(* The registry *)

\* The first steps of openRuntime: the owner lock of a file is taken, and the
\* runtime made.  When one of these fails the lock is given back.
openRuntime(p, r) ==
    /\ r \notin Open /\ \A w \in Child : port[w].rt # r
    /\ p # Memory => ownerLock[p] = NoRuntime
    /\ rtPath' = [x \in Open \cup {r} |-> IF x = r THEN p ELSE rtPath[x]]
    /\ ownerLock' = IF p = Memory THEN ownerLock ELSE [ownerLock EXCEPT ![p] = r]

\* Mutant of release: the runtime is closed with the first port.
releaseFirst(p) ==
    /\ files' = [files EXCEPT ![p] = Absent]
    /\ rtPath' = [x \in Open \ {files[p].rt} |-> rtPath[x]]
    /\ ownerLock' = [ownerLock EXCEPT ![p] = NoRuntime]

\* releaseFile and releaseMemory: with the last reference the entry, the
\* runtime and the owner lock go.  Only releaseMemory counts without an entry.
release(p) ==
    IF files[p].rt = NoRuntime /\ p # Memory
    THEN UNCHANGED registry
    ELSE LET refs == files[p].refs - 1
         IN  IF refs > 0
             THEN /\ files' = [files EXCEPT ![p].refs = refs]
                  /\ UNCHANGED <<rtPath, ownerLock>>
             ELSE /\ files' = [files EXCEPT ![p] =
                                  [rt |-> NoRuntime, refs |-> IF p = Memory THEN refs ELSE 0]]
                  /\ rtPath' = [x \in Open \ {files[p].rt} |-> rtPath[x]]
                  /\ ownerLock' = [ownerLock EXCEPT ![p] = NoRuntime]

\* openFile and openMemory: the entry is counted and the spawn begins; without an
\* entry a runtime is made first.
open(t, p) ==
    /\ pc[t] = "idle" /\ monitor = NoThread
    /\ monitor' = t
    /\ IF files[p].rt # NoRuntime
       THEN /\ files' = [files EXCEPT ![p].refs = @ + 1]
            /\ gotoAt(t, "spawn", p)
            /\ UNCHANGED <<rtPath, ownerLock>>
       ELSE \E r \in Runtime :
               /\ openRuntime(p, r)
               /\ IF p = Memory
                  THEN /\ files' = [files EXCEPT ![p] = [rt |-> r, refs |-> @.refs + 1]]
                       /\ gotoAt(t, "spawn", p)
                  ELSE gotoAt(t, "opening", p) /\ UNCHANGED files
    /\ UNCHANGED <<workerVars, portVars>>

\* The rest of openRuntime: the database is opened for its journal mode, and
\* closed; the entry is made.
opened(t) ==
    /\ pc[t] = "opening"
    /\ files' = [files EXCEPT ![at[t]] = [rt |-> ownerLock[at[t]], refs |-> 1]]
    /\ goto(t, "spawn")
    /\ UNCHANGED <<workerVars, monitor, rtPath, ownerLock, portVars>>

\* Mutant of openFails: the lock is not given back.
openFailsLocked(t) ==
    /\ pc[t] = "opening"
    /\ abandoned' = abandoned \cup {ownerLock[at[t]]}
    /\ monitor' = NoThread
    /\ done(t)
    /\ UNCHANGED <<workerVars, registry, port, portClosed, stopFailed>>

\* One of these throws: the lock is given back; nobody closes the runtime.
openFails(t) ==
    /\ pc[t] = "opening"
    /\ ownerLock' = [ownerLock EXCEPT ![at[t]] = NoRuntime]
    /\ abandoned' = abandoned \cup {ownerLock[at[t]]}
    /\ monitor' = NoThread
    /\ done(t)
    /\ UNCHANGED <<workerVars, files, rtPath, port, portClosed, stopFailed>>

\* The port is returned ...
spawned(t, w) ==
    /\ pc[t] = "spawn"
    /\ publish(w)
    /\ port' = [port EXCEPT ![w] = [rt |-> files[at[t]].rt, path |-> at[t]]]
    /\ monitor' = NoThread
    /\ done(t)
    /\ UNCHANGED <<registry, portClosed, stopFailed, abandoned>>

\* ... or the spawn throws, and the reference is given back.
spawnFails(t) ==
    /\ pc[t] = "spawn"
    /\ release(at[t])
    /\ monitor' = NoThread
    /\ done(t)
    /\ UNCHANGED <<workerVars, portVars>>

-----------------------------------------------------------------------------
(* A port *)

submit(t, w) ==
    /\ pc[t] = "idle" /\ state[w] # "absent"
    /\ ~portClosed[w]
    /\ gotoAt(t, "submit", w)
    /\ UNCHANGED <<workerVars, monitor, registry, portVars>>

run(t) ==
    /\ pc[t] = "submit"
    /\ \/ runEnter(t, at[t]) /\ goto(t, "running")
       \/ state[at[t]] = "closed" /\ done(t) /\ UNCHANGED workerVars
    /\ UNCHANGED <<monitor, registry, portVars>>

runReturns(t) ==
    /\ pc[t] = "running"
    /\ runExit(t, at[t])
    /\ done(t)
    /\ UNCHANGED <<monitor, registry, portVars>>

\* A JDBC connection closes its port under its own monitor (WorkerDB._close).
closing(w) == \E u \in Thread : at[u] = w /\ pc[u] \in {"close", "stop", "stopping", "release"}

close(t, w) ==
    /\ pc[t] = "idle" /\ state[w] # "absent"
    /\ ~portClosed[w]
    /\ SharedPort \/ ~closing(w)
    /\ gotoAt(t, "close", w)
    /\ UNCHANGED <<workerVars, monitor, registry, portVars>>

closeMark(t) ==
    /\ pc[t] = "close"
    /\ portClosed' = [portClosed EXCEPT ![at[t]] = TRUE]
    /\ goto(t, "stop")
    /\ UNCHANGED <<workerVars, monitor, registry, port, stopFailed, abandoned>>

stopWorker(t) ==
    /\ pc[t] = "stop"
    /\ \/ stopEnter(t, at[t]) /\ goto(t, "stopping")
       \/ /\ state[at[t]] = "closed" /\ free(at[t])
          /\ goto(t, "release") /\ UNCHANGED workerVars
    /\ UNCHANGED <<monitor, registry, portVars>>

\* worker.stop returns; or it throws, after 60 s or because the session could
\* not be closed.  The reference is given back in each case (finally).
stopReturns(t) ==
    /\ pc[t] = "stopping"
    /\ stopExit(t, at[t])
    /\ goto(t, "release")
    /\ stopFailed' \in {stopFailed, stopFailed \cup {at[t]}}
    /\ UNCHANGED <<monitor, registry, port, portClosed, abandoned>>

stopTimeout(t) ==
    /\ pc[t] = "stop" /\ ~free(at[t])
    /\ goto(t, "release")
    /\ stopFailed' = stopFailed \cup {at[t]}
    /\ UNCHANGED <<workerVars, monitor, registry, port, portClosed, abandoned>>

releasePort(t) ==
    /\ pc[t] = "release" /\ monitor = NoThread
    /\ release(port[at[t]].path)
    /\ done(t)
    /\ UNCHANGED <<workerVars, monitor, portVars>>

-----------------------------------------------------------------------------
Next ==
    \E t \in Thread :
        \/ \E p \in Path : open(t, p)
        \/ \E w \in Child : spawned(t, w) \/ submit(t, w) \/ close(t, w)
        \/ opened(t) \/ openFails(t) \/ spawnFails(t) \/ run(t) \/ runReturns(t)
        \/ closeMark(t) \/ stopWorker(t) \/ stopReturns(t) \/ stopTimeout(t) \/ releasePort(t)

Spec == Init /\ [][Next]_vars

-----------------------------------------------------------------------------
(* Properties *)

\* The variables have their types, the monitor is held by an opening thread,
\* and no path with a runtime has a count below one.
RuntimesTypeOK ==
    /\ state \in [Child -> {"absent", "live", "closing", "closed"}]
    /\ owner \in [Child -> Thread \cup {NoThread}]
    /\ \A t \in Thread : at[t] \in IF pc[t] \in {"opening", "spawn"} THEN Path ELSE Child \cup {Nothing}
    /\ monitor \in {t \in Thread : pc[t] \in {"opening", "spawn"}} \cup {NoThread}
    /\ files \in [Path -> [rt : Runtime, refs : 1 .. Cardinality(Child) + 1] \cup {Absent}]
    /\ Open \subseteq Runtime /\ \A r \in Open : rtPath[r] \in Path
    /\ ownerLock \in [Path -> Runtime \cup {NoRuntime}]
    /\ port \in [Child -> [rt : Runtime \cup {NoRuntime}, path : Path]]
    /\ portClosed \in [Child -> BOOLEAN] /\ stopFailed \subseteq Child
    /\ abandoned \subseteq Open

\* "Stop the worker (calls in flight wait for the lock), then give the runtime
\* reference back; idempotent" (WorkerDbPort.close): however many ports share a
\* runtime, it stays open for every port whose worker is not yet stopped.
LivePortOnOpenRuntime ==
    \A w \in Child \ stopFailed :
        state[w] \in {"live", "closing"} =>
            port[w].rt \in Open /\ files[port[w].path].rt = port[w].rt

\* An owner lock, and a runtime that was opened, is not kept without a port that
\* will release it, whichever open, spawn or stop fails: a leaked lock would bar
\* the file until the JVM ends.  A runtime that openRuntime has given up keeps
\* its memory, and nothing else.
NoLockLeak ==
    /\ \A r \in Open \ abandoned :
          \/ \E w \in Child : port[w].rt = r /\ (~portClosed[w] \/ closing(w))
          \/ \E t \in Thread : pc[t] \in {"opening", "spawn"} /\ at[t] = rtPath[r]
    /\ \A p \in Path \ {Memory} : ownerLock[p] # NoRuntime => ownerLock[p] \in Open \ abandoned
    /\ \A r \in abandoned : \A w \in Child : port[w].rt # r

\* "One runtime per canonical path", which is to keep "one runtime per file"
\* (WorkerDbRuntimes): two runtimes on a file have separate locks and wal-indexes.
OneRuntimePerFile ==
    \A r, s \in Open \ abandoned : fileOf[rtPath[r]] = fileOf[rtPath[s]] => r = s
=============================================================================
