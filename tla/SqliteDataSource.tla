-------------------------- MODULE SqliteDataSource --------------------------
(***************************************************************************)
(* SqliteDataSource.kt: a data source owns one runtime, the owner lock of  *)
(* its file and the connections it handed out; each connection owns one    *)
(* worker (module Worker).  getConnection, SqliteConnection.close and      *)
(* SqliteDataSource.close may be called by any thread at any time, and     *)
(* each reads its closed flag, acts on it and sets it in separate steps.   *)
(*                                                                         *)
(* A connection is named by its worker.                                    *)
(***************************************************************************)
EXTENDS Worker

CONSTANTS Manager,      \* the threads that open and close (all threads execute)
          Nothing

ASSUME ManagerAssumption == Manager \subseteq Thread /\ NoThread \notin Thread

VARIABLES pc, at,       \* control state of a thread, and its connection
          dsClosed,     \* SqliteDataSource.closed
          spawnLock,
          connections,
          conClosed,    \* SqliteConnection.closed
          todo,         \* connections a closing thread has still to close
          rtOpen,       \* JvmVfsRuntime.close has not run
          ownerHeld,    \* DbOwnerLock.close has not run
          stopFailed,   \* some worker.stop threw (history)
          listed        \* what the first close found in connections (history)

history == <<stopFailed, listed>>
dsVars == <<dsClosed, spawnLock, connections, conClosed, todo, rtOpen, ownerHeld, history>>
vars == <<workerVars, pc, at, dsVars>>

Init ==
    /\ WorkerInit
    /\ pc = [t \in Thread |-> "idle"]
    /\ at = [t \in Thread |-> Nothing]
    /\ dsClosed = FALSE
    /\ spawnLock = NoThread
    /\ connections = {}
    /\ conClosed = [w \in Child |-> FALSE]
    /\ todo = [t \in Thread |-> {}]
    /\ rtOpen = TRUE
    /\ ownerHeld = TRUE
    /\ stopFailed = FALSE
    /\ listed = {}

goto(t, p) == pc' = [pc EXCEPT ![t] = p] /\ UNCHANGED at
gotoAt(t, p, w) == pc' = [pc EXCEPT ![t] = p] /\ at' = [at EXCEPT ![t] = w]
done(t) == gotoAt(t, "idle", Nothing)

-----------------------------------------------------------------------------
(* getConnection *)

\* The closed flag is read before spawnLock is taken.
getConnection(t) ==
    /\ pc[t] = "idle" /\ t \in Manager
    /\ ~dsClosed
    /\ goto(t, "getConnection")
    /\ UNCHANGED <<workerVars, dsVars>>

\* SqliteWorker.spawn up to sqlite3_open, which fails on a closed runtime.
spawnOpen(t, w) ==
    /\ pc[t] = "getConnection" /\ spawnLock = NoThread
    /\ state[w] = "absent"
    /\ \/ rtOpen /\ gotoAt(t, "spawned", w) /\ spawnLock' = t
       \/ done(t) /\ UNCHANGED spawnLock
    /\ UNCHANGED <<workerVars, dsClosed, connections, conClosed, todo, rtOpen, ownerHeld, history>>

spawnReturns(t) ==
    /\ pc[t] = "spawned"
    /\ publish(at[t])
    /\ connections' = connections \cup {at[t]}
    /\ spawnLock' = NoThread
    /\ done(t)
    /\ UNCHANGED <<dsClosed, conClosed, todo, rtOpen, ownerHeld, history>>

-----------------------------------------------------------------------------
(* SqliteConnection *)

execute(t, w) ==
    /\ pc[t] = "idle" /\ state[w] # "absent"
    /\ ~conClosed[w]
    /\ gotoAt(t, "submit", w)
    /\ UNCHANGED <<workerVars, dsVars>>

\* worker.run: the closure starts, or run throws because stop was first.
submit(t) ==
    /\ pc[t] = "submit"
    /\ \/ runEnter(t, at[t]) /\ goto(t, "running")
       \/ state[at[t]] = "closed" /\ done(t) /\ UNCHANGED workerVars
    /\ UNCHANGED dsVars

executeReturns(t) ==
    /\ pc[t] = "running"
    /\ runExit(t, at[t])
    /\ done(t)
    /\ UNCHANGED dsVars

closeConnection(t, w) ==
    /\ pc[t] = "idle" /\ t \in Manager /\ state[w] # "absent"
    /\ ~conClosed[w]
    /\ gotoAt(t, "closeCon", w)
    /\ UNCHANGED <<workerVars, dsVars>>

\* The rest of SqliteConnection.close: the flag ...
markClosed(t) ==
    /\ pc[t] = "closeCon"
    /\ conClosed' = [conClosed EXCEPT ![at[t]] = TRUE]
    /\ goto(t, "stop")
    /\ UNCHANGED <<workerVars, dsClosed, spawnLock, connections, todo, rtOpen, ownerHeld, history>>

\* ... and worker.stop, which waits for the running closure, or finds that
\* another stop was first.
stopWorker(t) ==
    /\ pc[t] = "stop"
    /\ \/ stopEnter(t, at[t]) /\ goto(t, "stopping")
       \/ /\ state[at[t]] = "closed" /\ free(at[t])
          /\ goto(t, "stopped") /\ UNCHANGED workerVars
    /\ UNCHANGED dsVars

stopReturns(t) ==
    /\ pc[t] = "stopping"
    /\ stopExit(t, at[t])
    /\ goto(t, "stopped")
    /\ UNCHANGED dsVars

\* stop throws: 60 s have passed, or the session could not be closed.  The
\* exception ends SqliteConnection.close and the loop of SqliteDataSource.close.
stopThrows(t) ==
    /\ \/ pc[t] = "stop" /\ ~free(at[t]) /\ UNCHANGED workerVars
       \/ pc[t] = "stopping" /\ stopExit(t, at[t])
    /\ gotoAt(t, IF todo[t] # {} THEN "release" ELSE "idle", Nothing)
    /\ todo' = [todo EXCEPT ![t] = {}]
    /\ stopFailed' = TRUE
    /\ UNCHANGED <<dsClosed, spawnLock, connections, conClosed, rtOpen, ownerHeld, listed>>

\* onConnectionClosed; a closing data source goes on with its loop.
connectionClosed(t) ==
    /\ pc[t] = "stopped"
    /\ connections' = connections \ {at[t]}
    /\ IF todo[t] = {} THEN done(t) /\ UNCHANGED todo
       ELSE gotoAt(t, "closeAll", Nothing) /\ todo' = [todo EXCEPT ![t] = @ \ {at[t]}]
    /\ UNCHANGED <<workerVars, dsClosed, spawnLock, conClosed, rtOpen, ownerHeld, history>>

-----------------------------------------------------------------------------
(* SqliteDataSource.close *)

close(t) ==
    /\ pc[t] = "idle" /\ t \in Manager
    /\ ~dsClosed
    /\ goto(t, "close")
    /\ UNCHANGED <<workerVars, dsVars>>

\* Mutant of closeMark: the open connections are forgotten.
closeMarkEmpty(t) ==
    /\ pc[t] = "close"
    /\ dsClosed' = TRUE
    /\ listed' = IF dsClosed THEN listed ELSE connections
    /\ goto(t, "closeAll")
    /\ UNCHANGED <<workerVars, spawnLock, connections, conClosed, todo, rtOpen, ownerHeld, stopFailed>>

\* The flag, and the list of connections to close.
closeMark(t) ==
    /\ pc[t] = "close"
    /\ dsClosed' = TRUE
    /\ listed' = IF dsClosed THEN listed ELSE connections
    /\ todo' = [todo EXCEPT ![t] = connections]
    /\ goto(t, "closeAll")
    /\ UNCHANGED <<workerVars, spawnLock, connections, conClosed, rtOpen, ownerHeld, stopFailed>>

\* Mutant of closeNext: the loop waits for a connection that another thread closes.
closeNextWaits(t) ==
    /\ pc[t] = "closeAll"
    /\ \E w \in todo[t] : ~conClosed[w] /\ gotoAt(t, "closeCon", w)
    /\ UNCHANGED <<workerVars, dsVars>>

\* One turn of the loop: SqliteConnection.close returns at once when the flag
\* is set.
closeNext(t) ==
    /\ pc[t] = "closeAll"
    /\ \E w \in todo[t] :
          \/ ~conClosed[w] /\ gotoAt(t, "closeCon", w) /\ UNCHANGED todo
          \/ conClosed[w] /\ todo' = [todo EXCEPT ![t] = @ \ {w}] /\ UNCHANGED <<pc, at>>
    /\ UNCHANGED <<workerVars, dsClosed, spawnLock, connections, conClosed, rtOpen, ownerHeld, history>>

closeRuntime(t) ==
    /\ pc[t] = "closeAll" /\ todo[t] = {}
    /\ rtOpen' = FALSE
    /\ goto(t, "release")
    /\ UNCHANGED <<workerVars, dsClosed, spawnLock, connections, conClosed, todo, ownerHeld, history>>

\* finally: the owner lock.
releaseOwner(t) ==
    /\ pc[t] = "release"
    /\ ownerHeld' = FALSE
    /\ done(t)
    /\ UNCHANGED <<workerVars, dsClosed, spawnLock, connections, conClosed, todo, rtOpen, history>>

-----------------------------------------------------------------------------
goOn(t) ==
    \/ \E w \in Child : spawnOpen(t, w)
    \/ spawnReturns(t) \/ submit(t) \/ executeReturns(t)
    \/ markClosed(t) \/ stopWorker(t) \/ stopReturns(t) \/ stopThrows(t) \/ connectionClosed(t)
    \/ closeMark(t) \/ closeNext(t) \/ closeRuntime(t) \/ releaseOwner(t)

Next ==
    \E t \in Thread :
        \/ goOn(t)
        \/ getConnection(t) \/ close(t)
        \/ \E w \in Child : execute(t, w) \/ closeConnection(t, w)

Spec == Init /\ [][Next]_vars

\* A thread that can go on does; the wait for a worker is timed, so a stop that
\* does not get the lock goes on by throwing.
FairSpec == Spec /\ \A t \in Thread : WF_vars(goOn(t))

-----------------------------------------------------------------------------
(* Properties *)

\* The variables have their types, and spawnLock is held by a spawning thread.
DataSourceTypeOK ==
    /\ state \in [Child -> {"absent", "live", "closing", "closed"}]
    /\ owner \in [Child -> Thread \cup {NoThread}]
    /\ at \in [Thread -> Child \cup {Nothing}]
    /\ connections \subseteq Child /\ todo \in [Thread -> SUBSET Child]
    /\ spawnLock \in {t \in Thread : pc[t] = "spawned"} \cup {NoThread}
    /\ conClosed \in [Child -> BOOLEAN]
    /\ {dsClosed, rtOpen, ownerHeld, stopFailed} \subseteq BOOLEAN
    /\ listed \subseteq Child

\* "Closes all open connections, takes the runtime down, then releases the
\* sole-owner lock" (SqliteDataSource.close): once the lock is released no
\* worker of this data source can touch the file, unless a stop failed.
OwnerLockLast ==
    ~ownerHeld /\ ~stopFailed =>
        \A w \in Child : state[w] \in {"absent", "closed"}

\* What close does keep, whoever opens, closes and executes meanwhile: when the
\* lock is released, each connection that was open when the close began is closed,
\* or some thread is at the stop of its worker; unless a stop failed.  (That thread
\* may be a user's: close passes over a connection whose flag is set.)
ClosedBeforeRelease ==
    ~ownerHeld /\ ~stopFailed =>
        \A w \in listed :
            \/ state[w] = "closed"
            \/ \E t \in Thread : at[t] = w /\ pc[t] \in {"stop", "stopping"}

\* The close of a data source comes to its end.
CloseReturns == \A t \in Thread : pc[t] = "close" ~> pc[t] = "idle"
=============================================================================
