---------------------------- MODULE SqliteWorker ----------------------------
(***************************************************************************)
(* JvmVfsRuntime.spawnPthread/closeChild/interruptDb, the thread-spawn     *)
(* dispatcher and SqliteWorker.kt: the "park-carrier" model.  A worker is  *)
(* a wasm child instance whose identity (stack, TLS, tid) is held by a     *)
(* virtual thread that sleeps inside wasi_thread_start; callers run the    *)
(* child's exports themselves, under a lock per child.                     *)
(*                                                                         *)
(* An instance has one __stack_pointer, so two threads must never execute  *)
(* in it at the same time.  The code keeps this with two locks (mainLock,  *)
(* the per-child lock) and three futures (started, shutdown, lifetime).    *)
(*                                                                         *)
(* Waiting for a lock has no effect and is not a step; waits that can time *)
(* out are.  A closure that a callback runs on its own worker re-enters    *)
(* the lock the thread has and is part of "running".                       *)
(***************************************************************************)
CONSTANTS Thread, Child, NoThread, NoChild,
          Addr          \* heap addresses of sqlite3 objects

ASSUME WorkerAssumption == NoThread \notin Thread /\ NoChild \notin Child /\ NoChild \notin Addr

VARIABLES pc, at,       \* what a thread is doing, and on which child
          mainLock,     \* holder of JvmVfsRuntime.mainLock
          vt,           \* the virtual thread of a child
          started, shutdown, lifetime,  \* the futures of the handshake
          live,         \* SqliteWorker.spawn has returned this worker
          lock,         \* SqliteWorker.lock
          closed,       \* SqliteWorker.closed
          dbPtr,        \* Session.db: never cleared (NoChild: not yet assigned)
          heap          \* whose open sqlite3 object is at an address

futures == <<started, shutdown, lifetime>>
workerLocal == <<live, lock, closed>>
vars == <<pc, at, mainLock, vt, futures, workerLocal, dbPtr, heap>>

Init ==
    /\ pc = [t \in Thread |-> "idle"]
    /\ at = [t \in Thread |-> NoChild]
    /\ mainLock = NoThread
    /\ vt = [w \in Child |-> "none"]
    /\ started = [w \in Child |-> "pending"]
    /\ shutdown = [w \in Child |-> "pending"]
    /\ lifetime = [w \in Child |-> "pending"]
    /\ live = [w \in Child |-> FALSE]
    /\ lock = [w \in Child |-> NoThread]
    /\ closed = [w \in Child |-> FALSE]
    /\ dbPtr = [w \in Child |-> NoChild]
    /\ heap = [a \in Addr |-> NoChild]

goto(t, p) == pc' = [pc EXCEPT ![t] = p] /\ UNCHANGED at
begin(t, w, p) == pc[t] = "idle" /\ pc' = [pc EXCEPT ![t] = p] /\ at' = [at EXCEPT ![t] = w]
done(t) == pc' = [pc EXCEPT ![t] = "idle"] /\ at' = [at EXCEPT ![t] = NoChild]

-----------------------------------------------------------------------------
(* Spawning *)

\* Taking mainLock and entering pthread_create on the main instance.
spawnPthread(t, w) ==
    /\ begin(t, w, "create")
    /\ vt[w] = "none"
    /\ mainLock = NoThread /\ mainLock' = t
    /\ UNCHANGED <<vt, futures, workerLocal, dbPtr, heap>>

\* started completed before wasi_thread_start has set up stack and TLS.
routeAStarted(t) ==
    /\ pc[t] = "create"
    /\ \/ /\ vt' = [vt EXCEPT ![at[t]] = "boot"] /\ goto(t, "await")
          /\ started' = [started EXCEPT ![at[t]] = "done"]
       \/ UNCHANGED <<vt, started>> /\ done(t)
    /\ mainLock' = NoThread
    /\ UNCHANGED <<shutdown, lifetime, workerLocal, dbPtr, heap>>

\* Phase1 inside pthread_create: the child is built and its thread started,
\* or -1 is returned and pthread_create fails.  Then mainLock is released.
routeA(t) ==
    /\ pc[t] = "create"
    /\ \/ vt' = [vt EXCEPT ![at[t]] = "boot"] /\ goto(t, "await")
       \/ UNCHANGED vt /\ done(t)
    /\ mainLock' = NoThread
    /\ UNCHANGED <<futures, workerLocal, dbPtr, heap>>

\* Phase2 on the new thread: detach, complete started, sleep.
routeB(w) ==
    /\ vt[w] = "boot"
    /\ vt' = [vt EXCEPT ![w] = "parked"]
    /\ started' = [started EXCEPT ![w] = "done"]
    /\ UNCHANGED <<pc, at, mainLock, shutdown, lifetime, workerLocal, dbPtr, heap>>

\* The thread dies before that: lifetime fails and passes it on to started.
vtDies(w) ==
    /\ vt[w] = "boot"
    /\ vt' = [vt EXCEPT ![w] = "gone"]
    /\ lifetime' = [lifetime EXCEPT ![w] = "failed"]
    /\ started' = [started EXCEPT ![w] = "failed"]
    /\ UNCHANGED <<pc, at, mainLock, shutdown, workerLocal, dbPtr, heap>>

\* Neither the failure of the thread nor the time limit ends the wait.
awaitStartedForever(t) ==
    /\ pc[t] = "await" /\ started[at[t]] = "done"
    /\ goto(t, "open")
    /\ UNCHANGED <<mainLock, vt, futures, workerLocal, dbPtr, heap>>

\* started.get: done, failed, or timed out after 30 s.  In the last two cases
\* the exception leaves the child behind.
awaitStarted(t) ==
    /\ pc[t] = "await"
    /\ IF started[at[t]] = "done" THEN goto(t, "open") ELSE done(t)
    /\ UNCHANGED <<mainLock, vt, futures, workerLocal, dbPtr, heap>>

\* The Session constructor: sqlite3_open_v2 allocates a sqlite3 object and
\* stores its address also when it fails, and then the constructor throws.
openSession(t) ==
    /\ pc[t] = "open"
    /\ \E a \in Addr :
          /\ heap[a] = NoChild
          /\ heap' = [heap EXCEPT ![a] = at[t]]
          /\ dbPtr' = [dbPtr EXCEPT ![at[t]] = a]
    /\ goto(t, "warmup") \/ goto(t, "undo")
    /\ UNCHANGED <<mainLock, vt, futures, workerLocal>>

\* Pragmas and SELECT 1; when that fails the session is closed.
warmup(t) ==
    /\ pc[t] = "warmup"
    /\ \/ /\ live' = [live EXCEPT ![at[t]] = TRUE] /\ done(t)
          /\ UNCHANGED heap
       \/ /\ heap' = [heap EXCEPT ![dbPtr[at[t]]] = NoChild] /\ goto(t, "undo")
          /\ UNCHANGED live
    /\ UNCHANGED <<mainLock, vt, futures, lock, closed, dbPtr>>

\* closeChild of the failure path; a second failure is swallowed.
undoChild(t) ==
    /\ pc[t] = "undo"
    /\ shutdown' = [shutdown EXCEPT ![at[t]] = "done"]
    /\ goto(t, "undoJoin")
    /\ UNCHANGED <<mainLock, vt, started, lifetime, workerLocal, dbPtr, heap>>

-----------------------------------------------------------------------------
(* Using a worker *)

\* A closure starts without the per-child lock.
runUnlocked(t, w) ==
    /\ live[w] /\ ~closed[w]
    /\ begin(t, w, "running")
    /\ UNCHANGED <<mainLock, vt, futures, workerLocal, dbPtr, heap>>

\* A closed worker makes run throw under the lock, which changes nothing.
run(t, w) ==
    /\ live[w] /\ lock[w] = NoThread /\ ~closed[w]
    /\ begin(t, w, "running")
    /\ lock' = [lock EXCEPT ![w] = t]
    /\ UNCHANGED <<mainLock, vt, futures, live, closed, dbPtr, heap>>

\* The closure returns or throws.
runReturns(t) ==
    /\ pc[t] = "running"
    /\ lock' = [lock EXCEPT ![at[t]] = NoThread]
    /\ done(t)
    /\ UNCHANGED <<mainLock, vt, futures, live, closed, dbPtr, heap>>

\* sqlite3_interrupt through the main instance, at whatever Session.db holds.
interruptDb(t, w) ==
    /\ live[w]
    /\ begin(t, w, "interrupt")
    /\ mainLock = NoThread /\ mainLock' = t
    /\ UNCHANGED <<vt, futures, workerLocal, dbPtr, heap>>

interrupted(t) ==
    /\ pc[t] = "interrupt"
    /\ mainLock' = NoThread
    /\ done(t)
    /\ UNCHANGED <<vt, futures, workerLocal, dbPtr, heap>>

\* The first use of JvmVfsRuntime.cbPtrs inside a closure (createFunction and
\* the other callback registrations) calls exports of the main instance.
cbPtrs(t) ==
    /\ pc[t] = "running"
    /\ goto(t, "cbPtrs")
    /\ UNCHANGED <<mainLock, vt, futures, workerLocal, dbPtr, heap>>

cbPtrsReturns(t) ==
    /\ pc[t] = "cbPtrs"
    /\ goto(t, "running")
    /\ UNCHANGED <<mainLock, vt, futures, workerLocal, dbPtr, heap>>

-----------------------------------------------------------------------------
(* Stopping *)

stop(t, w) ==
    /\ live[w]
    /\ begin(t, w, "stop")
    /\ UNCHANGED <<mainLock, vt, futures, workerLocal, dbPtr, heap>>

\* The closed flag is not tested after the lock is taken.
stopLockAgain(t) ==
    /\ pc[t] = "stop" /\ lock[at[t]] = NoThread
    /\ closed' = [closed EXCEPT ![at[t]] = TRUE]
    /\ lock' = [lock EXCEPT ![at[t]] = t]
    /\ goto(t, "closing")
    /\ UNCHANGED <<mainLock, vt, futures, live, dbPtr, heap>>

\* tryLock succeeds: the first caller goes on, a later one returns.
stopLock(t) ==
    /\ pc[t] = "stop" /\ lock[at[t]] = NoThread
    /\ IF closed[at[t]]
       THEN done(t) /\ UNCHANGED <<lock, closed>>
       ELSE /\ closed' = [closed EXCEPT ![at[t]] = TRUE]
            /\ lock' = [lock EXCEPT ![at[t]] = t]
            /\ goto(t, "closing")
    /\ UNCHANGED <<mainLock, vt, futures, live, dbPtr, heap>>

\* tryLock gives up after 60 s.
stopTimeout(t) ==
    /\ pc[t] = "stop" /\ lock[at[t]] # NoThread
    /\ done(t)
    /\ UNCHANGED <<mainLock, vt, futures, workerLocal, dbPtr, heap>>

\* Session.close in the child, then shutdown; an exception (a callback that
\* throws while sqlite3_close rolls back) skips the rest.
closeSession(t) ==
    /\ pc[t] = "closing"
    /\ \/ /\ heap' = [heap EXCEPT ![dbPtr[at[t]]] = NoChild]
          /\ shutdown' = [shutdown EXCEPT ![at[t]] = "done"]
          /\ goto(t, "joining")
          /\ UNCHANGED lock
       \/ /\ lock' = [lock EXCEPT ![at[t]] = NoThread]
          /\ done(t)
          /\ UNCHANGED <<heap, shutdown>>
    /\ UNCHANGED <<mainLock, vt, started, lifetime, live, closed, dbPtr>>

\* lifetime.get of closeChild: the thread has ended, or 10 s have passed.
joinLifetime(t) ==
    /\ pc[t] \in {"joining", "undoJoin"}
    /\ lock' = [w \in Child |-> IF lock[w] = t THEN NoThread ELSE lock[w]]
    /\ done(t)
    /\ UNCHANGED <<mainLock, vt, futures, live, closed, dbPtr, heap>>

\* shutdown.join returns on the carrier, which runs libc's thread exit in the
\* child ...
carrierWakes(w) ==
    /\ vt[w] = "parked" /\ shutdown[w] = "done"
    /\ vt' = [vt EXCEPT ![w] = "exiting"]
    /\ UNCHANGED <<pc, at, mainLock, futures, workerLocal, dbPtr, heap>>

\* ... and ends.
carrierEnds(w) ==
    /\ vt[w] = "exiting"
    /\ vt' = [vt EXCEPT ![w] = "gone"]
    /\ lifetime' = [lifetime EXCEPT ![w] = "done"]
    /\ UNCHANGED <<pc, at, mainLock, started, shutdown, workerLocal, dbPtr, heap>>

-----------------------------------------------------------------------------
carrier(w) == routeB(w) \/ vtDies(w) \/ carrierWakes(w) \/ carrierEnds(w)

goOn(t) ==
    \/ routeA(t) \/ awaitStarted(t) \/ openSession(t) \/ warmup(t) \/ undoChild(t)
    \/ runReturns(t) \/ interrupted(t) \/ cbPtrsReturns(t)
    \/ stopLock(t) \/ stopTimeout(t) \/ closeSession(t) \/ joinLifetime(t)

call(t, w) == spawnPthread(t, w) \/ run(t, w) \/ interruptDb(t, w) \/ stop(t, w)

Next ==
    \/ \E w \in Child : carrier(w)
    \/ \E t \in Thread : goOn(t) \/ cbPtrs(t) \/ \E w \in Child : call(t, w)

Spec == Init /\ [][Next]_vars

\* Threads that are scheduled run; closures end; a timed wait ends.
Fairness ==
    /\ \A w \in Child : WF_vars(carrier(w))
    /\ \A t \in Thread : WF_vars(goOn(t))

FairSpec == Spec /\ Fairness

-----------------------------------------------------------------------------
(* Properties *)

Pcs == {"idle", "create", "await", "open", "warmup", "undo", "undoJoin", "running",
        "cbPtrs", "interrupt", "stop", "closing", "joining"}
Future == {"pending", "done", "failed"}

\* The variables have their types.
WorkerTypeOK ==
    /\ pc \in [Thread -> Pcs]
    /\ at \in [Thread -> Child \cup {NoChild}]
    /\ mainLock \in Thread \cup {NoThread}
    /\ vt \in [Child -> {"none", "boot", "parked", "exiting", "gone"}]
    /\ started \in [Child -> Future] /\ shutdown \in [Child -> Future] /\ lifetime \in [Child -> Future]
    /\ live \in [Child -> BOOLEAN] /\ closed \in [Child -> BOOLEAN]
    /\ lock \in [Child -> Thread \cup {NoThread}]
    /\ dbPtr \in [Child -> Addr \cup {NoChild}]
    /\ heap \in [Addr -> Child \cup {NoChild}]

\* Threads that execute an export of child w.
callersIn(w) == {t \in Thread : at[t] = w /\ pc[t] \in {"open", "warmup", "running", "cbPtrs", "closing"}}

\* "Calls must be serialised per child" (ChildModule): no two callers are in
\* one child, neither while it is spawned nor while it is stopped.
OneInChild == \A w \in Child, t, u \in Thread : t \in callersIn(w) /\ u \in callersIn(w) => t = u

\* "Eager creation is fine, an eager call is not" (BUILD.md): a caller is in
\* the child only while its carrier sleeps, so neither before stack and TLS
\* are set up nor while libc's thread exit frees them.
CarrierSleeps == \A w \in Child : callersIn(w) # {} => vt[w] = "parked"

\* A closure finds its connection open: its own object is at Session.db.
RunsOnOpenDb ==
    \A t \in Thread : pc[t] \in {"running", "cbPtrs"} => heap[dbPtr[at[t]]] = at[t]

\* What the classes above see of a worker.
workerState ==
    [w \in Child |->
        IF ~live[w] THEN "absent"
        ELSE IF ~closed[w] THEN "live"
        ELSE IF lock[w] # NoThread THEN "closing" ELSE "closed"]

W == INSTANCE Worker WITH state <- workerState, owner <- lock

\* run and stop implement the worker contract.
ImplementsWorker == W!WorkerSpec

\* stop returns, and spawn returns, whoever else uses the worker.
CallsReturn == \A t \in Thread : pc[t] \in {"create", "stop"} ~> pc[t] = "idle"

\* "When no statement is running, no-op" (JvmVfsRuntime.interruptDb,
\* SqliteConnection.cancel): a cancel never hits a statement that runs on
\* another connection.
CancelsOwnStatement ==
    \A t, u \in Thread :
        pc[t] = "interrupt" /\ pc[u] = "running" /\ at[u] # at[t] => dbPtr[at[u]] # dbPtr[at[t]]

\* "Concurrent calls of main instance exports are forbidden" (BUILD.md).
OneInMain ==
    \A t, u \in Thread :
        pc[t] \in {"create", "interrupt", "cbPtrs"} /\ pc[u] \in {"create", "interrupt", "cbPtrs"} => t = u

\* "Whether or not an error occurs, the handle is to be released by
\* sqlite3_close" (sqlite3.h): when nobody is at work on child w and no worker
\* has come of it, no sqlite3 object of w is left.
FailedSpawnReleases ==
    \A w \in Child :
        ~live[w] /\ (\A t \in Thread : at[t] # w) => \A a \in Addr : heap[a] # w
=============================================================================
