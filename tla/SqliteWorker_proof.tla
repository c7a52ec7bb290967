------------------------ MODULE SqliteWorker_proof -------------------------
(***************************************************************************)
(* The park-carrier discipline holds for any number of threads and         *)
(* workers: callers never meet in a child, and never meet its carrier.     *)
(***************************************************************************)
EXTENDS SqliteWorker, TLAPS

\* A thread at work has a child, and spawning and interrupting own mainLock.
ThreadInv ==
    \A t \in Thread :
        /\ pc[t] # "idle" => at[t] \in Child
        /\ pc[t] = "idle" => at[t] = NoChild
        /\ pc[t] \in {"create", "interrupt"} => mainLock = t
        /\ pc[t] \in {"running", "cbPtrs", "closing", "joining", "stop", "interrupt"} => live[at[t]]
        /\ pc[t] \in {"running", "cbPtrs", "closing", "joining"} => lock[at[t]] = t
        /\ pc[t] \in {"running", "cbPtrs"} => ~closed[at[t]]
        /\ pc[t] \in {"closing", "joining"} => closed[at[t]]

\* A child has one spawner, who leaves before the worker is published.
SpawnerInv ==
    /\ \A t \in Thread :
          /\ pc[t] = "create" => vt[at[t]] = "none"
          /\ pc[t] \in {"await", "open", "warmup", "undo", "undoJoin"} => vt[at[t]] # "none" /\ ~live[at[t]]
    /\ \A t, u \in Thread :
          /\ pc[t] \in {"await", "open", "warmup", "undo", "undoJoin"}
          /\ pc[u] \in {"await", "open", "warmup", "undo", "undoJoin"}
          /\ at[t] = at[u]
          => t = u

\* The lock of a worker is held by a thread that runs or stops it.
LockInv ==
    \A w \in Child :
        /\ lock[w] # NoThread =>
              at[lock[w]] = w /\ pc[lock[w]] \in {"running", "cbPtrs", "closing", "joining"}
        /\ closed[w] => live[w]

\* The futures tell where the carrier is.
CarrierInv ==
    /\ \A w \in Child :
          /\ vt[w] \in {"none", "boot"} => started[w] = "pending" /\ shutdown[w] = "pending"
          /\ vt[w] = "exiting" => shutdown[w] = "done"
          /\ vt[w] = "gone" => shutdown[w] = "done" \/ started[w] = "failed"
          /\ live[w] => started[w] = "done"
          /\ live[w] /\ ~closed[w] => shutdown[w] = "pending"
    /\ \A t \in Thread :
          /\ pc[t] \in {"open", "warmup", "undo"} => started[at[t]] = "done" /\ shutdown[at[t]] = "pending"
          /\ pc[t] \in {"await", "closing"} => shutdown[at[t]] = "pending"

\* An open connection occupies the address its session remembers.
HeapInv ==
    /\ \A w \in Child : live[w] /\ ~closed[w] => dbPtr[w] \in Addr /\ heap[dbPtr[w]] = w
    /\ \A t \in Thread :
          pc[t] \in {"warmup", "closing"} => dbPtr[at[t]] \in Addr /\ heap[dbPtr[at[t]]] = at[t]

IInv == WorkerTypeOK /\ ThreadInv /\ SpawnerInv /\ LockInv /\ CarrierInv /\ HeapInv

\* Nothing is spawned, locked or open at first.
LEMMA WorkerInitially == Init => IInv
BY WorkerAssumption
DEF Init, IInv, WorkerTypeOK, ThreadInv, SpawnerInv, LockInv, CarrierInv, HeapInv, Pcs, Future

\* The inductive step.
LEMMA WorkerStep == IInv /\ [Next]_vars => IInv'
<1> SUFFICES ASSUME IInv, [Next]_vars PROVE IInv'
  BY Zenon
<1> USE WorkerAssumption DEF IInv, WorkerTypeOK, ThreadInv, SpawnerInv, LockInv, CarrierInv,
        HeapInv, Pcs, Future, goto, begin, done, futures, workerLocal
<1>1. ASSUME NEW w \in Child, carrier(w) PROVE IInv'
  <2>1. CASE routeB(w)
    BY <2>1 DEF routeB
  <2>2. CASE vtDies(w)
    BY <2>2 DEF vtDies
  <2>3. CASE carrierWakes(w)
    BY <2>3 DEF carrierWakes
  <2>4. CASE carrierEnds(w)
    BY <2>4 DEF carrierEnds
  <2> QED
    BY <1>1, <2>1, <2>2, <2>3, <2>4, Zenon DEF carrier
<1>2. ASSUME NEW t \in Thread, goOn(t) PROVE IInv'
  <2>1. CASE routeA(t)
    <3>1. CASE vt' = [vt EXCEPT ![at[t]] = "boot"] /\ goto(t, "await")
      BY <2>1, <3>1 DEF routeA
    <3>2. CASE UNCHANGED vt /\ done(t)
      BY <2>1, <3>2 DEF routeA
    <3> QED
      BY <2>1, <3>1, <3>2, Zenon DEF routeA
  <2>2. CASE awaitStarted(t)
    <3>1. CASE started[at[t]] = "done"
      <4>1. WorkerTypeOK'
        BY <2>2, <3>1 DEF awaitStarted
      <4>2. ThreadInv'
        BY <2>2, <3>1 DEF awaitStarted
      <4>3. SpawnerInv'
        BY <2>2, <3>1 DEF awaitStarted
      <4>4. LockInv'
        BY <2>2, <3>1 DEF awaitStarted
      <4>5. CarrierInv'
        BY <2>2, <3>1 DEF awaitStarted
      <4>6. HeapInv'
        BY <2>2, <3>1 DEF awaitStarted
      <4> QED
        BY <4>1, <4>2, <4>3, <4>4, <4>5, <4>6, Zenon
    <3>2. CASE started[at[t]] # "done"
      BY <2>2, <3>2 DEF awaitStarted
    <3> QED
      BY <3>1, <3>2, Zenon
  <2>3. CASE openSession(t)
    BY <2>3 DEF openSession
  <2>4. CASE warmup(t)
    <3>1. CASE live' = [live EXCEPT ![at[t]] = TRUE] /\ done(t) /\ UNCHANGED heap
      BY <2>4, <3>1 DEF warmup
    <3>2. CASE /\ heap' = [heap EXCEPT ![dbPtr[at[t]]] = NoChild]
               /\ goto(t, "undo") /\ UNCHANGED live
      BY <2>4, <3>2 DEF warmup
    <3> QED
      BY <2>4, <3>1, <3>2, Zenon DEF warmup
  <2>5. CASE undoChild(t)
    BY <2>5 DEF undoChild
  <2>6. CASE runReturns(t)
    BY <2>6 DEF runReturns
  <2>7. CASE interrupted(t)
    BY <2>7 DEF interrupted
  <2>8. CASE cbPtrsReturns(t)
    BY <2>8 DEF cbPtrsReturns
  <2>9. CASE stopLock(t)
    <3>1. CASE closed[at[t]]
      BY <2>9, <3>1, SMTT(30) DEF stopLock
    <3>2. CASE ~closed[at[t]]
      <4>0. /\ closed' = [closed EXCEPT ![at[t]] = TRUE]
            /\ lock' = [lock EXCEPT ![at[t]] = t]
            /\ pc' = [pc EXCEPT ![t] = "closing"]
            /\ UNCHANGED <<at, mainLock, vt, started, shutdown, lifetime, live, dbPtr, heap>>
        BY <2>9, <3>2, Zenon DEF stopLock
      <4>1. WorkerTypeOK'
        BY <4>0, Zenon
      <4>2. ThreadInv'
        BY <2>9, <3>2 DEF stopLock
      <4>3. SpawnerInv'
        BY <2>9, <3>2 DEF stopLock
      <4>4. LockInv'
        BY <2>9, <3>2 DEF stopLock
      <4>5. CarrierInv'
        BY <2>9, <3>2 DEF stopLock
      <4>6. HeapInv'
        BY <2>9, <3>2 DEF stopLock
      <4> QED
        BY <4>1, <4>2, <4>3, <4>4, <4>5, <4>6, Zenon
    <3> QED
      BY <3>1, <3>2, Zenon
  <2>10. CASE stopTimeout(t)
    BY <2>10 DEF stopTimeout
  <2>11. CASE closeSession(t)
    <3>1. CASE /\ heap' = [heap EXCEPT ![dbPtr[at[t]]] = NoChild]
               /\ shutdown' = [shutdown EXCEPT ![at[t]] = "done"]
               /\ goto(t, "joining") /\ UNCHANGED lock
      BY <2>11, <3>1 DEF closeSession
    <3>2. CASE /\ lock' = [lock EXCEPT ![at[t]] = NoThread]
               /\ done(t) /\ UNCHANGED <<heap, shutdown>>
      BY <2>11, <3>2, SMTT(30) DEF closeSession
    <3> QED
      BY <2>11, <3>1, <3>2, Zenon DEF closeSession
  <2>12. CASE joinLifetime(t)
    BY <2>12 DEF joinLifetime
  <2> QED
    BY <1>2, <2>1, <2>2, <2>3, <2>4, <2>5, <2>6, <2>7, <2>8, <2>9, <2>10, <2>11, <2>12, Zenon DEF goOn
<1>3. ASSUME NEW t \in Thread, cbPtrs(t) PROVE IInv'
  BY <1>3 DEF cbPtrs
<1>4. ASSUME NEW t \in Thread, NEW w \in Child, call(t, w) PROVE IInv'
  <2>1. CASE spawnPthread(t, w)
    BY <2>1 DEF spawnPthread
  <2>2. CASE run(t, w)
    BY <2>2 DEF run
  <2>3. CASE interruptDb(t, w)
    BY <2>3 DEF interruptDb
  <2>4. CASE stop(t, w)
    BY <2>4 DEF stop
  <2> QED
    BY <1>4, <2>1, <2>2, <2>3, <2>4, Zenon DEF call
<1>5. CASE UNCHANGED vars
  BY <1>5 DEF vars
<1> QED
  BY <1>1, <1>2, <1>3, <1>4, <1>5, Zenon DEF Next

\* IInv always holds.
LEMMA WorkerInvariant == Spec => []IInv
BY WorkerInitially, WorkerStep, PTL DEF Spec

\* Types are kept.
THEOREM WorkerTypes == Spec => []WorkerTypeOK
<1>1. IInv => WorkerTypeOK
  BY Zenon DEF IInv
<1> QED
  BY <1>1, WorkerInvariant, PTL

\* No two callers execute in one child (the per-child serialisation that
\* ChildModule asks of SqliteWorker).
THEOREM ChildSerialised == Spec => []OneInChild
<1>1. IInv => OneInChild
  BY DEF IInv, WorkerTypeOK, ThreadInv, SpawnerInv, OneInChild, callersIn
<1> QED
  BY <1>1, WorkerInvariant, PTL

\* A caller is in a child only while its carrier sleeps: not before started,
\* not after shutdown.
THEOREM NoEagerCall == Spec => []CarrierSleeps
<1>1. IInv => CarrierSleeps
  <2> SUFFICES ASSUME IInv, NEW w \in Child, NEW t \in Thread, at[t] = w,
                      pc[t] \in {"open", "warmup", "running", "cbPtrs", "closing"}
               PROVE  vt[w] = "parked"
    BY Zenon DEF CarrierSleeps, callersIn
  <2>1. started[w] = "done" /\ shutdown[w] = "pending"
    BY Zenon DEF IInv, WorkerTypeOK, ThreadInv, CarrierInv
  <2> QED
    BY <2>1, Zenon DEF IInv, WorkerTypeOK, CarrierInv, Future
<1> QED
  BY <1>1, WorkerInvariant, PTL

\* A closure runs on an open connection, whatever the order in which stop,
\* close and the reuse of heap addresses happen.
THEOREM ClosuresRunOnOpenDb == Spec => []RunsOnOpenDb
<1>1. IInv => RunsOnOpenDb
  BY Zenon DEF IInv, WorkerTypeOK, ThreadInv, HeapInv, RunsOnOpenDb
<1> QED
  BY <1>1, WorkerInvariant, PTL

\* run and stop, with everything around them, implement the contract that the
\* owners of workers are built on.
THEOREM WorkerContract == Spec => ImplementsWorker
<1>1. Init => W!WorkerInit
  BY Zenon DEF Init, W!WorkerInit, workerState
<1>2. IInv /\ [Next]_vars => [W!WorkerNext]_(W!workerVars)
  <2> SUFFICES ASSUME IInv, [Next]_vars, ~UNCHANGED <<live, closed, lock>> PROVE W!WorkerNext
    BY Zenon DEF W!workerVars, workerState
  <2>00. /\ workerState \in [Child -> {"absent", "live", "closing", "closed"}]
         /\ workerState' \in [Child -> {"absent", "live", "closing", "closed"}]
    BY Zenon DEF workerState
  <2>0. \A w \in Child, t \in Thread :
          W!publish(w) \/ W!runEnter(t, w) \/ W!runExit(t, w) \/ W!stopEnter(t, w) \/ W!stopExit(t, w)
            => W!WorkerNext
    BY Zenon DEF W!WorkerNext
  <2> USE WorkerAssumption DEF IInv, WorkerTypeOK, ThreadInv, SpawnerInv, LockInv
  <2>1. ASSUME NEW w \in Child, carrier(w) PROVE FALSE
    BY <2>1, Zenon DEF carrier, routeB, vtDies, carrierWakes, carrierEnds, workerLocal
  <2>2. ASSUME NEW t \in Thread, cbPtrs(t) PROVE FALSE
    BY <2>2, Zenon DEF cbPtrs, workerLocal
  <2>3. ASSUME NEW t \in Thread, NEW w \in Child, call(t, w) PROVE W!runEnter(t, w)
    BY <2>3 DEF call, spawnPthread, run, interruptDb, stop, workerLocal, begin, W!runEnter, W!free, workerState
  <2>4. ASSUME NEW t \in Thread, goOn(t) PROVE W!WorkerNext
    <3>1. CASE warmup(t)
      <4>1. PICK w \in Child : w = at[t]
        BY <3>1, Zenon DEF warmup
      <4>a. /\ live' = [live EXCEPT ![w] = TRUE] /\ closed' = closed /\ lock' = lock
            /\ ~live[w] /\ ~closed[w] /\ lock[w] = NoThread
        BY <4>1, <3>1 DEF warmup
      <4>b. \A v \in Child : workerState'[v] = IF v = w THEN "live" ELSE workerState[v]
        BY <4>a DEF workerState
      <4>c. workerState' = [workerState EXCEPT ![w] = "live"]
        BY <4>b, <2>00
      <4>2. W!publish(w)
        BY <4>a, <4>c, Zenon DEF W!publish, workerState
      <4> QED
        BY <4>2, <2>0, Zenon
    <3>2. CASE runReturns(t)
      <4>1. PICK w \in Child : w = at[t]
        BY <3>2, Zenon DEF runReturns
      <4>2. W!runExit(t, w)
        BY <4>1, <3>2 DEF runReturns, W!runExit, workerState
      <4> QED
        BY <4>2, <2>0, Zenon
    <3>3. CASE stopLock(t)
      <4>1. PICK w \in Child : w = at[t]
        BY <3>3, Zenon DEF stopLock
      <4>a. /\ live' = live /\ closed' = [closed EXCEPT ![w] = TRUE] /\ lock' = [lock EXCEPT ![w] = t]
            /\ live[w] /\ ~closed[w] /\ lock[w] = NoThread
        BY <4>1, <3>3, Zenon DEF stopLock
      <4>b. \A v \in Child : workerState'[v] = IF v = w THEN "closing" ELSE workerState[v]
        BY <4>a DEF workerState
      <4>c. workerState' = [workerState EXCEPT ![w] = "closing"]
        BY <4>b, <2>00
      <4>2. W!stopEnter(t, w)
        BY <4>a, <4>c, Zenon DEF W!stopEnter, W!free, workerState
      <4> QED
        BY <4>2, <2>0, Zenon
    <3>4. CASE closeSession(t) \/ joinLifetime(t)
      <4>1. PICK w \in Child : w = at[t]
        BY <3>4, Zenon DEF closeSession, joinLifetime
      <4>a. /\ live' = live /\ closed' = closed /\ lock' = [lock EXCEPT ![w] = NoThread]
            /\ live[w] /\ closed[w] /\ lock[w] = t
        BY <4>1, <3>4 DEF closeSession, joinLifetime
      <4>b. \A v \in Child : workerState'[v] = IF v = w THEN "closed" ELSE workerState[v]
        BY <4>a DEF workerState
      <4>c. workerState' = [workerState EXCEPT ![w] = "closed"]
        BY <4>b, <2>00
      <4>2. W!stopExit(t, w)
        BY <4>a, <4>c DEF W!stopExit, workerState
      <4> QED
        BY <4>2, <2>0, Zenon
    <3> QED
      BY <2>4, <3>1, <3>2, <3>3, <3>4, Zenon
      DEF goOn, routeA, awaitStarted, openSession, undoChild, interrupted, cbPtrsReturns,
          stopTimeout, workerLocal
  <2> QED
    BY <2>0, <2>1, <2>2, <2>3, <2>4 DEF Next, vars, workerLocal
<1> QED
  BY <1>1, <1>2, WorkerInvariant, PTL DEF Spec, ImplementsWorker, W!WorkerSpec
=============================================================================
