----------------------------- MODULE SqliteWal ------------------------------
(***************************************************************************)
(* SqliteWal.kt: one writer and a fixed pool of readers (workers, module   *)
(* Worker) on one runtime.  A query borrows a reader from the pool, runs   *)
(* on it and puts it back; close stops the workers in order, whether or    *)
(* not they are in the pool, and may be called by any thread, and again.   *)
(***************************************************************************)
EXTENDS Worker

CONSTANTS Writer,       \* the child that is the writer
          Nothing

Reader == Child \ {Writer}

VARIABLES phase,        \* "opening", "open" or "failed"
          pc, at,       \* control state of a thread, and its worker
          pool,         \* readerPool
          todo,         \* readers a closing thread has still to stop
          rtOpen, ownerHeld,
          stopFailed    \* some worker.stop threw (history)

walVars == <<phase, pool, todo, rtOpen, ownerHeld, stopFailed>>
vars == <<workerVars, pc, at, walVars>>

Init ==
    /\ WorkerInit
    /\ phase = "opening"
    /\ pc = [t \in Thread |-> "idle"]
    /\ at = [t \in Thread |-> Nothing]
    /\ pool = {}
    /\ todo = [t \in Thread |-> {}]
    /\ rtOpen = TRUE
    /\ ownerHeld = TRUE
    /\ stopFailed = FALSE

goto(t, p) == pc' = [pc EXCEPT ![t] = p] /\ UNCHANGED at
gotoAt(t, p, w) == pc' = [pc EXCEPT ![t] = p] /\ at' = [at EXCEPT ![t] = w]
done(t) == gotoAt(t, "idle", Nothing)

-----------------------------------------------------------------------------
(* open: the writer, then the readers, one after the other; with the last    *)
(* one the pool is filled.  When a spawn throws, nothing is taken back.      *)

open(w) ==
    /\ phase = "opening"
    /\ w # Writer => state[Writer] = "live"
    /\ publish(w)
    /\ LET all == \A x \in Child : state'[x] = "live"
       IN  /\ phase' = IF all THEN "open" ELSE phase
           /\ pool' = IF all THEN Reader ELSE pool
    /\ UNCHANGED <<pc, at, todo, rtOpen, ownerHeld, stopFailed>>

openFails ==
    /\ phase = "opening"
    /\ phase' = "failed"
    /\ UNCHANGED <<workerVars, pc, at, pool, todo, rtOpen, ownerHeld, stopFailed>>

-----------------------------------------------------------------------------
(* exec, on the writer *)

exec(t) ==
    /\ phase = "open" /\ pc[t] = "idle"
    /\ runEnter(t, Writer)
    /\ gotoAt(t, "exec", Writer)
    /\ UNCHANGED walVars

execReturns(t) ==
    /\ pc[t] = "exec"
    /\ runExit(t, Writer)
    /\ done(t)
    /\ UNCHANGED walVars

-----------------------------------------------------------------------------
(* borrowReader *)

\* Mutant of borrow: the reader is looked at and stays in the pool.
borrowPeek(t, r) ==
    /\ phase = "open" /\ pc[t] = "idle" /\ r \in pool
    /\ gotoAt(t, "borrowed", r)
    /\ UNCHANGED <<workerVars, walVars>>

borrow(t, r) ==
    /\ phase = "open" /\ pc[t] = "idle" /\ r \in pool
    /\ pool' = pool \ {r}
    /\ gotoAt(t, "borrowed", r)
    /\ UNCHANGED <<workerVars, phase, todo, rtOpen, ownerHeld, stopFailed>>

\* Mutant of query: on a stopped reader it throws past the finally.
queryLosing(t) ==
    /\ pc[t] = "borrowed"
    /\ \/ runEnter(t, at[t]) /\ goto(t, "query")
       \/ state[at[t]] = "closed" /\ done(t) /\ UNCHANGED workerVars
    /\ UNCHANGED walVars

\* The query runs, or throws because the reader was stopped.
query(t) ==
    /\ pc[t] = "borrowed"
    /\ \/ runEnter(t, at[t]) /\ goto(t, "query")
       \/ state[at[t]] = "closed" /\ goto(t, "giveBack") /\ UNCHANGED workerVars
    /\ UNCHANGED walVars

queryReturns(t) ==
    /\ pc[t] = "query"
    /\ runExit(t, at[t])
    /\ goto(t, "giveBack")
    /\ UNCHANGED walVars

\* finally: the reader goes back to the pool.
giveBack(t) ==
    /\ pc[t] = "giveBack"
    /\ pool' = pool \cup {at[t]}
    /\ done(t)
    /\ UNCHANGED <<workerVars, phase, todo, rtOpen, ownerHeld, stopFailed>>

-----------------------------------------------------------------------------
(* close *)

close(t) ==
    /\ phase = "open" /\ pc[t] = "idle"
    /\ todo' = [todo EXCEPT ![t] = Reader]
    /\ gotoAt(t, "stop", Writer)
    /\ UNCHANGED <<workerVars, phase, pool, rtOpen, ownerHeld, stopFailed>>

\* worker.stop waits for the running closure, or finds the worker stopped.
stopWorker(t) ==
    /\ pc[t] = "stop"
    /\ \/ stopEnter(t, at[t]) /\ goto(t, "stopping")
       \/ /\ state[at[t]] = "closed" /\ free(at[t])
          /\ goto(t, "stopped") /\ UNCHANGED workerVars
    /\ UNCHANGED walVars

stopReturns(t) ==
    /\ pc[t] = "stopping"
    /\ stopExit(t, at[t])
    /\ goto(t, "stopped")
    /\ UNCHANGED walVars

\* stop throws, which ends close but for its finally.
stopThrows(t) ==
    /\ \/ pc[t] = "stop" /\ ~free(at[t]) /\ UNCHANGED workerVars
       \/ pc[t] = "stopping" /\ stopExit(t, at[t])
    /\ gotoAt(t, "release", Nothing)
    /\ todo' = [todo EXCEPT ![t] = {}]
    /\ stopFailed' = TRUE
    /\ UNCHANGED <<phase, pool, rtOpen, ownerHeld>>

closeNext(t) ==
    /\ pc[t] = "stopped"
    /\ \E r \in todo[t] :
          /\ todo' = [todo EXCEPT ![t] = @ \ {r}]
          /\ gotoAt(t, "stop", r)
    /\ UNCHANGED <<workerVars, phase, pool, rtOpen, ownerHeld, stopFailed>>

\* Mutant of closeRuntime: the readers are not waited for.
closeRuntimeEarly(t) ==
    /\ pc[t] = "stopped"
    /\ rtOpen' = FALSE
    /\ gotoAt(t, "release", Nothing)
    /\ UNCHANGED <<workerVars, phase, pool, todo, ownerHeld, stopFailed>>

closeRuntime(t) ==
    /\ pc[t] = "stopped" /\ todo[t] = {}
    /\ rtOpen' = FALSE
    /\ gotoAt(t, "release", Nothing)
    /\ UNCHANGED <<workerVars, phase, pool, todo, ownerHeld, stopFailed>>

releaseOwner(t) ==
    /\ pc[t] = "release"
    /\ ownerHeld' = FALSE
    /\ done(t)
    /\ UNCHANGED <<workerVars, phase, pool, todo, rtOpen, stopFailed>>

-----------------------------------------------------------------------------
goOn(t) ==
    \/ execReturns(t) \/ query(t) \/ queryReturns(t) \/ giveBack(t)
    \/ stopWorker(t) \/ stopReturns(t) \/ stopThrows(t)
    \/ closeNext(t) \/ closeRuntime(t) \/ releaseOwner(t)

Next ==
    \/ openFails \/ \E w \in Child : open(w)
    \/ \E t \in Thread :
          \/ goOn(t) \/ exec(t) \/ close(t)
          \/ \E r \in Reader : borrow(t, r)

Spec == Init /\ [][Next]_vars

\* A thread that can go on does; the wait of stop is timed.
FairSpec == Spec /\ \A t \in Thread : WF_vars(goOn(t))

-----------------------------------------------------------------------------
(* Properties *)

\* The variables have their types; a thread at work on a worker names it.
WalTypeOK ==
    /\ state \in [Child -> {"absent", "live", "closing", "closed"}]
    /\ owner \in [Child -> Thread \cup {NoThread}]
    /\ \A t \in Thread : at[t] \in IF pc[t] \in {"idle", "release"} THEN {Nothing} ELSE Child
    /\ pool \subseteq Reader /\ todo \in [Thread -> SUBSET Reader]
    /\ {rtOpen, ownerHeld, stopFailed} \subseteq BOOLEAN

borrowers(r) == {t \in Thread : at[t] = r /\ pc[t] \in {"borrowed", "query", "giveBack"}}

\* A reader is in the pool or borrowed by one thread, through stops and
\* exceptions too: no query waits for another query on its reader.
PoolConserved ==
    phase = "open" => \A r \in Reader :
        IF r \in pool THEN borrowers(r) = {} ELSE \E t \in Thread : borrowers(r) = {t}

\* When close has released the owner lock, or only closed the runtime, no
\* worker is running a closure or can start one, unless a stop failed.
CloseIsLast ==
    ~(rtOpen /\ ownerHeld) /\ ~stopFailed => \A w \in Child : state[w] = "closed"

\* Every borrowed reader comes back, even when close stops it meanwhile.
ReaderComesBack ==
    \A r \in Reader : (phase = "open" /\ r \notin pool) ~> (r \in pool)

\* "Recover all from the pool (= wait for those in flight to come back), then
\* stop" (SqliteWal.close): a reader is stopped only when nobody has borrowed it.
ReadersRecalled ==
    \A r \in Reader : state[r] = "closing" => borrowers(r) = {}

\* "Delete while holding the lock, then release" (DbOwnerLock.close): the owner
\* lock is closed by its holder only; later its sidecar may be another owner's.
ClosedByHolder ==
    [][\A t \in Thread : pc[t] = "release" /\ pc'[t] = "idle" => ownerHeld]_vars
=============================================================================
