------------------------------- MODULE Worker -------------------------------
(***************************************************************************)
(* What SqliteWorker promises to the classes above it (SqliteConnection,   *)
(* WorkerDbPort, SqliteWal): closures run one at a time and only on a live *)
(* worker, and a worker is closed once, while no closure is running.       *)
(* SqliteWorker.tla implements this; the owner modules are built on it.    *)
(***************************************************************************)
CONSTANTS Thread, Child, NoThread

VARIABLES state,        \* "absent", "live", "closing" or "closed"
          owner         \* the thread inside run or stop

workerVars == <<state, owner>>

WorkerInit ==
    /\ state = [w \in Child |-> "absent"]
    /\ owner = [w \in Child |-> NoThread]

free(w) == owner[w] = NoThread

\* spawn has returned the worker.
publish(w) ==
    /\ state[w] = "absent"
    /\ state' = [state EXCEPT ![w] = "live"]
    /\ UNCHANGED owner

runEnter(t, w) ==
    /\ state[w] = "live" /\ free(w)
    /\ owner' = [owner EXCEPT ![w] = t]
    /\ UNCHANGED state

runExit(t, w) ==
    /\ state[w] = "live" /\ owner[w] = t
    /\ owner' = [owner EXCEPT ![w] = NoThread]
    /\ UNCHANGED state

stopEnter(t, w) ==
    /\ state[w] = "live" /\ free(w)
    /\ state' = [state EXCEPT ![w] = "closing"]
    /\ owner' = [owner EXCEPT ![w] = t]

stopExit(t, w) ==
    /\ state[w] = "closing" /\ owner[w] = t
    /\ state' = [state EXCEPT ![w] = "closed"]
    /\ owner' = [owner EXCEPT ![w] = NoThread]

WorkerNext ==
    \E w \in Child :
        \/ publish(w)
        \/ \E t \in Thread : runEnter(t, w) \/ runExit(t, w) \/ stopEnter(t, w) \/ stopExit(t, w)

WorkerSpec == WorkerInit /\ [][WorkerNext]_workerVars
=============================================================================
