----------------------------- MODULE MCFacades ------------------------------
(***************************************************************************)
(* The two facades over the workers of a runtime: SqliteDataSource with    *)
(* two managing threads, one more and two connections, and SqliteWal with  *)
(* three threads, the writer and two pooled readers.                       *)
(***************************************************************************)
EXTENDS SqliteDataSource

CONSTANTS WThread, WChild, Writer

VARIABLES part,     \* which of the two a behaviour is about
          wstate, wowner, phase, wpc, wat, pool, wtodo, wrtOpen, wownerHeld, wstopFailed

walVars == <<wstate, wowner, phase, wpc, wat, pool, wtodo, wrtOpen, wownerHeld, wstopFailed>>

W == INSTANCE SqliteWal
        WITH Thread <- WThread, Child <- WChild, state <- wstate, owner <- wowner, pc <- wpc, at <- wat,
             todo <- wtodo, rtOpen <- wrtOpen, ownerHeld <- wownerHeld, stopFailed <- wstopFailed

MCInit == Init /\ W!Init /\ part \in {"dataSource", "wal"}

MCNext ==
    /\ \/ part = "dataSource" /\ Next /\ UNCHANGED walVars
       \/ part = "wal" /\ W!Next /\ UNCHANGED vars
    /\ UNCHANGED part

\* The fairness of the two facades: a call that was begun goes on.
MCSpec ==
    /\ MCInit /\ [][MCNext]_<<vars, walVars, part>>
    /\ \A t \in Thread : WF_vars(goOn(t))
    /\ \A t \in WThread : WF_walVars(W!goOn(t))

\* The properties of SqliteWal: no pooled reader is lost or doubled, ...
PoolConserved == W!PoolConserved

\* ... the runtime is closed only after every worker's stop, ...
CloseIsLast == W!CloseIsLast

\* ... and a borrowed reader comes back.
ReaderComesBack == W!ReaderComesBack
=============================================================================
