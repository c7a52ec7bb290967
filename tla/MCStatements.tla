---------------------------- MODULE MCStatements ----------------------------
(***************************************************************************)
(* The statements of SqliteDb: the statement cache and the user's objects  *)
(* with two texts of two parameters, a cache of one, two objects and two   *)
(* threads; and the retry loop around a statement, two statements, and a   *)
(* transaction, which is also left open and rolled back, with two writers. *)
(***************************************************************************)
EXTENDS Session

CONSTANTS Writer, NoWriter, Text, Retries

VARIABLES part,     \* which of the two a behaviour is about
          pc, text, tries, next, ran, inTx, writeLock

runVars == <<pc, text, tries, next, ran, inTx, writeLock>>

MCText == {<<"write">>, <<"rollback">>, <<"write", "write">>, <<"begin", "write", "write", "commit">>}

R == INSTANCE SessionRun

MCInit == Init /\ R!Init /\ part \in {"session", "retry"}

\* A session may stop, out of statement addresses; a writer that runs has a step.
Spent == part = "session" /\ UNCHANGED <<vars, runVars>>

MCNext ==
    /\ \/ part = "session" /\ Next /\ UNCHANGED runVars
       \/ part = "retry" /\ R!Next /\ UNCHANGED vars
       \/ Spent
    /\ UNCHANGED part

\* The fairness of SessionRun: the caller of a retry loop is scheduled.
MCSpec ==
    /\ MCInit /\ [][MCNext]_<<vars, runVars, part>>
    /\ \A w \in Writer : WF_runVars(R!goOn(w))

\* The properties of SessionRun: what a retry repeats, ...
RetryEffects == R!RetryEffects

\* ... and the loop ends.
RunEnds == R!RunEnds
=============================================================================
