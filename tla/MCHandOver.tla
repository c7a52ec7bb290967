----------------------------- MODULE MCHandOver -----------------------------
(***************************************************************************)
(* Work that one thread hands to another.  The channels of the connection  *)
(* workers: one word with two callers, one with three calls in turn, a     *)
(* pool of one channel that two callers want and whose statements are      *)
(* retried, a pool of two channels.  A task of the scheduled executor with *)
(* two executions and one thread that cancels it.  The I/O handler with    *)
(* two threads of two calls each.                                          *)
(***************************************************************************)
EXTENDS ConnWorker, Sequences

CONSTANTS Canceller, MaxRuns, MaxTime, Period, Submitter, Registration, NoReg, MaxCalls

VARIABLES part,     \* which of the three a behaviour is about
          class, mark, now, executor, task, runner, nextMark, sleepTask, sleeper, tpc, interrupted,
          cancel, begun, ended,
          executionThread, permit, runnable, submittedOps, canceled, registrations, hclosed, tasks,
          loop, caller, destroyed

taskVars == <<class, mark, now, executor, task, runner, nextMark, sleepTask, sleeper, tpc, interrupted,
              cancel, begun, ended>>
handlerVars == <<executionThread, permit, runnable, submittedOps, canceled, registrations, hclosed,
                 tasks, loop, caller, destroyed>>

E == INSTANCE LoomScheduledExecutorService WITH kind <- class, pc <- tpc
H == INSTANCE LoomIoHandler WITH closed <- hclosed

Setups ==
    {[kind |-> "word", size |-> 1, threads |-> 2, requests |-> 1, retries |-> 0],
     [kind |-> "word", size |-> 1, threads |-> 1, requests |-> 3, retries |-> 0],
     [kind |-> "pair", size |-> 1, threads |-> 2, requests |-> 1, retries |-> 1],
     [kind |-> "pair", size |-> 2, threads |-> 1, requests |-> 2, retries |-> 0]}

\* A part that is not the behaviour's stays in one of its initial states.
MCInit ==
    /\ Init /\ E!Init /\ H!Init
    /\ \/ part = "channel" /\ class = "delayed"
       \/ part = "task" /\ pool = CHOOSE p \in Pools : TRUE
       \/ part = "handler" /\ class = "delayed" /\ pool = CHOOSE p \in Pools : TRUE

\* A task ends and an I/O handler parks; a channel must not get stuck.
MCNext ==
    /\ \/ part = "channel" /\ Next /\ UNCHANGED <<taskVars, handlerVars>>
       \/ part = "task" /\ E!Next /\ UNCHANGED <<vars, handlerVars>>
       \/ part = "handler" /\ H!Next /\ UNCHANGED <<vars, taskVars>>
       \/ part # "channel" /\ UNCHANGED <<vars, taskVars, handlerVars>>
    /\ UNCHANGED part

\* The fairness of each part, for the behaviours that are about it.
MCSpec ==
    /\ MCInit /\ [][MCNext]_<<vars, taskVars, handlerVars, part>>
    /\ \A ch \in AllChannels : WF_vars(part = "channel" /\ ch \in Channel /\ WorkerStep(ch))
    /\ \A th \in AllThreads : WF_vars(part = "channel" /\ th \in Thread /\ CallerStep(th))
    /\ WF_taskVars(part = "task" /\ E!tick)
    /\ \A k \in E!Run : WF_taskVars(part = "task" /\ E!step(k))
    /\ \A x \in Canceller : WF_taskVars(part = "task" /\ E!cancelStep(x))
    /\ WF_handlerVars(part = "handler" /\ H!loopStep)
    /\ \A s \in Submitter : WF_handlerVars(part = "handler" /\ H!callerStep(s))

\* The properties of the executor: a command is not begun before its time, ...
KeepsSchedule == E!KeepsSchedule

\* ... a cancel interrupts no command that it should let finish, ...
CancelSparesCommand == E!CancelSparesCommand

\* ... and a shutdown ends the threads of a task.
ShutdownEnds == E!ShutdownEnds

\* The properties of the I/O handler: a closed handle gets no event, ...
NoEventAfterClose == H!NoEventAfterClose

\* ... and no submitted operation is forgotten.
OpsHandled == H!OpsHandled
=============================================================================
