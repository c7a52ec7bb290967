-------------------- MODULE LoomScheduledExecutorService --------------------
(***************************************************************************)
(* One task of LoomScheduledExecutorService, of one of its three kinds:    *)
(* "delayed" (DelayedTask), "rate" (FixedRateTask), "delay" (PeriodicTask, *)
(* fixed delay).  Every execution is a virtual thread of its own, which    *)
(* sleeps in a FutureTask, runs the command in the task, itself a          *)
(* FutureTask, and hands a periodic task to the next thread.  Other        *)
(* threads cancel the task or shut the executor down at any moment.        *)
(*                                                                         *)
(* FutureTask and ThreadPerTaskExecutor are the JDK's: run() does nothing  *)
(* unless the task is new, cancel(true) interrupts the thread inside run() *)
(* and run() does not return between the two, execute() throws             *)
(* RejectedExecutionException after a shutdown.                            *)
(***************************************************************************)
EXTENDS Integers, Sequences, FiniteSets

CONSTANTS Canceller,   \* threads that call cancel, once each
          MaxRuns,     \* bound: executions of a periodic task
          MaxTime,     \* bound: the clock
          Period       \* of a periodic task

Run == 1..MaxRuns

VARIABLES kind, mark,      \* the task's class and first trigger time
          now,             \* timeSource
          executor,        \* "running", "shutdown" or "shutdownNow"
          task,            \* the task as a FutureTask: "new", "done", "failed" or "cancelled"
          runner,          \* the execution inside its run() or runAndReset(), or 0
          nextMark,        \* of a periodic task
          sleepTask,       \* whose sleeper the field sleepTask (childTask) is, or 0
          sleeper,         \* sleeper[k]: the k-th sleeper as a FutureTask
          pc,              \* pc[k]: where the thread of the k-th execution is
          interrupted,     \* interrupted[k]: its interrupt status
          cancel,          \* cancel[x]: where a caller of cancel is
          begun, ended     \* when the commands were begun and ended

fields == <<kind, mark, nextMark>>
vars == <<fields, now, executor, task, runner, sleepTask, sleeper, pc, interrupted, cancel, begun, ended>>

Idle == [pc |-> "idle", may |-> FALSE, sees |-> 0, result |-> FALSE]
isCancelled == task = "cancelled"
isShutdown == executor # "running"

Init ==
    /\ kind \in {"delayed", "rate", "delay"}
    /\ mark = 0 /\ nextMark = 0 /\ now = 0
    /\ executor = "running"
    /\ task = "new" /\ runner = 0
    /\ sleepTask = 0
    /\ sleeper = [k \in Run |-> "new"]
    /\ pc = [k \in Run |-> "none"]
    /\ interrupted = [k \in Run |-> FALSE]
    /\ cancel = [x \in Canceller |-> Idle]
    /\ begun = <<>> /\ ended = <<>>

\* Beyond the bound time only passes for a thread that sleeps.
tick == /\ now < MaxTime \/ \E k \in Run : pc[k] = "sleep" /\ now < nextMark
        /\ now' = now + 1
        /\ UNCHANGED <<fields, executor, task, runner, sleepTask, sleeper, pc, interrupted, cancel, begun, ended>>

goto(k, label) == pc' = [pc EXCEPT ![k] = label]

-----------------------------------------------------------------------------
(* The caller of schedule, scheduleAtFixedRate and scheduleWithFixedDelay.  *)

\* The task is built and executed on a thread of its own; a negative delay is
\* none.  The childTask of a DelayedTask exists from the start.
schedule(delay) ==
    /\ pc[1] = "none" /\ ~isShutdown
    /\ mark' = now + delay /\ nextMark' = mark'
    /\ sleepTask' = IF kind = "delayed" THEN 1 ELSE 0
    /\ goto(1, "run")
    /\ UNCHANGED <<kind, now, executor, task, runner, sleeper, interrupted, cancel, begun, ended>>

\* shutdown, and close, which waits for the threads after it.
shutdown ==
    /\ executor = "running" /\ executor' = "shutdown"
    /\ UNCHANGED <<fields, now, task, runner, sleepTask, sleeper, pc, interrupted, cancel, begun, ended>>

\* shutdownNow also interrupts every thread of the executor.
shutdownNow ==
    /\ executor # "shutdownNow" /\ executor' = "shutdownNow"
    /\ interrupted' = [k \in Run |-> interrupted[k] \/ pc[k] \notin {"none", "gone"}]
    /\ UNCHANGED <<fields, now, task, runner, sleepTask, sleeper, pc, cancel, begun, ended>>

-----------------------------------------------------------------------------
(* FutureTask.cancel of the sleeper of execution k and of the task.        *)

\* A bug: the thread is interrupted whether or not its sleeper still runs.
cancelSleeperThread(k) ==
    /\ sleeper' = IF k # 0 /\ sleeper[k] = "new" THEN [sleeper EXCEPT ![k] = "cancelled"] ELSE sleeper
    /\ interrupted' = IF k # 0 /\ pc[k] # "gone" THEN [interrupted EXCEPT ![k] = TRUE] ELSE interrupted

cancelSleeper(k) ==
    /\ sleeper' = IF k # 0 /\ sleeper[k] = "new" THEN [sleeper EXCEPT ![k] = "cancelled"] ELSE sleeper
    /\ interrupted' =
          IF k # 0 /\ sleeper[k] = "new" /\ pc[k] = "sleep" THEN [interrupted EXCEPT ![k] = TRUE] ELSE interrupted

\* The caller reads sleepTask (the childTask of a DelayedTask),
cancelRead(x, may) ==
    /\ cancel[x].pc = "idle" /\ pc[1] # "none"
    /\ cancel' = [cancel EXCEPT ![x] = [Idle EXCEPT !.pc = "sleeper", !.may = may, !.sees = sleepTask]]
    /\ UNCHANGED <<fields, now, executor, task, runner, sleepTask, sleeper, pc, interrupted, begun, ended>>

\* cancels that with an interrupt, whatever its argument,
cancelSleepTask(x) ==
    /\ cancel[x].pc = "sleeper"
    /\ cancelSleeper(cancel[x].sees)
    /\ cancel' = [cancel EXCEPT ![x].pc = "super"]
    /\ UNCHANGED <<fields, now, executor, task, runner, sleepTask, pc, begun, ended>>

\* and then the task itself.
cancelTask(x) ==
    /\ cancel[x].pc = "super"
    /\ cancel' = [cancel EXCEPT ![x].pc = "returned", ![x].result = task = "new"]
    /\ task' = IF task = "new" THEN "cancelled" ELSE task
    /\ interrupted' = IF task = "new" /\ cancel[x].may /\ runner # 0
                      THEN [interrupted EXCEPT ![runner] = TRUE] ELSE interrupted
    /\ UNCHANGED <<fields, now, executor, runner, sleepTask, sleeper, pc, begun, ended>>

-----------------------------------------------------------------------------
(* run() of the task on the thread of execution k.                         *)

\* if (isCancelled) return, in the periodic tasks; a new sleeper.
enter(k) ==
    /\ pc[k] = "run" /\ kind # "delayed"
    /\ goto(k, IF isCancelled THEN "gone" ELSE "prepare")
    /\ UNCHANGED <<fields, now, executor, task, runner, sleepTask, sleeper, interrupted, cancel, begun, ended>>

\* sleepTask = sleeper.
publishSleeper(k) ==
    /\ pc[k] = "prepare"
    /\ sleepTask' = k
    /\ goto(k, "slept")
    /\ UNCHANGED <<fields, now, executor, task, runner, sleeper, interrupted, cancel, begun, ended>>

\* sleeper.run(): nothing if it was cancelled meanwhile.
startSleep(k) ==
    /\ pc[k] = IF kind = "delayed" THEN "run" ELSE "slept"
    /\ goto(k, IF sleeper[k] = "new" THEN "sleep" ELSE "awake")
    /\ UNCHANGED <<fields, now, executor, task, runner, sleepTask, sleeper, interrupted, cancel, begun, ended>>

\* The outcome of the sleeper's run(), unless it was cancelled meanwhile.
slept(k, outcome) ==
    /\ sleeper' = [sleeper EXCEPT ![k] = IF @ = "new" THEN outcome ELSE @]
    /\ goto(k, "awake")
    /\ UNCHANGED <<fields, now, executor, task, runner, sleepTask, cancel, begun, ended>>

\* Thread.sleep throws InterruptedException and clears the interrupt status.
wakesInterrupted(k) ==
    /\ pc[k] = "sleep" /\ interrupted[k]
    /\ interrupted' = [interrupted EXCEPT ![k] = FALSE]
    /\ slept(k, "failed")

\* Sleeping.run returns at its mark; an interrupt that came after the sleep stays.
wakes(k) ==
    /\ pc[k] = "sleep" /\ now >= nextMark
    /\ slept(k, "done")
    /\ UNCHANGED interrupted

\* A bug: DelayedTask.run does not look at how its childTask ended.
childDoneAnyhow(k) ==
    /\ pc[k] = "awake" /\ kind = "delayed"
    /\ goto(k, "start")
    /\ UNCHANGED <<fields, now, executor, task, runner, sleepTask, sleeper, interrupted, cancel, begun, ended>>

\* DelayedTask.run after its childTask: a cancelled sleep cancels the task.
childDone(k) ==
    /\ pc[k] = "awake" /\ kind = "delayed"
    /\ task' = IF sleeper[k] = "cancelled" /\ task = "new" THEN "cancelled" ELSE task
    /\ goto(k, "start")
    /\ UNCHANGED <<fields, now, executor, runner, sleepTask, sleeper, interrupted, cancel, begun, ended>>

\* sleepTask = null; if (isCancelled || sleeper.isCancelled) return.
sleeperDone(k) ==
    /\ pc[k] = "awake" /\ kind # "delayed"
    /\ sleepTask' = 0
    /\ goto(k, IF isCancelled \/ sleeper[k] = "cancelled" THEN "gone" ELSE "start")
    /\ UNCHANGED <<fields, now, executor, task, runner, sleeper, interrupted, cancel, begun, ended>>

\* FutureTask.run and runAndReset: the command begins if the task is still new.
begin(k) ==
    /\ pc[k] = "start"
    /\ IF task = "new" /\ runner = 0
       THEN runner' = k /\ begun' = Append(begun, now) /\ goto(k, "command")
       ELSE goto(k, "gone") /\ UNCHANGED <<runner, begun>>
    /\ UNCHANGED <<fields, now, executor, task, sleepTask, sleeper, interrupted, cancel, ended>>

\* The command returns or throws.  A periodic task that returned is new again.
end(k, throws) ==
    /\ pc[k] = "command"
    /\ ended' = Append(ended, now)
    /\ runner' = 0
    /\ task' = IF task # "new" THEN task
               ELSE IF throws THEN "failed" ELSE IF kind = "delayed" THEN "done" ELSE "new"
    /\ goto(k, IF kind = "delayed" \/ throws \/ task # "new" THEN "gone" ELSE "ran")
    /\ UNCHANGED <<fields, now, executor, sleepTask, sleeper, interrupted, cancel, begun>>

\* if (isCancelled || rescheduler.isShutdown) return, then the next time.
ran(k) ==
    /\ pc[k] = "ran"
    /\ \/ /\ isCancelled \/ isShutdown
          /\ goto(k, "gone")
          /\ UNCHANGED nextMark
       \/ /\ ~isCancelled /\ ~isShutdown /\ k < MaxRuns
          /\ nextMark' = IF kind = "rate" THEN nextMark + Period ELSE now + Period
          /\ goto(k, "again")
    /\ UNCHANGED <<kind, mark, now, executor, task, runner, sleepTask, sleeper, interrupted, cancel, begun, ended>>

\* A bug: a rejected task is handed over again and again.
rescheduleUntilAccepted(k) ==
    /\ pc[k] = "again" /\ ~isShutdown
    /\ pc' = [pc EXCEPT ![k] = "gone", ![k + 1] = "run"]
    /\ UNCHANGED <<fields, now, executor, task, runner, sleepTask, sleeper, interrupted, cancel, begun, ended>>

\* rescheduler.execute(this) on the next thread, or cancel(false).
reschedule(k) ==
    /\ pc[k] = "again"
    /\ IF isShutdown
       THEN /\ cancelSleeper(sleepTask)
            /\ task' = IF task = "new" THEN "cancelled" ELSE task
            /\ goto(k, "gone")
       ELSE /\ pc' = [pc EXCEPT ![k] = "gone", ![k + 1] = "run"]
            /\ UNCHANGED <<task, sleeper, interrupted>>
    /\ UNCHANGED <<fields, now, executor, runner, sleepTask, cancel, begun, ended>>

step(k) ==
    \/ enter(k) \/ publishSleeper(k) \/ startSleep(k) \/ wakesInterrupted(k) \/ wakes(k) \/ childDone(k) \/ sleeperDone(k)
    \/ begin(k) \/ ran(k) \/ reschedule(k)
    \/ \E throws \in BOOLEAN : end(k, throws)

cancelStep(x) == cancelSleepTask(x) \/ cancelTask(x)

Next ==
    \/ tick \/ shutdown \/ shutdownNow
    \/ \E delay \in 0..1 : schedule(delay)
    \/ \E x \in Canceller, may \in BOOLEAN : cancelRead(x, may)
    \/ \E x \in Canceller : cancelStep(x)
    \/ \E k \in Run : step(k)

\* Time passes, and threads that can go on do; a command ends.
Spec ==
    /\ Init /\ [][Next]_vars
    /\ WF_vars(tick)
    /\ \A k \in Run : WF_vars(step(k))
    /\ \A x \in Canceller : WF_vars(cancelStep(x))

-----------------------------------------------------------------------------
\* The type invariant of a task.
ExecutorTypeOK ==
    /\ now \in Nat /\ task \in {"new", "done", "failed", "cancelled"}
    /\ runner \in Run \cup {0} /\ sleepTask \in Run \cup {0}
    /\ \A k \in Run : sleeper[k] \in {"new", "done", "failed", "cancelled"}
    /\ Len(ended) \in {Len(begun), Len(begun) - 1}

\* "initialDelay, then initialDelay + period, then initialDelay + 2 * period"
\* (scheduleAtFixedRate), "the given delay between the termination of one
\* execution and the commencement of the next" (scheduleWithFixedDelay): unless
\* shutdownNow interrupts the sleep no command begins before its time, a fixed
\* rate does not drift, and an execution ends before the next begins.
KeepsSchedule ==
    executor # "shutdownNow" =>
        \A i \in DOMAIN begun :
            /\ begun[i] >= IF kind = "rate" THEN mark + (i - 1) * Period ELSE mark
            /\ i > 1 => /\ i - 1 \in DOMAIN ended
                        /\ begun[i] >= ended[i - 1]
                        /\ kind = "delay" => begun[i] >= ended[i - 1] + Period

\* cancel(false) does not interrupt a command, although it cancels the sleep
\* before the command with an interrupt and reads from another thread whose
\* sleep that is: a command has its interrupt status set only after
\* shutdownNow or a cancel(true).
CancelSparesCommand ==
    \A k \in Run : pc[k] = "command" /\ interrupted[k] =>
        executor = "shutdownNow" \/ \E x \in Canceller : cancel[x].may

\* After shutdown every thread of the task ends, a periodic one after at most
\* the execution it sleeps for: close, which awaits termination, returns.
ShutdownEnds == isShutdown ~> \A k \in Run : pc[k] \in {"none", "gone"}
=============================================================================
