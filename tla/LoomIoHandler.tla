--------------------------- MODULE LoomIoHandler ---------------------------
(***************************************************************************)
(* LoomIoHandler: registrations to which any thread submits operations,    *)
(* and one event-loop thread that handles them, parks when it handled none *)
(* and is unparked by wakeup.  Netty's event loop around it is external:   *)
(* it calls run() and then its tasks, over and over, and lets run() block  *)
(* only when no task is queued.  A park has no time limit here, so nothing *)
(* but a wakeup ends it.                                                   *)
(***************************************************************************)
EXTENDS Naturals, Sequences

CONSTANTS Submitter,    \* threads other than the event loop's
          Registration,
          NoReg,
          MaxCalls      \* bound: submits and cancels per thread

VARIABLES executionThread,   \* whether it has been set
          permit,            \* LockSupport's permit of that thread
          runnable,          \* runnableRegistrations
          submittedOps,      \* per registration, how many
          canceled,          \* the canceled registrations
          registrations,     \* the registered ones
          closed,            \* those whose handle was unregistered and closed
          tasks,             \* the event loop's queue: registrations to remove
          loop,              \* the event-loop thread: pc, registration, handled > 0
          caller,            \* per thread: pc, registration, calls made
          destroyed          \* whether prepareToDestroy has run

vars == <<executionThread, permit, runnable, submittedOps, canceled, registrations, closed, tasks, loop,
          caller, destroyed>>
queues == <<runnable, submittedOps, canceled, registrations, closed, tasks>>

Init ==
    /\ executionThread = FALSE /\ permit = FALSE
    /\ runnable = <<>> /\ tasks = <<>>
    /\ submittedOps = [r \in Registration |-> 0]
    /\ canceled = {} /\ closed = {} /\ registrations = Registration
    /\ loop = [pc |-> "run", reg |-> NoReg, handled |-> FALSE]
    /\ caller = [s \in Submitter |-> [pc |-> "out", reg |-> NoReg, calls |-> 0]]
    /\ destroyed = FALSE

isValid(r) == r \notin canceled
\* The task of cancel: if (registrations.remove(this)), unregistered and close.
remove(R) == registrations' = registrations \ R /\ closed' = closed \cup (R \cap registrations)
goto(label) == loop' = [loop EXCEPT !.pc = label]
to(s, label) == caller' = [caller EXCEPT ![s].pc = label]

-----------------------------------------------------------------------------
(* run(), on the event-loop thread.                                        *)

\* executionThread.compareAndSet(null, currentThread).
enter ==
    /\ loop.pc = "run"
    /\ executionThread' = TRUE
    /\ loop' = [pc |-> "poll", reg |-> NoReg, handled |-> FALSE]
    /\ UNCHANGED <<permit, queues, caller, destroyed>>

\* runnableRegistrations.poll(); one that is not valid any more is skipped.
pollRegistration ==
    /\ loop.pc = "poll" /\ runnable # <<>>
    /\ runnable' = Tail(runnable)
    /\ loop' = IF isValid(Head(runnable)) THEN [loop EXCEPT !.pc = "ops", !.reg = Head(runnable)] ELSE loop
    /\ UNCHANGED <<executionThread, permit, submittedOps, canceled, registrations, closed, tasks, caller, destroyed>>

\* Nothing to poll: park if nothing was handled and no task is queued.
pollNothing ==
    /\ loop.pc = "poll" /\ runnable = <<>>
    /\ goto(IF ~loop.handled /\ tasks = <<>> THEN "park" ELSE "tasks")
    /\ UNCHANGED <<executionThread, permit, queues, caller, destroyed>>

\* runSubmittedOps: submittedOps.poll().
pollOps ==
    /\ loop.pc = "ops" /\ submittedOps[loop.reg] > 0
    /\ submittedOps' = [submittedOps EXCEPT ![loop.reg] = @ - 1]
    /\ goto("valid")
    /\ UNCHANGED <<executionThread, permit, runnable, canceled, registrations, closed, tasks, caller, destroyed>>

\* No more operations: the next registration, or the deadline has passed.
opsDone ==
    /\ loop.pc = "ops" /\ submittedOps[loop.reg] = 0
    /\ \E label \in {"poll", "tasks"} : loop' = [loop EXCEPT !.pc = label, !.reg = NoReg]
    /\ UNCHANGED <<executionThread, permit, queues, caller, destroyed>>

\* A bug: runSubmittedOps without its isValid().
handleAny ==
    /\ loop.pc = "valid" /\ goto("handle")
    /\ UNCHANGED <<executionThread, permit, queues, caller, destroyed>>

\* if (!isValid()) break, and the loop over the registrations goes on.
checkValid ==
    /\ loop.pc = "valid"
    /\ \/ isValid(loop.reg) /\ goto("handle")
       \/ /\ ~isValid(loop.reg)
          /\ \E label \in {"poll", "tasks"} : loop' = [loop EXCEPT !.pc = label, !.reg = NoReg]
    /\ UNCHANGED <<executionThread, permit, queues, caller, destroyed>>

\* handle.handle(...).  The handle may cancel its own registration, whose task
\* then runs at once, on this thread.
handle(cancels) ==
    /\ loop.pc = "handle"
    /\ canceled' = IF cancels THEN canceled \cup {loop.reg} ELSE canceled
    /\ remove(IF cancels /\ isValid(loop.reg) THEN {loop.reg} ELSE {})
    /\ loop' = [loop EXCEPT !.pc = "ops", !.handled = TRUE]
    /\ UNCHANGED <<executionThread, permit, runnable, submittedOps, tasks, caller, destroyed>>

\* LockSupport.parkNanos returns when there is a permit, and takes it.
unparked ==
    /\ loop.pc = "park" /\ permit
    /\ permit' = FALSE /\ goto("tasks")
    /\ UNCHANGED <<executionThread, queues, caller, destroyed>>

\* The event loop's tasks, and run() again.
runTask ==
    /\ loop.pc = "tasks" /\ tasks # <<>>
    /\ remove({Head(tasks)}) /\ tasks' = Tail(tasks)
    /\ UNCHANGED <<executionThread, permit, runnable, submittedOps, canceled, loop, caller, destroyed>>
tasksDone ==
    /\ loop.pc = "tasks" /\ tasks = <<>> /\ goto("run")
    /\ UNCHANGED <<executionThread, permit, queues, caller, destroyed>>

\* prepareToDestroy, on the event-loop thread: every cancel() that is not
\* already another thread's runs its task here, and the queues are cleared.
prepareToDestroy ==
    /\ loop.pc = "tasks" /\ ~destroyed
    /\ destroyed' = TRUE
    /\ canceled' = canceled \cup registrations
    /\ closed' = closed \cup (registrations \ canceled)
    /\ registrations' = {} /\ runnable' = <<>>
    /\ UNCHANGED <<executionThread, permit, submittedOps, tasks, loop, caller>>

-----------------------------------------------------------------------------
(* submit and cancel on another thread.                                    *)

call(s, r, label) ==
    /\ caller[s].pc = "out" /\ caller[s].calls < MaxCalls
    /\ caller' = [caller EXCEPT ![s] = [pc |-> label, reg |-> r, calls |-> @.calls + 1]]

\* submit: if (!isValid()) return -1,
submit(s, r) ==
    /\ isValid(r) /\ call(s, r, "offerOps")
    /\ UNCHANGED <<executionThread, permit, queues, loop, destroyed>>

\* submittedOps.offer(ops),
offerOps(s) ==
    /\ caller[s].pc = "offerOps" /\ to(s, "offer")
    /\ submittedOps' = [submittedOps EXCEPT ![caller[s].reg] = @ + 1]
    /\ UNCHANGED <<executionThread, permit, runnable, canceled, registrations, closed, tasks, loop, destroyed>>

\* A bug: the registration is offered for the first queued operation only.
offerRegistrationOnce(s) ==
    /\ caller[s].pc = "offer" /\ to(s, "wakeup")
    /\ runnable' = IF submittedOps[caller[s].reg] > 1 THEN runnable ELSE Append(runnable, caller[s].reg)
    /\ UNCHANGED <<executionThread, permit, submittedOps, canceled, registrations, closed, tasks, loop, destroyed>>

\* runnableRegistrations.offer(this).
offerRegistration(s) ==
    /\ caller[s].pc = "offer" /\ to(s, "wakeup")
    /\ runnable' = Append(runnable, caller[s].reg)
    /\ UNCHANGED <<executionThread, permit, submittedOps, canceled, registrations, closed, tasks, loop, destroyed>>

\* cancel: canceled.compareAndSet(false, true),
cancel(s, r) ==
    /\ isValid(r) /\ call(s, r, "execute")
    /\ canceled' = canceled \cup {r}
    /\ UNCHANGED <<executionThread, permit, runnable, submittedOps, registrations, closed, tasks, loop, destroyed>>

\* executor.execute(task).
execute(s) ==
    /\ caller[s].pc = "execute" /\ to(s, "wakeup")
    /\ tasks' = Append(tasks, caller[s].reg)
    /\ UNCHANGED <<executionThread, permit, runnable, submittedOps, canceled, registrations, closed, loop, destroyed>>

\* executionThread.get()?.let(LockSupport::unpark).
wakeup(s) ==
    /\ caller[s].pc = "wakeup"
    /\ permit' = (permit \/ executionThread)
    /\ caller' = [caller EXCEPT ![s].pc = "out", ![s].reg = NoReg]
    /\ UNCHANGED <<executionThread, queues, loop, destroyed>>

loopStep ==
    \/ enter \/ pollRegistration \/ pollNothing \/ pollOps \/ opsDone \/ checkValid \/ unparked
    \/ runTask \/ tasksDone
    \/ \E cancels \in BOOLEAN : handle(cancels)

callerStep(s) == offerOps(s) \/ offerRegistration(s) \/ execute(s) \/ wakeup(s)

Next ==
    \/ loopStep \/ prepareToDestroy
    \/ \E s \in Submitter : callerStep(s)
    \/ \E s \in Submitter, r \in Registration : submit(s, r) \/ cancel(s, r)

\* The event loop and the callers go on; nobody has to call.
Spec ==
    /\ Init /\ [][Next]_vars
    /\ WF_vars(loopStep)
    /\ \A s \in Submitter : WF_vars(callerStep(s))

-----------------------------------------------------------------------------
\* A handle gets no event after it was unregistered and closed, although other
\* threads cancel it at any moment and a handle may cancel itself while
\* operations are queued behind the one it handles.
NoEventAfterClose == loop.pc = "handle" => loop.reg \notin closed

\* No wakeup is lost: every submitted operation is taken from its queue or its
\* registration is canceled, without a time limit on the park, also when the
\* submit comes before the first run() or between its poll and its park.
OpsHandled ==
    \A r \in Registration : submittedOps[r] > 0 ~> (submittedOps[r] = 0 \/ r \in canceled)

\* The handle of a canceled registration is closed.  prepareToDestroy violates
\* this: it clears the registrations, among them one whose cancel() another
\* thread has begun, and the task of that cancel() finds nothing to remove.
AllHandlesClosed == \A r \in Registration : r \in canceled ~> r \in closed
=============================================================================
