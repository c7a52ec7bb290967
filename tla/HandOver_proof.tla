--------------------------- MODULE HandOver_proof ---------------------------
(***************************************************************************)
(* Work handed from one thread to another, for any number of threads,      *)
(* channels, executions and registrations: the I/O handler, the scheduled  *)
(* executor and the channels of the connection workers.                    *)
(***************************************************************************)
EXTENDS MCHandOver, SequenceTheorems, TLAPS

-----------------------------------------------------------------------------
(* LoomIoHandler *)

\* Only a canceled registration is queued for its close and closed, so the check
\* of isValid on the event-loop thread, which does the closing, is enough.
HandlerInv ==
    /\ loop \in [pc : {"run", "poll", "ops", "valid", "handle", "park", "tasks"},
                 reg : Registration \cup {NoReg}, handled : BOOLEAN]
    /\ caller \in [Submitter -> [pc : {"out", "offerOps", "offer", "execute", "wakeup"},
                                 reg : Registration \cup {NoReg}, calls : Nat]]
    /\ runnable \in Seq(Registration)
    /\ tasks \in Seq(Registration \cup {NoReg})
    /\ hclosed \subseteq canceled
    /\ \A i \in 1 .. Len(tasks) : tasks[i] \in canceled
    /\ \A s \in Submitter : caller[s].pc = "execute" => caller[s].reg \in canceled
    /\ \A s \in Submitter : caller[s].pc \in {"offerOps", "offer"} => caller[s].reg \in Registration
    /\ NoEventAfterClose

\* Every step of the event loop and of the callers keeps HandlerInv.
LEMMA HandlerStep == ASSUME HandlerInv, [H!Next]_H!vars PROVE HandlerInv'
<1> USE DEF HandlerInv, NoEventAfterClose, H!NoEventAfterClose
<1>1. CASE UNCHANGED H!vars
  BY <1>1, Zenon DEF H!vars
<1>2. CASE H!enter \/ H!pollNothing \/ H!opsDone \/ H!unparked \/ H!tasksDone
  <2>1. UNCHANGED H!queues /\ caller' = caller
    BY <1>2, Zenon DEF H!enter, H!pollNothing, H!opsDone, H!unparked, H!tasksDone
  <2>2. \/ loop' = [pc |-> "poll", reg |-> NoReg, handled |-> FALSE]
        \/ \E label \in {"run", "park", "tasks"} : loop' = [loop EXCEPT !.pc = label]
        \/ \E label \in {"poll", "tasks"} : loop' = [loop EXCEPT !.pc = label, !.reg = NoReg]
    BY <1>2, Zenon DEF H!enter, H!pollNothing, H!opsDone, H!unparked, H!tasksDone, H!goto
  <2>3. loop' \in [pc : {"run", "poll", "park", "tasks"}, reg : Registration \cup {NoReg}, handled : BOOLEAN]
    <3>1. CASE loop' = [pc |-> "poll", reg |-> NoReg, handled |-> FALSE]
      BY <3>1, Zenon
    <3>2. ASSUME NEW label \in {"run", "park", "tasks"}, loop' = [loop EXCEPT !.pc = label]
          PROVE  loop' \in [pc : {"run", "poll", "park", "tasks"}, reg : Registration \cup {NoReg}, handled : BOOLEAN]
      BY <3>2, Zenon
    <3>3. ASSUME NEW label \in {"poll", "tasks"}, loop' = [loop EXCEPT !.pc = label, !.reg = NoReg]
          PROVE  loop' \in [pc : {"run", "poll", "park", "tasks"}, reg : Registration \cup {NoReg}, handled : BOOLEAN]
      BY <3>3, Zenon
    <3> QED
      BY <2>2, <3>1, <3>2, <3>3, Zenon
  <2> QED
    BY <2>1, <2>3, Zenon DEF H!queues
<1>3. CASE H!pollRegistration
  <2>1. runnable # <<>> /\ runnable' = Tail(runnable) /\ UNCHANGED <<canceled, hclosed, tasks, caller>>
    BY <1>3, Zenon DEF H!pollRegistration
  <2>2. Head(runnable) \in Registration /\ runnable' \in Seq(Registration)
    BY <2>1
  <2>3. loop' \in [pc : {"poll", "ops"}, reg : Registration \cup {NoReg}, handled : BOOLEAN]
    BY <1>3, <2>2, Zenon DEF H!pollRegistration
  <2> QED
    BY <2>1, <2>2, <2>3, Zenon
<1>4. CASE H!pollOps
  BY <1>4, Zenon DEF H!pollOps, H!goto
<1>5. CASE H!checkValid
  BY <1>5, Zenon DEF H!checkValid, H!isValid, H!goto, H!queues
<1>6. ASSUME NEW cancels \in BOOLEAN, H!handle(cancels) PROVE HandlerInv'
  BY <1>6, Zenon DEF H!handle, H!remove
<1>7. CASE H!runTask
  <2>1. tasks # <<>> /\ tasks' = Tail(tasks) /\ hclosed' \subseteq hclosed \cup {Head(tasks)}
        /\ UNCHANGED <<runnable, canceled, loop, caller>> /\ loop.pc = "tasks"
    BY <1>7, Zenon DEF H!runTask, H!remove
  <2>2. Head(tasks) = tasks[1] /\ 1 \in 1 .. Len(tasks)
    BY <2>1
  <2>3. tasks' \in Seq(Registration \cup {NoReg}) /\ \A i \in 1 .. Len(tasks') : tasks'[i] = tasks[i + 1] /\ i + 1 \in 1 .. Len(tasks)
    BY <2>1
  <2> QED
    BY <2>1, <2>2, <2>3
<1>8. CASE H!prepareToDestroy
  BY <1>8 DEF H!prepareToDestroy
<1>9. ASSUME NEW s \in Submitter, H!offerOps(s) PROVE HandlerInv'
  BY <1>9, ZenonT(30) DEF H!offerOps, H!to
<1>w. ASSUME NEW s \in Submitter, H!wakeup(s) PROVE HandlerInv'
  <2>1. /\ UNCHANGED H!queues /\ loop' = loop
        /\ caller' = [caller EXCEPT ![s] = [caller[s] EXCEPT !.pc = "out", !.reg = NoReg]]
    BY <1>w, Zenon DEF H!wakeup
  <2>2. [caller[s] EXCEPT !.pc = "out", !.reg = NoReg] \in
           [pc : {"out"}, reg : Registration \cup {NoReg}, calls : Nat]
    BY Zenon
  <2> QED
    BY <2>1, <2>2, Zenon DEF H!queues
<1>10. ASSUME NEW s \in Submitter, H!offerRegistration(s) PROVE HandlerInv'
  <2>1. /\ caller[s].pc = "offer" /\ runnable' = Append(runnable, caller[s].reg)
        /\ UNCHANGED <<tasks, canceled, hclosed, loop>>
    BY <1>10, Zenon DEF H!offerRegistration
  <2>2. runnable' \in Seq(Registration)
    BY <2>1
  <2>3. caller' = [caller EXCEPT ![s].pc = "wakeup"]
    BY <1>10, Zenon DEF H!offerRegistration, H!to
  <2> QED
    BY <2>1, <2>2, <2>3, ZenonT(30)
<1>11. ASSUME NEW s \in Submitter, H!execute(s) PROVE HandlerInv'
  <2>1. /\ caller[s].pc = "execute" /\ tasks' = Append(tasks, caller[s].reg)
        /\ UNCHANGED <<runnable, canceled, hclosed, loop>>
    BY <1>11, Zenon DEF H!execute
  <2>2. /\ tasks' \in Seq(Registration \cup {NoReg}) /\ Len(tasks') = Len(tasks) + 1
        /\ \A i \in 1 .. Len(tasks') : tasks'[i] = IF i = Len(tasks) + 1 THEN caller[s].reg ELSE tasks[i]
    BY <2>1
  <2>3. \A i \in 1 .. Len(tasks') : tasks'[i] \in canceled
    BY <2>1, <2>2
  <2>4. caller' = [caller EXCEPT ![s].pc = "wakeup"]
    BY <1>11, Zenon DEF H!execute, H!to
  <2> QED
    BY <2>1, <2>2, <2>3, <2>4, ZenonT(30)
<1>12. ASSUME NEW s \in Submitter, NEW r \in Registration, H!submit(s, r) PROVE HandlerInv'
  BY <1>12 DEF H!submit, H!call, H!queues
<1>13. ASSUME NEW s \in Submitter, NEW r \in Registration, H!cancel(s, r) PROVE HandlerInv'
  BY <1>13 DEF H!cancel, H!call
<1> QED
  BY <1>1, <1>2, <1>3, <1>4, <1>5, <1>6, <1>7, <1>8, <1>9, <1>w, <1>10, <1>11, <1>12, <1>13, Zenon
  DEF H!Next, H!loopStep, H!callerStep

\* A handle gets no event after it was unregistered and closed, whichever
\* threads cancel it, and when, and also when it cancels itself.
THEOREM ClosedHandleGetsNoEvent == H!Spec => []NoEventAfterClose
<1>1. H!Init => HandlerInv
  BY DEF H!Init, HandlerInv, NoEventAfterClose, H!NoEventAfterClose
<1>2. HandlerInv /\ [H!Next]_H!vars => HandlerInv'
  BY HandlerStep, Zenon
<1>3. HandlerInv => NoEventAfterClose
  BY Zenon DEF HandlerInv
<1> QED
  BY <1>1, <1>2, <1>3, PTL DEF H!Spec

-----------------------------------------------------------------------------
(* LoomScheduledExecutorService *)

\* A task may run, and its period is not negative.
TaskConstants == MaxRuns \in Nat \ {0} /\ Period \in Nat

Before == {"run", "prepare", "slept", "sleep", "awake", "start"}
Outcome == {"new", "done", "failed", "cancelled"}

\* Somebody called cancel(true).
MayInterrupt == \E x \in Canceller : cancel[x].may

TaskTypes ==
    /\ class \in {"delayed", "rate", "delay"}
    /\ now \in Nat /\ mark \in Nat /\ nextMark \in Nat
    /\ task \in Outcome
    /\ sleepTask \in E!Run \cup {0} /\ sleeper \in [E!Run -> Outcome]
    /\ tpc \in [E!Run -> Before \cup {"none", "command", "ran", "again", "gone"}]
    /\ interrupted \in [E!Run -> BOOLEAN]
    /\ begun \in Seq(Nat) /\ ended \in Seq(Nat)

\* A caller of cancel has no argument before its call.
CallersInv ==
    /\ cancel \in [Canceller -> [pc : {"idle", "sleeper", "super", "returned"}, may : BOOLEAN,
                                 sees : E!Run \cup {0}, result : BOOLEAN]]
    /\ \A x \in Canceller : cancel[x].pc = "idle" => ~cancel[x].may

\* The executions follow one another: one begins when those before it are over,
\* and the command runs on the thread of the current one.
ChainInv ==
    /\ \A j, k \in E!Run : j < k /\ tpc[k] # "none" => tpc[j] = "gone"
    /\ runner = 0 \/ (runner \in E!Run /\ tpc[runner] = "command")
    /\ \A k \in E!Run : tpc[k] = "command" => runner = k

\* An interrupt that is neither shutdownNow's nor a cancel(true)'s hits a sleep
\* that it cancels; a cancelled sleep is not followed by the command.
InterruptInv ==
    \A k \in E!Run : interrupted[k] =>
        \/ executor = "shutdownNow"
        \/ tpc[k] \in {"command", "ran", "again"} /\ MayInterrupt
        \/ tpc[k] \in {"sleep", "awake"} /\ sleeper[k] = "cancelled"
        \/ tpc[k] = "start" /\ task # "new"
        \/ tpc[k] = "gone"

\* Unless it is cancelled a sleep ends at its mark.
SleepInv ==
    /\ \A k \in E!Run :
          tpc[k] \in {"none", "run", "prepare", "slept", "sleep"} => sleeper[k] \in {"new", "cancelled"}
    /\ executor # "shutdownNow" => \A k \in E!Run :
          /\ tpc[k] = "awake" => sleeper[k] = "cancelled" \/ now >= nextMark
          /\ tpc[k] = "start" => task # "new" \/ now >= nextMark

\* How many commands were begun and ended when the k-th execution is under way,
\* and what its mark is.
MarkInv ==
    /\ tpc[1] = "none" => Len(begun) = 0 /\ Len(ended) = 0
    /\ \A k \in E!Run :
          /\ tpc[k] \in Before => Len(begun) = k - 1 /\ Len(ended) = k - 1
          /\ tpc[k] = "command" => Len(begun) = k /\ Len(ended) = k - 1
          /\ tpc[k] \in {"ran", "again"} => Len(begun) = k /\ Len(ended) = k
          /\ tpc[k] \in Before \cup {"command", "ran"} =>
                /\ nextMark >= mark
                /\ class = "rate" => nextMark = mark + (k - 1) * Period
          /\ tpc[k] \in {"command", "ran"} /\ executor # "shutdownNow" => now >= nextMark
          /\ tpc[k] \in Before /\ class = "delay" /\ k > 1 =>
                nextMark >= ended[k - 1] + Period
          /\ tpc[k] = "again" =>
                /\ nextMark >= mark
                /\ class = "rate" => nextMark = mark + k * Period
                /\ class = "delay" => nextMark >= ended[k] + Period
    /\ \A i \in 1 .. Len(ended) : ended[i] <= now

\* A sequence of times with one more.
LEMMA Appended ==
    ASSUME NEW s \in Seq(Nat), NEW n \in Nat
    PROVE  /\ Append(s, n) \in Seq(Nat) /\ Len(Append(s, n)) = Len(s) + 1 /\ Len(s) \in Nat
           /\ Append(s, n)[Len(s) + 1] = n
           /\ \A i \in 1 .. Len(s) : Append(s, n)[i] = s[i]
OBVIOUS

\* One execution goes and the next one comes.
LEMMA HandedOver ==
    ASSUME NEW D, NEW S, NEW f \in [D -> S], NEW k \in D, NEW l, k # l
    PROVE  \A j \in D : [f EXCEPT ![k] = "gone", ![l] = "run"][j] =
                            IF j = k THEN "gone" ELSE IF j = l THEN "run" ELSE f[j]
BY Zenon

\* The types are kept.
LEMMA TaskTypesStep == ASSUME TaskConstants, TaskTypes, [E!Next]_E!vars PROVE TaskTypes'
<1> USE DEF TaskConstants, TaskTypes, Outcome, Before
<1>1. CASE UNCHANGED E!vars
  BY <1>1, Zenon DEF E!vars, E!fields
<1>2. CASE E!tick
  BY <1>2 DEF E!tick, E!fields
<1>3. CASE E!shutdown
  BY <1>3, Zenon DEF E!shutdown, E!fields
<1>4. CASE E!shutdownNow
  BY <1>4, Zenon DEF E!shutdownNow, E!fields
<1>5. ASSUME NEW delay \in 0 .. 1, E!schedule(delay) PROVE TaskTypes'
  <2>1. /\ mark' = now + delay /\ nextMark' = mark' /\ tpc' = [tpc EXCEPT ![1] = "run"]
        /\ UNCHANGED <<class, now, task, sleeper, interrupted, begun, ended>>
        /\ sleepTask' \in {0, 1} /\ 1 \in E!Run
    BY <1>5 DEF E!schedule, E!goto, E!Run
  <2>2. mark' \in Nat /\ nextMark' \in Nat
    BY <2>1
  <2> QED
    BY <2>1, <2>2, Zenon
<1>6. ASSUME NEW x \in Canceller, NEW may \in BOOLEAN, E!cancelRead(x, may) PROVE TaskTypes'
  BY <1>6, Zenon DEF E!cancelRead, E!fields
<1>7. ASSUME NEW x \in Canceller, E!cancelSleepTask(x) PROVE TaskTypes'
  BY <1>7, Zenon DEF E!cancelSleepTask, E!cancelSleeper, E!fields
<1>8. ASSUME NEW x \in Canceller, E!cancelTask(x) PROVE TaskTypes'
  BY <1>8, Zenon DEF E!cancelTask, E!fields
<1>9. ASSUME NEW k \in E!Run, E!enter(k) PROVE TaskTypes'
  BY <1>9, Zenon DEF E!enter, E!goto, E!fields
<1>10. ASSUME NEW k \in E!Run, E!publishSleeper(k) PROVE TaskTypes'
  BY <1>10, Zenon DEF E!publishSleeper, E!goto, E!fields
<1>11. ASSUME NEW k \in E!Run, E!startSleep(k) PROVE TaskTypes'
  BY <1>11, Zenon DEF E!startSleep, E!goto, E!fields
<1>12. ASSUME NEW k \in E!Run, E!wakesInterrupted(k) PROVE TaskTypes'
  BY <1>12, Zenon DEF E!wakesInterrupted, E!slept, E!goto, E!fields
<1>13. ASSUME NEW k \in E!Run, E!wakes(k) PROVE TaskTypes'
  BY <1>13, Zenon DEF E!wakes, E!slept, E!goto, E!fields
<1>14. ASSUME NEW k \in E!Run, E!childDone(k) PROVE TaskTypes'
  BY <1>14, Zenon DEF E!childDone, E!goto, E!fields
<1>15. ASSUME NEW k \in E!Run, E!sleeperDone(k) PROVE TaskTypes'
  BY <1>15, Zenon DEF E!sleeperDone, E!isCancelled, E!goto, E!fields
<1>16. ASSUME NEW k \in E!Run, E!begin(k) PROVE TaskTypes'
  <2>1. begun' = begun \/ begun' = Append(begun, now)
    BY <1>16, Zenon DEF E!begin
  <2>2. begun' \in Seq(Nat)
    BY <2>1, Appended, Zenon
  <2>3. /\ tpc' = [tpc EXCEPT ![k] = "command"] \/ tpc' = [tpc EXCEPT ![k] = "gone"]
        /\ UNCHANGED <<class, mark, nextMark, now, task, sleepTask, sleeper, interrupted, ended>>
    BY <1>16, Zenon DEF E!begin, E!goto, E!fields
  <2> QED
    BY <2>2, <2>3, Zenon
<1>17. ASSUME NEW k \in E!Run, E!ran(k) PROVE TaskTypes'
  <2>1. /\ nextMark' \in {nextMark, nextMark + Period, now + Period}
        /\ tpc' = [tpc EXCEPT ![k] = "gone"] \/ tpc' = [tpc EXCEPT ![k] = "again"]
        /\ UNCHANGED <<class, mark, now, task, sleepTask, sleeper, interrupted, begun, ended>>
    BY <1>17, Zenon DEF E!ran, E!goto
  <2>2. nextMark' \in Nat
    BY <2>1
  <2> QED
    BY <2>1, <2>2, Zenon
<1>18. ASSUME NEW k \in E!Run, E!reschedule(k) PROVE TaskTypes'
  BY <1>18, Zenon DEF E!reschedule, E!isShutdown, E!cancelSleeper, E!goto, E!fields
<1>19. ASSUME NEW k \in E!Run, NEW throws \in BOOLEAN, E!end(k, throws) PROVE TaskTypes'
  BY <1>19 DEF E!end, E!goto, E!fields
<1> QED
  BY <1>1, <1>2, <1>3, <1>4, <1>5, <1>6, <1>7, <1>8, <1>9, <1>10, <1>11, <1>12, <1>13, <1>14, <1>15, <1>16, <1>17, <1>18, <1>19, Zenon
  DEF E!Next, E!step, E!cancelStep

\* What a caller of cancel has after it read sleepTask.
LEMMA Reading ==
    ASSUME NEW m \in BOOLEAN, NEW S, NEW z \in S
    PROVE  [E!Idle EXCEPT !.pc = "sleeper", !.may = m, !.sees = z]
              \in [pc : {"sleeper"}, may : BOOLEAN, sees : S, result : BOOLEAN]
BY Zenon DEF E!Idle

\* A caller of cancel keeps its argument.
LEMMA CallersStep ==
    ASSUME TaskTypes, CallersInv, [E!Next]_E!vars PROVE CallersInv' /\ (MayInterrupt => MayInterrupt')
<1> USE DEF CallersInv, MayInterrupt
<1>1. CASE cancel' = cancel
  BY <1>1, Zenon
<1>2. ASSUME NEW x \in Canceller, NEW may \in BOOLEAN, E!cancelRead(x, may)
      PROVE  CallersInv' /\ (MayInterrupt => MayInterrupt')
  <2>0. sleepTask \in E!Run \cup {0}
    BY Zenon DEF TaskTypes
  <2>1. PICK r \in [pc : {"sleeper"}, may : BOOLEAN, sees : E!Run \cup {0}, result : BOOLEAN] :
           cancel' = [cancel EXCEPT ![x] = r]
    BY <1>2, <2>0, Reading, Zenon DEF E!cancelRead
  <2>2. ~cancel[x].may
    BY <1>2, Zenon DEF E!cancelRead
  <2> QED
    BY <2>1, <2>2, Zenon
<1>3. ASSUME NEW x \in Canceller, E!cancelSleepTask(x) \/ E!cancelTask(x)
      PROVE  CallersInv' /\ (MayInterrupt => MayInterrupt')
  <2>1. PICK r \in [pc : {"super", "returned"}, may : BOOLEAN, sees : E!Run \cup {0}, result : BOOLEAN] :
           cancel' = [cancel EXCEPT ![x] = r] /\ r.may = cancel[x].may
    <3>1. ASSUME NEW r \in [pc : {"super", "returned"}, may : BOOLEAN, sees : E!Run \cup {0}, result : BOOLEAN],
                 cancel' = [cancel EXCEPT ![x] = r], r.may = cancel[x].may
          PROVE  \E q \in [pc : {"super", "returned"}, may : BOOLEAN, sees : E!Run \cup {0}, result : BOOLEAN] :
                    cancel' = [cancel EXCEPT ![x] = q] /\ q.may = cancel[x].may
      BY <3>1, Zenon
    <3>2. CASE E!cancelSleepTask(x)
      <4>1. cancel' = [cancel EXCEPT ![x] = [cancel[x] EXCEPT !.pc = "super"]]
        BY <3>2, Zenon DEF E!cancelSleepTask
      <4>2. /\ [cancel[x] EXCEPT !.pc = "super"] \in
                  [pc : {"super", "returned"}, may : BOOLEAN, sees : E!Run \cup {0}, result : BOOLEAN]
            /\ [cancel[x] EXCEPT !.pc = "super"].may = cancel[x].may
        BY Zenon
      <4> QED
        BY <3>1, <4>1, <4>2, Zenon
    <3>3. CASE E!cancelTask(x)
      <4>1. cancel' = [cancel EXCEPT ![x] = [cancel[x] EXCEPT !.pc = "returned", !.result = (task = "new")]]
        BY <3>3, Zenon DEF E!cancelTask
      <4>2. /\ [cancel[x] EXCEPT !.pc = "returned", !.result = (task = "new")] \in
                  [pc : {"super", "returned"}, may : BOOLEAN, sees : E!Run \cup {0}, result : BOOLEAN]
            /\ [cancel[x] EXCEPT !.pc = "returned", !.result = (task = "new")].may = cancel[x].may
        BY Zenon
      <4> QED
        BY <3>1, <4>1, <4>2, Zenon
    <3> QED
      BY <1>3, <3>2, <3>3, Zenon
  <2> QED
    BY <2>1, Zenon
<1> QED
  BY <1>1, <1>2, <1>3, Zenon
  DEF E!Next, E!cancelStep, E!step, E!vars, E!tick, E!shutdown, E!shutdownNow, E!schedule, E!enter,
      E!publishSleeper, E!startSleep, E!wakesInterrupted, E!wakes, E!slept, E!childDone, E!sleeperDone,
      E!begin, E!ran, E!reschedule, E!end

\* ChainInv is kept.
LEMMA ChainStep == ASSUME TaskConstants, TaskTypes, TaskTypes', ChainInv, [E!Next]_E!vars PROVE ChainInv'
<1> USE DEF TaskConstants, TaskTypes, ChainInv, E!Run
<1>1. CASE UNCHANGED E!vars
  BY <1>1, Zenon DEF E!vars, E!fields
<1>2. CASE E!tick
  BY <1>2, Zenon DEF E!tick, E!fields
<1>3. CASE E!shutdown
  BY <1>3, Zenon DEF E!shutdown, E!fields
<1>4. CASE E!shutdownNow
  BY <1>4, Zenon DEF E!shutdownNow, E!fields
<1>5. ASSUME NEW delay \in 0 .. 1, E!schedule(delay) PROVE ChainInv'
  BY <1>5 DEF E!schedule, E!goto, E!fields
<1>6. ASSUME NEW x \in Canceller, NEW may \in BOOLEAN, E!cancelRead(x, may) PROVE ChainInv'
  BY <1>6, Zenon DEF E!cancelRead, E!fields
<1>7. ASSUME NEW x \in Canceller, E!cancelSleepTask(x) PROVE ChainInv'
  BY <1>7, Zenon DEF E!cancelSleepTask, E!cancelSleeper, E!fields
<1>8. ASSUME NEW x \in Canceller, E!cancelTask(x) PROVE ChainInv'
  BY <1>8, Zenon DEF E!cancelTask, E!fields
<1>9. ASSUME NEW k \in E!Run, E!enter(k) PROVE ChainInv'
  BY <1>9, Zenon DEF E!enter, E!goto, E!fields
<1>10. ASSUME NEW k \in E!Run, E!publishSleeper(k) PROVE ChainInv'
  BY <1>10, Zenon DEF E!publishSleeper, E!goto, E!fields
<1>11. ASSUME NEW k \in E!Run, E!startSleep(k) PROVE ChainInv'
  BY <1>11, Zenon DEF E!startSleep, E!goto, E!fields
<1>12. ASSUME NEW k \in E!Run, E!wakesInterrupted(k) PROVE ChainInv'
  BY <1>12, Zenon DEF E!wakesInterrupted, E!slept, E!goto, E!fields
<1>13. ASSUME NEW k \in E!Run, E!wakes(k) PROVE ChainInv'
  BY <1>13, Zenon DEF E!wakes, E!slept, E!goto, E!fields
<1>14. ASSUME NEW k \in E!Run, E!childDone(k) PROVE ChainInv'
  BY <1>14, Zenon DEF E!childDone, E!goto, E!fields
<1>15. ASSUME NEW k \in E!Run, E!sleeperDone(k) PROVE ChainInv'
  BY <1>15, Zenon DEF E!sleeperDone, E!isCancelled, E!goto, E!fields
<1>16. ASSUME NEW k \in E!Run, E!begin(k) PROVE ChainInv'
  <2>1. \/ task = "new" /\ runner = 0 /\ runner' = k /\ tpc' = [tpc EXCEPT ![k] = "command"]
        \/ runner' = runner /\ tpc' = [tpc EXCEPT ![k] = "gone"]
    BY <1>16, Zenon DEF E!begin, E!goto
  <2>2. tpc[k] = "start"
    BY <1>16, Zenon DEF E!begin
  <2>3. CASE task = "new" /\ runner = 0 /\ runner' = k /\ tpc' = [tpc EXCEPT ![k] = "command"]
    <3>1. tpc'[k] = "command" /\ \A j \in E!Run : j # k => tpc'[j] = tpc[j]
      BY <2>3, Zenon
    <3>2. \A i, j \in E!Run : i < j /\ tpc'[j] # "none" => tpc'[i] = "gone"
      BY <2>2, <3>1, Zenon
    <3>3. \A j \in E!Run : tpc[j] # "command"
      BY <2>3
    <3> QED
      BY <2>3, <3>1, <3>2, <3>3, Zenon
  <2>4. CASE runner' = runner /\ tpc' = [tpc EXCEPT ![k] = "gone"]
    BY <2>2, <2>4, Zenon
  <2> QED
    BY <2>1, <2>3, <2>4, Zenon
<1>17. ASSUME NEW k \in E!Run, E!ran(k) PROVE ChainInv'
  BY <1>17, Zenon DEF E!ran, E!isCancelled, E!isShutdown, E!goto, E!fields
<1>18. ASSUME NEW k \in E!Run, E!reschedule(k) PROVE ChainInv'
  <2>1. tpc[k] = "again" /\ runner' = runner
    BY <1>18, Zenon DEF E!reschedule
  <2>2. CASE tpc' = [tpc EXCEPT ![k] = "gone"]
    BY <2>1, <2>2, Zenon
  <2>3. CASE tpc' = [tpc EXCEPT ![k] = "gone", ![k + 1] = "run"]
    <3>1. \A j \in E!Run : tpc'[j] = IF j = k THEN "gone" ELSE IF j = k + 1 THEN "run" ELSE tpc[j]
      BY <2>3, HandedOver
    <3>2. \A j \in E!Run : (j < k => tpc[j] = "gone") /\ (j > k => tpc[j] = "none")
      BY <2>1, Zenon
    <3>a. \A j \in E!Run : j < k \/ j = k \/ j > k
      BY DEF E!Run
    <3>b. \A j \in E!Run : tpc'[j] # "command" /\ tpc[j] # "command"
      BY <2>1, <3>1, <3>2, <3>a, Zenon
    <3>c. \A j \in E!Run : (j <= k => j < k \/ j = k) /\ (j <= k => j # k + 1)
                           /\ (j > k + 1 => j > k /\ j # k /\ j # k + 1)
      BY DEF E!Run
    <3>3. \A j \in E!Run : tpc'[j] # "command" /\ tpc[j] # "command" /\ (j <= k => tpc'[j] = "gone") /\ (j > k + 1 => tpc'[j] = "none")
      BY <2>1, <3>1, <3>2, <3>b, <3>c, Zenon
    <3>4. runner = 0
      BY <3>3, Zenon
    <3> QED
      BY <2>1, <3>3, <3>4
  <2> QED
    BY <1>18, <2>2, <2>3, Zenon DEF E!reschedule, E!goto
<1>19. ASSUME NEW k \in E!Run, NEW throws \in BOOLEAN, E!end(k, throws) PROVE ChainInv'
  BY <1>19, Zenon DEF E!end, E!goto, E!fields
<1> QED
  BY <1>1, <1>2, <1>3, <1>4, <1>5, <1>6, <1>7, <1>8, <1>9, <1>10, <1>11, <1>12, <1>13, <1>14, <1>15, <1>16, <1>17, <1>18, <1>19, Zenon
  DEF E!Next, E!step, E!cancelStep

\* InterruptInv is kept.
LEMMA InterruptStep ==
    ASSUME TaskConstants, TaskTypes, TaskTypes', ChainInv, InterruptInv, SleepInv,
           MayInterrupt => MayInterrupt', [E!Next]_E!vars
    PROVE  InterruptInv'
<1> USE DEF TaskConstants, TaskTypes, Before, ChainInv, InterruptInv, SleepInv, E!Run
<1>1. CASE UNCHANGED E!vars
  BY <1>1, Zenon DEF E!vars, E!fields
<1>2. CASE E!tick
  BY <1>2, Zenon DEF E!tick, E!fields
<1>3. CASE E!shutdown
  BY <1>3, Zenon DEF E!shutdown, E!fields
<1>4. CASE E!shutdownNow
  BY <1>4, Zenon DEF E!shutdownNow, E!fields
<1>5. ASSUME NEW delay \in 0 .. 1, E!schedule(delay) PROVE InterruptInv'
  BY <1>5 DEF E!schedule, E!goto, E!fields
<1>6. ASSUME NEW x \in Canceller, NEW may \in BOOLEAN, E!cancelRead(x, may) PROVE InterruptInv'
  BY <1>6, Zenon DEF E!cancelRead, E!fields
<1>7. ASSUME NEW x \in Canceller, E!cancelSleepTask(x) PROVE InterruptInv'
  BY <1>7 DEF E!cancelSleepTask, E!cancelSleeper, E!fields
<1>8. ASSUME NEW x \in Canceller, E!cancelTask(x) PROVE InterruptInv'
  <2>1. cancel[x].may => MayInterrupt
    BY Zenon DEF MayInterrupt
  <2>2. /\ UNCHANGED <<executor, tpc, sleeper>> /\ (task # "new" => task' # "new")
        /\ interrupted' = interrupted \/ (cancel[x].may /\ runner # 0 /\ interrupted' = [interrupted EXCEPT ![runner] = TRUE])
    BY <1>8, Zenon DEF E!cancelTask
  <2> QED
    BY <2>1, <2>2, Zenon
<1>9. ASSUME NEW k \in E!Run, E!enter(k) PROVE InterruptInv'
  BY <1>9, Zenon DEF E!enter, E!goto, E!fields
<1>10. ASSUME NEW k \in E!Run, E!publishSleeper(k) PROVE InterruptInv'
  BY <1>10, Zenon DEF E!publishSleeper, E!goto, E!fields
<1>11. ASSUME NEW k \in E!Run, E!startSleep(k) PROVE InterruptInv'
  BY <1>11, Zenon DEF E!startSleep, E!goto, E!fields
<1>12. ASSUME NEW k \in E!Run, E!wakesInterrupted(k) PROVE InterruptInv'
  BY <1>12, Zenon DEF E!wakesInterrupted, E!slept, E!goto, E!fields
<1>13. ASSUME NEW k \in E!Run, E!wakes(k) PROVE InterruptInv'
  BY <1>13, Zenon DEF E!wakes, E!slept, E!goto, E!fields
<1>14. ASSUME NEW k \in E!Run, E!childDone(k) PROVE InterruptInv'
  BY <1>14, Zenon DEF E!childDone, E!goto, E!fields
<1>15. ASSUME NEW k \in E!Run, E!sleeperDone(k) PROVE InterruptInv'
  BY <1>15, Zenon DEF E!sleeperDone, E!isCancelled, E!goto, E!fields
<1>16. ASSUME NEW k \in E!Run, E!begin(k) PROVE InterruptInv'
  <2>1. tpc[k] = "start" /\ UNCHANGED <<interrupted, executor, task, sleeper>>
    BY <1>16, Zenon DEF E!begin
  <2>2. \/ task = "new" /\ tpc' = [tpc EXCEPT ![k] = "command"]
        \/ tpc' = [tpc EXCEPT ![k] = "gone"]
    BY <1>16, Zenon DEF E!begin, E!goto
  <2>3. \A j \in E!Run : j # k => tpc'[j] = tpc[j]
    BY <2>2, Zenon
  <2>4. interrupted[k] => executor = "shutdownNow" \/ tpc'[k] = "gone"
    <3>1. interrupted[k] => executor = "shutdownNow" \/ task # "new"
      BY <2>1, Zenon
    <3> QED
      BY <2>2, <3>1, Zenon
  <2> QED
    BY <2>1, <2>3, <2>4, ZenonT(30)
<1>17. ASSUME NEW k \in E!Run, E!ran(k) PROVE InterruptInv'
  BY <1>17 DEF E!ran, E!isCancelled, E!isShutdown, E!goto, E!fields
<1>18. ASSUME NEW k \in E!Run, E!reschedule(k) PROVE InterruptInv'
  BY <1>18 DEF E!reschedule, E!isShutdown, E!cancelSleeper, E!goto, E!fields
<1>19. ASSUME NEW k \in E!Run, NEW throws \in BOOLEAN, E!end(k, throws) PROVE InterruptInv'
  BY <1>19, Zenon DEF E!end, E!goto, E!fields
<1> QED
  BY <1>1, <1>2, <1>3, <1>4, <1>5, <1>6, <1>7, <1>8, <1>9, <1>10, <1>11, <1>12, <1>13, <1>14, <1>15, <1>16, <1>17, <1>18, <1>19, Zenon
  DEF E!Next, E!step, E!cancelStep

\* SleepInv is kept.
LEMMA SleepStep ==
    ASSUME TaskConstants, TaskTypes, TaskTypes', ChainInv, InterruptInv, SleepInv, [E!Next]_E!vars
    PROVE  SleepInv'
<1> USE DEF TaskConstants, TaskTypes, Before, ChainInv, InterruptInv, SleepInv, E!Run
<1>1. CASE UNCHANGED E!vars
  BY <1>1, Zenon DEF E!vars, E!fields
<1>2. CASE E!tick
  BY <1>2 DEF E!tick, E!fields
<1>3. CASE E!shutdown
  BY <1>3, Zenon DEF E!shutdown, E!fields
<1>4. CASE E!shutdownNow
  BY <1>4, Zenon DEF E!shutdownNow, E!fields
<1>5. ASSUME NEW delay \in 0 .. 1, E!schedule(delay) PROVE SleepInv'
  <2>1. tpc[1] = "none" /\ tpc' = [tpc EXCEPT ![1] = "run"] /\ sleeper' = sleeper /\ 1 \in E!Run
    BY <1>5 DEF E!schedule, E!goto
  <2>2. \A k \in E!Run : tpc[k] = "none"
    BY <2>1, SMTT(30)
  <2> QED
    BY <2>1, <2>2, Zenon
<1>6. ASSUME NEW x \in Canceller, NEW may \in BOOLEAN, E!cancelRead(x, may) PROVE SleepInv'
  BY <1>6, Zenon DEF E!cancelRead, E!fields
<1>7. ASSUME NEW x \in Canceller, E!cancelSleepTask(x) PROVE SleepInv'
  BY <1>7, Zenon DEF E!cancelSleepTask, E!cancelSleeper, E!fields
<1>8. ASSUME NEW x \in Canceller, E!cancelTask(x) PROVE SleepInv'
  BY <1>8, Zenon DEF E!cancelTask, E!fields
<1>9. ASSUME NEW k \in E!Run, E!enter(k) PROVE SleepInv'
  BY <1>9, Zenon DEF E!enter, E!goto, E!fields
<1>10. ASSUME NEW k \in E!Run, E!publishSleeper(k) PROVE SleepInv'
  BY <1>10, Zenon DEF E!publishSleeper, E!goto, E!fields
<1>11. ASSUME NEW k \in E!Run, E!startSleep(k) PROVE SleepInv'
  BY <1>11 DEF E!startSleep, E!goto, E!fields
<1>12. ASSUME NEW k \in E!Run, E!wakesInterrupted(k) PROVE SleepInv'
  BY <1>12, Zenon DEF E!wakesInterrupted, E!slept, E!goto, E!fields
<1>13. ASSUME NEW k \in E!Run, E!wakes(k) PROVE SleepInv'
  BY <1>13, Zenon DEF E!wakes, E!slept, E!goto, E!fields
<1>14. ASSUME NEW k \in E!Run, E!childDone(k) PROVE SleepInv'
  BY <1>14, Zenon DEF E!childDone, E!goto, E!fields
<1>15. ASSUME NEW k \in E!Run, E!sleeperDone(k) PROVE SleepInv'
  BY <1>15, Zenon DEF E!sleeperDone, E!isCancelled, E!goto, E!fields
<1>16. ASSUME NEW k \in E!Run, E!begin(k) PROVE SleepInv'
  BY <1>16, SMTT(30) DEF E!begin, E!goto, E!fields
<1>17. ASSUME NEW k \in E!Run, E!ran(k) PROVE SleepInv'
  <2>1. /\ tpc[k] = "ran" /\ UNCHANGED <<sleeper, executor, task, now>>
        /\ tpc' = [tpc EXCEPT ![k] = "gone"] \/ tpc' = [tpc EXCEPT ![k] = "again"]
    BY <1>17, Zenon DEF E!ran, E!goto
  <2>2. \A j \in E!Run : j # k => tpc[j] \in {"gone", "none"}
    BY <2>1
  <2> QED
    BY <2>1, <2>2, ZenonT(30)
<1>18. ASSUME NEW k \in E!Run, E!reschedule(k) PROVE SleepInv'
  <2>1. tpc[k] = "again" /\ UNCHANGED <<now, nextMark, executor>>
    BY <1>18, Zenon DEF E!reschedule, E!fields
  <2>2. \A j \in E!Run : (j < k => tpc[j] = "gone") /\ (j > k => tpc[j] = "none")
    BY <2>1, Zenon
  <2>3. \A j \in E!Run : tpc'[j] \in {"gone", "none", "run"} /\ (j <= k => tpc'[j] = "gone")
    <3>1. CASE tpc' = [tpc EXCEPT ![k] = "gone"]
      BY <2>2, <3>1
    <3>2. CASE tpc' = [tpc EXCEPT ![k] = "gone", ![k + 1] = "run"]
      <4>1. \A j \in E!Run : tpc'[j] = IF j = k THEN "gone" ELSE IF j = k + 1 THEN "run" ELSE tpc[j]
        BY <3>2, HandedOver
      <4> QED
        BY <2>2, <4>1, SMTT(30)
    <3> QED
      BY <1>18, <3>1, <3>2, Zenon DEF E!reschedule, E!goto
  <2>4. \A j \in E!Run : sleeper'[j] = sleeper[j] \/ sleeper'[j] = "cancelled"
    BY <1>18, Zenon DEF E!reschedule, E!cancelSleeper
  <2> QED
    <3>1. \A j \in E!Run : tpc'[j] \in {"none", "run"} => sleeper'[j] \in {"new", "cancelled"}
      BY <2>2, <2>3, <2>4
    <3> QED
      BY <2>3, <3>1, Zenon
<1>19. ASSUME NEW k \in E!Run, NEW throws \in BOOLEAN, E!end(k, throws) PROVE SleepInv'
  BY <1>19, Zenon DEF E!end, E!goto, E!fields
<1> QED
  BY <1>1, <1>2, <1>3, <1>4, <1>5, <1>6, <1>7, <1>8, <1>9, <1>10, <1>11, <1>12, <1>13, <1>14, <1>15, <1>16, <1>17, <1>18, <1>19, Zenon
  DEF E!Next, E!step, E!cancelStep

\* A task that is not scheduled yet satisfies the invariants.
LEMMA TaskStart ==
    ASSUME TaskConstants
    PROVE  E!Init => TaskTypes /\ CallersInv /\ ChainInv /\ InterruptInv /\ SleepInv /\ MarkInv
<1> SUFFICES ASSUME E!Init PROVE TaskTypes /\ CallersInv /\ ChainInv /\ InterruptInv /\ SleepInv /\ MarkInv
  BY Zenon
<1>1. TaskTypes
  BY EmptySeq, Zenon DEF E!Init, TaskTypes, Outcome, Before
<1>2. CallersInv
  BY Zenon DEF E!Init, E!Idle, CallersInv
<1>3. ChainInv /\ InterruptInv /\ SleepInv
  BY Zenon DEF E!Init, ChainInv, InterruptInv, SleepInv
<1>4. MarkInv
  BY EmptySeq DEF E!Init, MarkInv, Before
<1> QED
  BY <1>1, <1>2, <1>3, <1>4, Zenon

\* "cancel(false) must not interrupt a running command": a command is interrupted
\* only by shutdownNow or by a cancel(true), whenever cancel reads sleepTask.
THEOREM CommandIsSpared == ASSUME TaskConstants PROVE E!Spec => []CancelSparesCommand
<1> DEFINE IInv == TaskTypes /\ CallersInv /\ ChainInv /\ InterruptInv /\ SleepInv
<1>1. E!Init => IInv
  BY TaskStart, Zenon
<1>2. IInv /\ [E!Next]_E!vars => IInv'
  BY TaskTypesStep, CallersStep, ChainStep, InterruptStep, SleepStep, Zenon
<1>3. IInv => CancelSparesCommand
  BY Zenon DEF InterruptInv, MayInterrupt, CancelSparesCommand, E!CancelSparesCommand
<1> HIDE DEF IInv
<1> QED
  BY <1>1, <1>2, <1>3, PTL DEF E!Spec

\* A step that leaves the marks and the times of the commands alone, and each
\* thread before its command, or ends it, keeps MarkInv.
LEMMA MarksAlone ==
    ASSUME TaskTypes, TaskTypes', MarkInv, UNCHANGED <<class, mark, nextMark, begun, ended>>, now' >= now,
           TaskConstants, executor' # "shutdownNow" => executor # "shutdownNow",
           \A k \in E!Run : \/ tpc'[k] = tpc[k] \/ tpc'[k] = "gone"
                            \/ tpc[k] \in Before /\ tpc'[k] \in Before
    PROVE  MarkInv'
<1>1. 1 \in E!Run
  BY DEF E!Run, TaskConstants
<1>2. /\ \A i \in 1 .. Len(ended) : ended[i] \in Nat
      /\ now \in Nat /\ now' \in Nat /\ nextMark \in Nat
  BY DEF TaskTypes
<1>3. \A i \in 1 .. Len(ended) : ended[i] <= now'
  BY <1>2 DEF MarkInv
<1>4. \A k \in E!Run : tpc'[k] \in {"command", "ran"} => tpc'[k] = tpc[k]
  BY Zenon DEF Before
<1>5. \A k \in E!Run : tpc'[k] \in {"command", "ran"} /\ executor' # "shutdownNow" => now' >= nextMark
  BY <1>2, <1>4 DEF MarkInv
<1>6. tpc'[1] = "none" => tpc[1] = "none"
  BY <1>1, Zenon DEF Before
<1>7. \A k \in E!Run : /\ tpc'[k] \in Before => tpc[k] \in Before
                       /\ tpc'[k] = "again" => tpc[k] = "again"
  BY Zenon DEF Before
<1> QED
  BY <1>3, <1>4, <1>5, <1>6, <1>7, Zenon DEF MarkInv

\* MarkInv is kept.
LEMMA MarkStep ==
    ASSUME TaskConstants, TaskTypes, TaskTypes', ChainInv, SleepInv, MarkInv, [E!Next]_E!vars PROVE MarkInv'
<1>0. /\ 1 \in E!Run /\ E!Run \subseteq Nat /\ \A i \in 1 .. Len(ended) : ended[i] \in Nat
      /\ Len(ended) \in Nat /\ Len(begun) \in Nat
      /\ \A k \in E!Run : k >= 1
  BY SMTT(30) DEF E!Run, TaskConstants, TaskTypes
<1>1. CASE E!tick \/ E!shutdown \/ E!shutdownNow \/ UNCHANGED E!vars
  <2>1. /\ UNCHANGED <<class, mark, nextMark, begun, ended, tpc>> /\ now' >= now
        /\ executor' # "shutdownNow" => executor # "shutdownNow"
    BY <1>1, SMTT(30) DEF E!tick, E!shutdown, E!shutdownNow, E!vars, E!fields, TaskTypes
  <2> QED
    BY <2>1, MarksAlone, Zenon
<1>2. ASSUME NEW x \in Canceller, E!cancelSleepTask(x) \/ E!cancelTask(x) \/ \E may \in BOOLEAN : E!cancelRead(x, may)
      PROVE  MarkInv'
  <2>1. UNCHANGED <<class, mark, nextMark, begun, ended, tpc, now, executor>>
    BY <1>2, Zenon DEF E!cancelSleepTask, E!cancelTask, E!cancelRead, E!fields
  <2> QED
    BY <2>1, MarksAlone DEF TaskTypes
<1>3. ASSUME NEW k \in E!Run,
             \/ E!enter(k) \/ E!publishSleeper(k) \/ E!startSleep(k) \/ E!wakesInterrupted(k) \/ E!wakes(k)
             \/ E!childDone(k) \/ E!sleeperDone(k)
      PROVE  MarkInv'
  <2>1. UNCHANGED <<class, mark, nextMark, begun, ended, now, executor>>
    BY <1>3, Zenon DEF E!enter, E!publishSleeper, E!startSleep, E!wakesInterrupted, E!wakes, E!slept, E!childDone, E!sleeperDone, E!fields
  <2>2. \E label \in Before \cup {"gone"} : tpc' = [tpc EXCEPT ![k] = label]
    BY <1>3, Zenon DEF E!enter, E!publishSleeper, E!startSleep, E!wakesInterrupted, E!wakes, E!slept, E!childDone, E!sleeperDone, E!goto, Before
  <2>3. tpc[k] \in Before
    BY <1>3, Zenon DEF E!enter, E!publishSleeper, E!startSleep, E!wakesInterrupted, E!wakes, E!childDone, E!sleeperDone, Before
  <2>4. \A j \in E!Run : tpc'[j] = tpc[j] \/ tpc'[j] = "gone" \/ (tpc[j] \in Before /\ tpc'[j] \in Before)
    BY <2>2, <2>3, Zenon DEF TaskTypes
  <2>5. now' >= now
    BY <2>1, SMTT(30) DEF TaskTypes
  <2> QED
    BY <2>1, <2>4, <2>5, MarksAlone, Zenon
<1>4. ASSUME NEW delay \in 0 .. 1, E!schedule(delay) PROVE MarkInv'
  <2>1. /\ mark' = now + delay /\ nextMark' = mark' /\ UNCHANGED <<class, begun, ended, now, executor>>
        /\ tpc[1] = "none" /\ tpc' = [tpc EXCEPT ![1] = "run"]
    BY <1>4, Zenon DEF E!schedule, E!goto
  <2>2. \A k \in E!Run : tpc[k] = "none" /\ tpc'[k] = IF k = 1 THEN "run" ELSE "none"
    BY <1>0, <2>1 DEF ChainInv, TaskTypes
  <2>3. Len(begun) = 0 /\ Len(ended) = 0
    BY <2>1, Zenon DEF MarkInv
  <2>4. nextMark' >= mark' /\ nextMark' = mark' + (1 - 1) * Period
    BY <2>1 DEF TaskTypes, TaskConstants
  <2> QED
    BY <1>0, <2>1, <2>2, <2>3, <2>4, SMTT(30) DEF MarkInv, Before
<1>5. ASSUME NEW k \in E!Run, E!begin(k) PROVE MarkInv'
  <2>1. tpc[k] = "start" /\ UNCHANGED <<class, mark, nextMark, ended, now, executor>>
    BY <1>5, Zenon DEF E!begin, E!fields
  <2>2. CASE begun' = begun /\ tpc' = [tpc EXCEPT ![k] = "gone"]
    <3>1. \A j \in E!Run : tpc'[j] = tpc[j] \/ tpc'[j] = "gone"
      BY <2>2, Zenon DEF TaskTypes
    <3>2. now' >= now
      BY <2>1 DEF TaskTypes
    <3> QED
      BY <2>1, <2>2, <3>1, <3>2, MarksAlone, Zenon
  <2>3. CASE task = "new" /\ begun' = Append(begun, now) /\ tpc' = [tpc EXCEPT ![k] = "command"]
    <3>1. Len(begun') = Len(begun) + 1
      BY <2>3, Appended, Zenon DEF TaskTypes
    <3>2. \A j \in E!Run : /\ j # k => tpc[j] \in {"gone", "none"}
                           /\ tpc'[j] = IF j = k THEN "command" ELSE tpc[j]
      BY <1>0, <2>1, <2>3 DEF ChainInv, TaskTypes
    <3>3. tpc'[1] # "none"
      BY <1>0, <2>1, <3>2 DEF ChainInv
    <3>4. Len(begun) = k - 1 /\ Len(ended) = k - 1 /\ nextMark >= mark /\ (class = "rate" => nextMark = mark + (k - 1) * Period)
      BY <2>1, Zenon DEF MarkInv, Before
    <3>5. Len(begun') = k
      BY <1>0, <3>1, <3>4
    <3>6. \A i \in 1 .. Len(ended) : ended[i] <= now
      BY Zenon DEF MarkInv
    <3>7. executor # "shutdownNow" => now >= nextMark
      BY <2>1, <2>3, Zenon DEF SleepInv
    <3> HIDE <2>3
    <3> QED
      BY <1>0, <2>1, <3>2, <3>3, <3>4, <3>5, <3>6, <3>7, Zenon DEF MarkInv, Before
  <2> QED
    BY <1>5, <2>2, <2>3, Zenon DEF E!begin, E!goto
<1>6. ASSUME NEW k \in E!Run, NEW throws \in BOOLEAN, E!end(k, throws) PROVE MarkInv'
  <2>1. /\ tpc[k] = "command" /\ UNCHANGED <<class, mark, nextMark, begun, now, executor>>
        /\ tpc' = [tpc EXCEPT ![k] = "gone"] \/ tpc' = [tpc EXCEPT ![k] = "ran"]
    BY <1>6, Zenon DEF E!end, E!goto, E!fields
  <2>2. ended' = Append(ended, now)
    BY <1>6, Zenon DEF E!end
  <2>3. /\ Len(ended') = Len(ended) + 1 /\ ended'[Len(ended) + 1] = now
        /\ \A i \in 1 .. Len(ended) : ended'[i] = ended[i]
    BY <2>2, Appended, SMTT(30) DEF TaskTypes
  <2>4. \A j \in E!Run : /\ j # k => tpc[j] \in {"gone", "none"} /\ tpc'[j] = tpc[j]
                         /\ tpc'[k] \in {"gone", "ran"}
    BY <1>0, <2>1, SMTT(30) DEF ChainInv, TaskTypes
  <2>5. tpc'[1] # "none"
    BY <1>0, <2>1, <2>4, SMTT(30) DEF ChainInv
  <2>6. Len(begun) = k /\ Len(ended) = k - 1 /\ nextMark >= mark /\ (executor # "shutdownNow" => now >= nextMark) /\ (class = "rate" => nextMark = mark + (k - 1) * Period)
    BY <2>1, Zenon DEF MarkInv
  <2>7. \A i \in 1 .. Len(ended') : ended'[i] <= now
    <3>1. \A i \in 1 .. Len(ended) : ended'[i] <= now
      BY <2>3, Zenon DEF MarkInv
    <3>2. \A i \in 1 .. Len(ended) + 1 : i \in 1 .. Len(ended) \/ i = Len(ended) + 1
      BY <1>0
    <3>3. now <= now
      BY DEF TaskTypes
    <3> HIDE <2>2
    <3> QED
      BY <2>3, <3>1, <3>2, <3>3, Zenon
  <2>8. Len(ended') = k
    BY <1>0, <2>3, <2>6
  <2> HIDE <2>2
  <2> QED
    BY <1>0, <2>1, <2>4, <2>5, <2>6, <2>7, <2>8, Zenon DEF MarkInv, Before
<1>7. ASSUME NEW k \in E!Run, E!ran(k) PROVE MarkInv'
  <2>1. tpc[k] = "ran" /\ UNCHANGED <<class, mark, begun, ended, now, executor>>
    BY <1>7, Zenon DEF E!ran
  <2>2. CASE nextMark' = nextMark /\ tpc' = [tpc EXCEPT ![k] = "gone"]
    <3>1. \A j \in E!Run : tpc'[j] = tpc[j] \/ tpc'[j] = "gone"
      BY <2>2, Zenon DEF TaskTypes
    <3>2. now' >= now
      BY <2>1 DEF TaskTypes
    <3> QED
      BY <2>1, <2>2, <3>1, <3>2, MarksAlone, Zenon
  <2>3. CASE executor # "shutdownNow" /\ nextMark' = (IF class = "rate" THEN nextMark + Period ELSE now + Period) /\ tpc' = [tpc EXCEPT ![k] = "again"]
    <3>1. Len(begun) = k /\ Len(ended) = k /\ nextMark >= mark /\ (class = "rate" => nextMark = mark + (k - 1) * Period)
      BY <2>1, Zenon DEF MarkInv
    <3>2. (k - 1) * Period + Period = k * Period
      BY <1>0 DEF TaskConstants
    <3>3. class = "rate" => nextMark' = mark + k * Period
      BY <1>0, <2>3, <3>1, <3>2, SMTT(30) DEF TaskTypes, TaskConstants
    <3>4. class = "delay" => nextMark' >= ended[k] + Period
      BY <1>0, <2>3, <3>1, SMTT(30) DEF MarkInv, TaskTypes, TaskConstants
    <3>5. \A j \in E!Run : /\ j # k => tpc[j] \in {"gone", "none"} /\ tpc'[j] = tpc[j]
                           /\ tpc'[k] = "again"
      <4>1. \A j \in E!Run : j # k => tpc[j] \in {"gone", "none"}
        BY <1>0, <2>1 DEF ChainInv
      <4> QED
        BY <2>3, <4>1, Zenon DEF TaskTypes
    <3>6. tpc'[1] # "none"
      BY <1>0, <2>1, <3>5, SMTT(30) DEF ChainInv
    <3>7. nextMark' >= mark
      <4>1. now >= nextMark
        BY <2>1, <2>3, Zenon DEF MarkInv
      <4> QED
        BY <2>3, <3>1, <4>1, SMTT(30) DEF TaskTypes, TaskConstants
    <3> QED
      BY <1>0, <2>1, <3>1, <3>3, <3>4, <3>5, <3>6, <3>7, Zenon DEF MarkInv, Before
  <2> QED
    BY <1>7, <2>2, <2>3, Zenon DEF E!ran, E!goto, E!isShutdown
<1>8. ASSUME NEW k \in E!Run, E!reschedule(k) PROVE MarkInv'
  <2>1. tpc[k] = "again" /\ UNCHANGED <<class, mark, nextMark, begun, ended, now, executor>>
    BY <1>8, Zenon DEF E!reschedule, E!fields
  <2>2. CASE tpc' = [tpc EXCEPT ![k] = "gone"]
    <3>1. \A j \in E!Run : tpc'[j] = tpc[j] \/ tpc'[j] = "gone"
      BY <2>2, Zenon DEF TaskTypes
    <3>2. now' >= now
      BY <2>1, SMTT(30) DEF TaskTypes
    <3> QED
      BY <2>1, <2>2, <3>1, <3>2, MarksAlone, Zenon
  <2>3. CASE tpc' = [tpc EXCEPT ![k] = "gone", ![k + 1] = "run"]
    <3>1. \A j \in E!Run : tpc'[j] = IF j = k THEN "gone" ELSE IF j = k + 1 THEN "run" ELSE tpc[j]
      BY <1>0, <2>3, HandedOver, SMTT(30) DEF TaskTypes
    <3>2. \A j \in E!Run : j # k => tpc[j] \in {"gone", "none"}
      BY <1>0, <2>1 DEF ChainInv
    <3>3. /\ Len(begun) = k /\ Len(ended) = k /\ nextMark >= mark
          /\ class = "rate" => nextMark = mark + k * Period
          /\ class = "delay" => nextMark >= ended[k] + Period
          /\ \A i \in 1 .. Len(ended) : ended[i] <= now
      BY <2>1, Zenon DEF MarkInv
    <3>4. tpc'[1] # "none"
      BY <1>0, <2>1, <3>1 DEF ChainInv
    <3>5. (k + 1) - 1 = k
      BY <1>0
    <3> QED
      BY <1>0, <2>1, <3>1, <3>2, <3>3, <3>4, <3>5, SMTT(30) DEF MarkInv, Before
  <2> QED
    BY <1>8, <2>2, <2>3, Zenon DEF E!reschedule, E!goto
<1> QED
  BY <1>1, <1>2, <1>3, <1>4, <1>5, <1>6, <1>7, <1>8, Zenon DEF E!Next, E!step, E!cancelStep

\* KeepsSchedule is kept: only begin adds a command, and it is not before its mark.
LEMMA ScheduleStep ==
    ASSUME TaskConstants, TaskTypes, TaskTypes', ChainInv, SleepInv, MarkInv, KeepsSchedule, [E!Next]_E!vars
    PROVE  KeepsSchedule'
<1>0. /\ E!Run \subseteq Nat /\ \A k \in E!Run : k >= 1
      /\ begun \in Seq(Nat) /\ ended \in Seq(Nat) /\ now \in Nat /\ mark \in Nat /\ nextMark \in Nat
      /\ DOMAIN begun = 1 .. Len(begun) /\ DOMAIN ended = 1 .. Len(ended)
      /\ Len(begun) \in Nat /\ Len(ended) \in Nat
  BY DEF E!Run, TaskConstants, TaskTypes
<1>1. CASE /\ UNCHANGED <<class, mark, begun, ended>>
           /\ executor' # "shutdownNow" => executor # "shutdownNow"
  BY <1>1, Zenon DEF KeepsSchedule, E!KeepsSchedule
<1>2. ASSUME NEW delay \in 0 .. 1, E!schedule(delay) PROVE KeepsSchedule'
  <2>1. tpc[1] = "none" /\ begun' = begun
    BY <1>2, Zenon DEF E!schedule
  <2>2. Len(begun) = 0
    BY <2>1, Zenon DEF MarkInv
  <2>3. DOMAIN begun' = {}
    BY <1>0, <2>1, <2>2
  <2> QED
    BY <2>3, Zenon DEF KeepsSchedule, E!KeepsSchedule
<1>3. ASSUME NEW k \in E!Run, E!begin(k), begun' # begun PROVE KeepsSchedule'
  <2>1. /\ tpc[k] = "start" /\ task = "new" /\ begun' = Append(begun, now)
        /\ UNCHANGED <<class, mark, ended, executor>>
    BY <1>3, Zenon DEF E!begin, E!fields
  <2>2. /\ Len(begun') = Len(begun) + 1 /\ begun'[Len(begun) + 1] = now
        /\ \A i \in 1 .. Len(begun) : begun'[i] = begun[i]
    BY <1>0, <2>1, Appended, Zenon
  <2>3. /\ Len(begun) = k - 1 /\ Len(ended) = k - 1
        /\ nextMark >= mark
        /\ class = "rate" => nextMark = mark + (k - 1) * Period
        /\ class = "delay" /\ k > 1 => nextMark >= ended[k - 1] + Period
        /\ \A i \in 1 .. Len(ended) : ended[i] <= now
    BY <2>1, Zenon DEF MarkInv, Before
  <2>4. DOMAIN begun' = 1 .. Len(begun')
    BY <1>0 DEF TaskTypes
  <2> SUFFICES ASSUME executor # "shutdownNow", NEW i \in DOMAIN begun'
               PROVE  /\ begun'[i] >= IF class = "rate" THEN mark + (i - 1) * Period ELSE mark
                      /\ i > 1 => /\ i - 1 \in DOMAIN ended
                                  /\ begun'[i] >= ended[i - 1]
                                  /\ class = "delay" => begun'[i] >= ended[i - 1] + Period
    BY <2>1, Zenon DEF KeepsSchedule, E!KeepsSchedule
  <2>5. now >= nextMark
    BY <2>1, Zenon DEF SleepInv
  <2>6. CASE i \in DOMAIN begun
    BY <1>0, <2>2, <2>6, Zenon DEF KeepsSchedule, E!KeepsSchedule
  <2>7. CASE i = k
    <3>1. begun'[i] = now /\ (i - 1) * Period \in Nat
      BY <1>0, <2>2, <2>3, <2>7, SMTT(30) DEF TaskConstants
    <3>2. now >= IF class = "rate" THEN mark + (i - 1) * Period ELSE mark
      BY <1>0, <2>3, <2>5, <2>7, <3>1, SMTT(30)
    <3>3. ASSUME i > 1 PROVE i - 1 \in DOMAIN ended /\ ended[i - 1] \in Nat
      BY <1>0, <2>3, <2>7, <3>3
    <3>4. ASSUME i > 1 PROVE now >= ended[i - 1]
      BY <1>0, <2>3, <3>3, <3>4, Zenon
    <3>5. ASSUME i > 1, class = "delay" PROVE now >= ended[i - 1] + Period
      BY <1>0, <2>3, <2>5, <2>7, <3>3, <3>5, SMTT(30) DEF TaskConstants
    <3> HIDE <2>1
    <3> QED
      BY <3>1, <3>2, <3>3, <3>4, <3>5, Zenon
  <2>8. i \in DOMAIN begun \/ i = k
    BY <1>0, <2>2, <2>3, <2>4
  <2> QED
    BY <2>6, <2>7, <2>8, Zenon
<1>4. ASSUME NEW k \in E!Run, NEW throws \in BOOLEAN, E!end(k, throws) PROVE KeepsSchedule'
  <2>1. ended' = Append(ended, now) /\ UNCHANGED <<class, mark, begun, executor>>
    BY <1>4, Zenon DEF E!end, E!fields
  <2>2. /\ Len(ended') = Len(ended) + 1 /\ \A i \in 1 .. Len(ended) : ended'[i] = ended[i]
        /\ DOMAIN ended' = 1 .. Len(ended')
    BY <1>0, <2>1, Appended, SMTT(30) DEF TaskTypes
  <2>3. \A i \in DOMAIN ended : i \in DOMAIN ended' /\ ended'[i] = ended[i]
    BY <1>0, <2>2
  <2> QED
    BY <2>1, <2>3, Zenon DEF KeepsSchedule, E!KeepsSchedule
<1>5. ASSUME NEW x \in Canceller, E!cancelStep(x) \/ \E may \in BOOLEAN : E!cancelRead(x, may) PROVE KeepsSchedule'
  BY <1>1, <1>5, Zenon DEF E!cancelStep, E!cancelRead, E!cancelSleepTask, E!cancelTask, E!fields
<1>6. ASSUME NEW k \in E!Run, E!step(k) PROVE KeepsSchedule'
  <2>1. CASE E!begin(k) /\ begun' = begun
    BY <1>1, <2>1, Zenon DEF E!begin, E!fields
  <2>2. CASE E!ran(k) \/ E!reschedule(k)
    BY <1>1, <2>2, Zenon DEF E!ran, E!reschedule, E!fields
  <2>3. CASE \/ E!enter(k) \/ E!publishSleeper(k) \/ E!startSleep(k) \/ E!wakesInterrupted(k) \/ E!wakes(k)
             \/ E!childDone(k) \/ E!sleeperDone(k)
    BY <1>1, <2>3, Zenon DEF E!enter, E!publishSleeper, E!startSleep, E!wakesInterrupted, E!wakes, E!slept, E!childDone, E!sleeperDone, E!fields
  <2> QED
    BY <1>3, <1>4, <1>6, <2>1, <2>2, <2>3, Zenon DEF E!step
<1>7. CASE E!tick \/ E!shutdown \/ E!shutdownNow \/ UNCHANGED E!vars
  BY <1>1, <1>7, Zenon DEF E!tick, E!shutdown, E!shutdownNow, E!vars, E!fields
<1> QED
  BY <1>2, <1>5, <1>6, <1>7, Zenon DEF E!Next

\* "initialDelay, then initialDelay + period, ...", "the given delay between the
\* termination of one execution and the commencement of the next": whatever the
\* period, and however many executions and cancels there are, no command begins
\* before its time or before the one before it ended.
THEOREM ScheduleIsKept == ASSUME TaskConstants PROVE E!Spec => []KeepsSchedule
<1> DEFINE IInv == TaskTypes /\ CallersInv /\ ChainInv /\ InterruptInv /\ SleepInv /\ MarkInv /\ KeepsSchedule
<1>1. E!Init => IInv
  BY TaskStart, EmptySeq DEF E!Init, KeepsSchedule, E!KeepsSchedule
<1>2. IInv /\ [E!Next]_E!vars => IInv'
  BY TaskTypesStep, CallersStep, ChainStep, InterruptStep, SleepStep, MarkStep, ScheduleStep, Zenon
<1>3. IInv => KeepsSchedule
  BY Zenon
<1> HIDE DEF IInv
<1> QED
  BY <1>1, <1>2, <1>3, PTL DEF E!Spec
=============================================================================
