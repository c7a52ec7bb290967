----------------------------- MODULE ConnWorker -----------------------------
\* The connection workers of conn_worker.c and their callers. A worker is a wasm
\* thread that owns a connection and serves one channel in shared memory: a
\* caller writes the SQL, posts a request word, notifies, and waits on the done
\* word. Two kinds of channel:
\*   "word"   channel_t: one word `state` for both directions, waits of 5 ms
\*            (worker_main with ch_request, ch_await and ch_stop);
\*   "pair"   bchannel_t: a word `req` and a word `done`, waits without a
\*            timeout (worker_file_2addr_main with SqliteWalPool.kt).
\* Waiting and notifying is Chicory's: one counter pendingWakeups per address,
\* which any waiter of the address may consume; waitOn does not look at the
\* word again, and a wait that times out leaves a wakeup meant for it behind.
EXTENDS Integers, FiniteSets

CONSTANTS
    Pools,     \* the set-ups considered: kind and number of the channels, number of
               \* calling threads, and bounds: requests per thread, retries of submit
    DoneWrap,  \* bound for the 2^32 values of done, a sequence number
    Watchdog   \* whether the 30 s of submitOnce can pass before an answer

ASSUME ChannelAssumption ==
    /\ Pools \subseteq [kind : {"word", "pair"}, size : Nat \ {0}, threads : Nat,
                        requests : Nat, retries : Nat]
    /\ DoneWrap \in Nat \ {0} /\ Watchdog \in BOOLEAN

VARIABLES
    pool,       \* the set-up of this behaviour
    req, done,  \* the two words; a "word" channel keeps its state in req
    sql,        \* the request whose SQL is in the channel
    rc, result, \* the outcome in the channel; result names the request it is of
    waiters,    \* <<ch, word>> -> the threads in waitOn
    pending,    \* <<ch, word>> -> pendingWakeups
    w,          \* ch -> the worker
    idle,       \* the channels in the pool's queue
    rwl,        \* the pool's ReentrantReadWriteLock: its readers and its writer
    t,          \* thread -> the caller
    closed      \* the channels stopped by SqliteWalPool.close or ch_stop

vars == <<pool, req, done, sql, rc, result, waiters, pending, w, idle, rwl, t, closed>>
chan == <<req, done, sql, rc, result>>
futex == <<waiters, pending>>

Channel == 1..pool.size
Thread == 1..pool.threads
AllChannels == UNION {1..p.size : p \in Pools}
AllThreads == UNION {1..p.threads : p \in Pools}
NoChannel == 0
NoThread == 0
kind == pool.kind

OK == 0
BUSY == 5
None == [thread |-> NoThread, seq |-> 0, mode |-> "none"]
Words == Channel \X {"req", "done"}

\* The word the caller waits on: the other direction of a "pair" channel.
DoneWord(ch) == <<ch, IF kind = "word" THEN "req" ELSE "done">>
ReqWord(ch) == <<ch, "req">>
Value(a) == IF a[2] = "req" THEN req[a[1]] ELSE done[a[1]]
Worker(ch) == NoThread  \* as a waiter, the worker of the channel is no caller

-----------------------------------------------------------------------------
\* memory.atomic.wait32 and memory.atomic.notify.

atomicWait(a, who) == waiters' = [waiters EXCEPT ![a] = @ \cup {who}]
Woken(a, who) == who \in waiters[a] /\ pending[a] > 0
leaveWait(a, who, wakeups) ==
    /\ waiters' = [waiters EXCEPT ![a] = @ \ {who}]
    /\ pending' = [pending EXCEPT ![a] = @ - wakeups]
atomicNotify(a) ==
    pending' = [pending EXCEPT
        ![a] = IF @ < Cardinality(waiters[a]) THEN @ + 1 ELSE @]

-----------------------------------------------------------------------------
\* The initial state: no worker has been started.

Worker0 == [pc |-> "load", s |-> 0, run |-> None]
Caller0 == [pc |-> "out", ch |-> NoChannel, mode |-> "none", seq |-> 0,
            prev |-> 0, tries |-> 0, got |-> None]

Init ==
    /\ pool \in Pools
    /\ req = [ch \in Channel |-> 0] /\ done = [ch \in Channel |-> 0]
    /\ sql = [ch \in Channel |-> None]
    /\ rc = [ch \in Channel |-> OK] /\ result = [ch \in Channel |-> None]
    /\ waiters = [a \in Words |-> {}] /\ pending = [a \in Words |-> 0]
    /\ w = [ch \in Channel |-> [Worker0 EXCEPT !.pc = "unstarted"]]
    /\ idle = {} /\ rwl = [readers |-> {}, writer |-> NoThread]
    /\ t = [th \in Thread |-> Caller0] /\ closed = {}

-----------------------------------------------------------------------------
\* The worker: worker_main, worker_2addr_main and worker_file_2addr_main.

\* The load of the request word: 1 is a request (a "pair" channel's is consumed
\* at once), 3 ends the worker, anything else is waited on.
workerLoad(ch) ==
    LET s == req[ch]
    IN  /\ w[ch].pc = "load"
        /\ w' = [w EXCEPT ![ch] =
                    IF s = 1 THEN [@ EXCEPT !.pc = "exec"]
                    ELSE IF s = 3 THEN [@ EXCEPT !.pc = "ended"]
                    ELSE [@ EXCEPT !.pc = "wait", !.s = s]]
        /\ req' = IF s = 1 /\ kind = "pair" THEN [req EXCEPT ![ch] = 0] ELSE req
        /\ UNCHANGED <<done, sql, rc, result, waiters, pending, idle, rwl, t, closed, pool>>

\* wait32(&req, s, timeout): it sleeps only if the word still is s.
workerWait(ch) ==
    /\ w[ch].pc = "wait"
    /\ IF req[ch] = w[ch].s
       THEN /\ atomicWait(ReqWord(ch), Worker(ch))
            /\ w' = [w EXCEPT ![ch].pc = "asleep", ![ch].s = 0]
       ELSE /\ w' = [w EXCEPT ![ch].pc = "load", ![ch].s = 0]
            /\ UNCHANGED waiters
    /\ UNCHANGED <<req, done, sql, rc, result, pending, idle, rwl, t, closed, pool>>

workerWoken(ch) ==
    /\ w[ch].pc = "asleep" /\ Woken(ReqWord(ch), Worker(ch))
    /\ leaveWait(ReqWord(ch), Worker(ch), 1)
    /\ w' = [w EXCEPT ![ch].pc = "load"]
    /\ UNCHANGED <<req, done, sql, rc, result, idle, rwl, t, closed, pool>>

\* A bug: the wait of worker_main without its 5 ms, as in worker_blocking_main.
workerNeverTimesOut(ch) ==
    /\ w[ch].pc = "ended" /\ UNCHANGED vars

\* The 5 ms of a "word" channel's wait; a "pair" channel's wait has no timeout.
workerTimeout(ch) ==
    /\ w[ch].pc = "asleep" /\ kind = "word"
    /\ leaveWait(ReqWord(ch), Worker(ch), 0)
    /\ w' = [w EXCEPT ![ch].pc = "load"]
    /\ UNCHANGED <<req, done, sql, rc, result, idle, rwl, t, closed, pool>>

\* sqlite3_exec of the SQL in the channel, begun and ended; a statement may come
\* back SQLITE_BUSY.
workerExec(ch) ==
    /\ w[ch].pc = "exec"
    /\ w' = [w EXCEPT ![ch].pc = "running", ![ch].run = sql[ch]]
    /\ result' = [result EXCEPT ![ch] = None]
    /\ UNCHANGED <<req, done, sql, rc, futex, idle, rwl, t, closed, pool>>
workerExecuted(ch) ==
    /\ w[ch].pc = "running"
    /\ \E outcome \in {OK, BUSY} : rc' = [rc EXCEPT ![ch] = outcome]
    /\ result' = [result EXCEPT ![ch] = w[ch].run]
    /\ w' = [w EXCEPT ![ch].pc = "done", ![ch].run = None]
    /\ UNCHANGED <<req, done, sql, futex, idle, rwl, t, closed, pool>>

\* state = 2, or done + 1; then the notify on the same word.
workerDone(ch) ==
    /\ w[ch].pc = "done"
    /\ req' = IF kind = "word" THEN [req EXCEPT ![ch] = 2] ELSE req
    /\ done' = IF kind = "pair" THEN [done EXCEPT ![ch] = (@ + 1) % DoneWrap] ELSE done
    /\ w' = [w EXCEPT ![ch].pc = "notify"]
    /\ UNCHANGED <<sql, rc, result, futex, idle, rwl, t, closed, pool>>
workerNotify(ch) ==
    /\ w[ch].pc = "notify" /\ atomicNotify(DoneWord(ch))
    /\ w' = [w EXCEPT ![ch].pc = "load"]
    /\ UNCHANGED <<chan, waiters, idle, rwl, t, closed, pool>>

-----------------------------------------------------------------------------
\* The callers: SqliteWalPool.kt for a "pair" channel, ch_request and ch_await
\* for a "word" channel.

Opened == \A ch \in Channel : w[ch].pc # "unstarted"
Opening == \E th \in Thread : t[th].mode = "warmup"
to(th, pc) == t' = [t EXCEPT ![th].pc = pc]

\* start_worker, or a turn of the loop of SqliteWalPool.open: start_worker_file_2addr
\* and the first statement, which waits until the worker has its database open.
startWorker(th, ch) ==
    /\ th = 1 /\ w[ch].pc = "unstarted" /\ ~Opening
    /\ ch \in Channel /\ \A c \in 1..(ch - 1) : w[c].pc # "unstarted"
    /\ req' = [req EXCEPT ![ch] = 0] /\ done' = [done EXCEPT ![ch] = 0]
    /\ w' = [w EXCEPT ![ch] = Worker0]
    /\ IF kind = "pair"
       THEN /\ t' = [t EXCEPT ![th].pc = "write", ![th].ch = ch, ![th].mode = "warmup",
                              ![th].tries = pool.retries]
            /\ UNCHANGED idle
       ELSE /\ idle' = idle \cup {ch}
            /\ UNCHANGED t
    /\ UNCHANGED <<sql, rc, result, futex, rwl, closed, pool>>

\* rwl.writeLock().lock() of exec, rwl.readLock().lock() of queryLong and queryText.
lockRwl(th, mode) ==
    /\ Opened /\ ~Opening /\ closed = {}
    /\ t[th].pc = "out" /\ t[th].seq < pool.requests
    /\ rwl.writer = NoThread
    /\ IF mode = "write" /\ kind = "pair"
       THEN rwl.readers = {} /\ rwl' = [rwl EXCEPT !.writer = th]
       ELSE rwl' = [rwl EXCEPT !.readers = @ \cup {th}]
    /\ t' = [t EXCEPT ![th].pc = "locked", ![th].mode = mode, ![th].seq = @ + 1,
                      ![th].tries = pool.retries]
    /\ UNCHANGED <<chan, futex, w, idle, closed, pool>>

\* borrow: idle.take().
take(th, ch) ==
    /\ t[th].pc = "locked" /\ ch \in idle /\ idle' = idle \ {ch}
    /\ t' = [t EXCEPT ![th].pc = "write", ![th].ch = ch]
    /\ UNCHANGED <<chan, futex, w, rwl, closed, pool>>

\* A bug in submitOnce: done is taken to be 0 before the request.
writeSqlDoneZero(th) ==
    LET ch == t[th].ch
    IN  /\ t[th].pc = "write"
        /\ sql' = [sql EXCEPT ![ch] =
                      [thread |-> th, seq |-> t[th].seq, mode |-> t[th].mode]]
        /\ t' = [t EXCEPT ![th].pc = "post", ![th].prev = 0]
        /\ UNCHANGED <<req, done, rc, result, futex, w, idle, rwl, closed, pool>>

\* submitOnce: the SQL, and the value of done before the request.
writeSql(th) ==
    LET ch == t[th].ch
    IN  /\ t[th].pc = "write"
        /\ sql' = [sql EXCEPT ![ch] =
                      [thread |-> th, seq |-> t[th].seq, mode |-> t[th].mode]]
        /\ t' = [t EXCEPT ![th].pc = "post", ![th].prev = done[ch]]
        /\ UNCHANGED <<req, done, rc, result, futex, w, idle, rwl, closed, pool>>

post(th) ==
    /\ t[th].pc = "post" /\ req' = [req EXCEPT ![t[th].ch] = 1]
    /\ to(th, "notify")
    /\ UNCHANGED <<done, sql, rc, result, futex, w, idle, rwl, closed, pool>>
notify(th) ==
    /\ t[th].pc = "notify" /\ atomicNotify(ReqWord(t[th].ch))
    /\ to(th, "check")
    /\ UNCHANGED <<chan, waiters, w, idle, rwl, closed, pool>>

\* An error leaves exec and the queries through their finally blocks, and open
\* without a pool.
Leaving(th) == IF t[th].mode = "warmup" THEN "failed" ELSE "put"

\* The loop's condition. ch_await acknowledges state 2 with 0. After the 30 s of
\* the watchdog ("lastcheck") an unanswered request is an error.
Answered(th) == IF kind = "word" THEN req[t[th].ch] = 2 ELSE done[t[th].ch] # t[th].prev
check(th) ==
    LET ch == t[th].ch
    IN  /\ t[th].pc \in {"check", "lastcheck"}
        /\ IF Answered(th)
           THEN /\ req' = IF kind = "word" THEN [req EXCEPT ![ch] = 0] ELSE req
                /\ t' = [t EXCEPT ![th].pc = "answer", ![th].prev = 0]
           ELSE /\ t' = IF t[th].pc = "lastcheck"
                        THEN [t EXCEPT ![th].pc = Leaving(th), ![th].prev = 0]
                        ELSE IF kind = "word"
                        THEN [t EXCEPT ![th].pc = "wait", ![th].prev = req[ch]]
                        ELSE [t EXCEPT ![th].pc = "wait"]
                /\ UNCHANGED req
        /\ UNCHANGED <<done, sql, rc, result, futex, w, idle, rwl, closed, pool>>

\* atomicWait(done, prevDone, remaining), or wait32(&state, s, 5 ms).
wait(th) ==
    LET a == DoneWord(t[th].ch)
    IN  /\ t[th].pc = "wait"
        /\ IF Value(a) = t[th].prev
           THEN atomicWait(a, th) /\ to(th, "asleep")
           ELSE to(th, "check") /\ UNCHANGED waiters
        /\ UNCHANGED <<chan, pending, w, idle, rwl, closed, pool>>
woken(th) ==
    /\ t[th].pc = "asleep" /\ Woken(DoneWord(t[th].ch), th)
    /\ leaveWait(DoneWord(t[th].ch), th, 1) /\ to(th, "check")
    /\ UNCHANGED <<chan, w, idle, rwl, closed, pool>>
timeout(th) ==
    /\ t[th].pc = "asleep" /\ (kind = "word" \/ Watchdog)
    /\ leaveWait(DoneWord(t[th].ch), th, 0)
    /\ to(th, IF kind = "word" THEN "check" ELSE "lastcheck")
    /\ UNCHANGED <<chan, w, idle, rwl, closed, pool>>

\* The outcome is read; submit tries again while it is SQLITE_BUSY.
answer(th) ==
    LET ch == t[th].ch
        again == kind = "pair" /\ rc[ch] = BUSY /\ t[th].tries > 0
    IN  /\ t[th].pc = "answer"
        /\ t' = IF again
                THEN [t EXCEPT ![th].pc = "write", ![th].tries = @ - 1]
                ELSE [t EXCEPT ![th].pc = IF rc[ch] = OK THEN "put" ELSE Leaving(th),
                               ![th].got = result[ch]]
        /\ UNCHANGED <<chan, futex, w, idle, rwl, closed, pool>>

\* finally: idle.put(ch), then the unlock.
put(th) ==
    /\ t[th].pc = "put"
    /\ idle' = idle \cup {t[th].ch}
    /\ rwl' = [readers |-> rwl.readers \ {th},
               writer |-> IF rwl.writer = th THEN NoThread ELSE rwl.writer]
    /\ t' = [t EXCEPT ![th] = [Caller0 EXCEPT !.seq = t[th].seq]]
    /\ UNCHANGED <<chan, futex, w, closed, pool>>

\* A bug in close: the worker is not notified.
stopQuietly(ch) ==
    /\ Opened /\ ~Opening /\ ch \in Channel \ closed
    /\ \A th \in Thread : t[th].pc = "out"
    /\ req' = [req EXCEPT ![ch] = 3] /\ closed' = closed \cup {ch}
    /\ UNCHANGED <<done, sql, rc, result, futex, w, idle, rwl, t, pool>>

\* SqliteWalPool.close, or ch_stop: req = 3 and the notify, channel by channel,
\* once the callers are done (the pool is closed by use { }).
stop(ch) ==
    /\ Opened /\ ~Opening /\ ch \in Channel \ closed /\ \A th \in Thread : t[th].pc = "out"
    /\ req' = [req EXCEPT ![ch] = 3] /\ closed' = closed \cup {ch}
    /\ atomicNotify(ReqWord(ch))
    /\ UNCHANGED <<done, sql, rc, result, waiters, w, idle, rwl, t, pool>>

-----------------------------------------------------------------------------
WorkerStep(ch) ==
    \/ workerLoad(ch) \/ workerWait(ch) \/ workerWoken(ch) \/ workerTimeout(ch)
    \/ workerExec(ch) \/ workerExecuted(ch) \/ workerDone(ch) \/ workerNotify(ch)

CallerStep(th) ==
    \/ writeSql(th) \/ post(th) \/ notify(th) \/ check(th) \/ wait(th) \/ woken(th)
    \/ timeout(th) \/ answer(th) \/ put(th)
    \/ \E ch \in Channel : take(th, ch)

\* Once every channel is stopped, or open has failed, nothing more has to happen.
Finished ==
    /\ closed = Channel \/ \E th \in Thread : t[th].pc = "failed"
    /\ UNCHANGED vars

Next ==
    \/ \E ch \in Channel : WorkerStep(ch) \/ stop(ch)
    \/ \E th \in Thread, ch \in Channel : startWorker(th, ch)
    \/ \E th \in Thread, mode \in {"read", "write"} : lockRwl(th, mode)
    \/ \E th \in Thread : CallerStep(th)
    \/ Finished

\* Every thread runs: the workers' and the callers' steps are not put off for
\* ever. Nobody has to submit or to close.
Spec ==
    /\ Init /\ [][Next]_vars
    /\ \A ch \in AllChannels : WF_vars(ch \in Channel /\ WorkerStep(ch))
    /\ \A th \in AllThreads : WF_vars(th \in Thread /\ CallerStep(th))

-----------------------------------------------------------------------------
\* Properties.

\* The type invariant: a wakeup is pending for at most every waiter there can be, a
\* channel in the pool has no caller, and the lock has readers or a writer.
ChannelTypeOK ==
    /\ \A ch \in Channel : req[ch] \in 0..3 /\ done[ch] \in 0..(DoneWrap - 1)
    /\ \A a \in Words : pending[a] \in 0..(Cardinality(Thread) + 1)
    /\ \A th \in Thread : t[th].ch \in idle => t[th].pc = "out"
    /\ rwl.writer # NoThread => rwl.readers = {}

\* A caller of submitOnce or of ch_await gets the outcome of its own statement:
\* the channel carries requests and answers in turn, and neither is taken twice
\* or for another's.
AnswersOwnRequest ==
    \A th \in Thread :
        /\ t[th].pc = "put" /\ t[th].got # None
        => t[th].got = [thread |-> th, seq |-> t[th].seq, mode |-> t[th].mode]

\* Every request is answered: no wakeup is lost between the words, neither with
\* two addresses and no timeout nor with one address and 5 ms.
RequestsAnswered ==
    \A th \in AllThreads :
        (th \in Thread /\ t[th].pc = "post")
            ~> (th \in Thread /\ t[th].pc \in {"put", "failed"})

\* Every worker ends once its channel is stopped.
StopEndsWorkers ==
    \A ch \in AllChannels : (ch \in closed) ~> (ch \in closed /\ w[ch].pc = "ended")
=============================================================================
