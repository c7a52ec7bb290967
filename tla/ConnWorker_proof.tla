-------------------------- MODULE ConnWorker_proof --------------------------
(***************************************************************************)
(* A caller gets the answer to its own statement, for channels of either   *)
(* kind, any number of channels, callers, requests and retries, and any    *)
(* counter width: the request in a channel is its owner's, and it is       *)
(* posted, loaded, executed and answered in turn.                          *)
(***************************************************************************)
EXTENDS ConnWorker, TLAPS

\* The 30 seconds of submitOnce do not pass before an answer.
AnswersInTime == Watchdog = FALSE

Requests == [thread : Nat, seq : Nat, mode : {"none", "warmup", "read", "write"}]
Quiet == {"load", "wait", "asleep", "notify"}
Busy == {"exec", "running", "done"}
Awaiting == {"notify", "check", "wait", "asleep"}
Owning == Awaiting \cup {"write", "post", "answer", "put", "failed"}

\* Where the callers and the workers are, the request of a caller and what it got.
PC == [x \in Thread |-> t[x].pc]
CH == [x \in Thread |-> t[x].ch]
MODE == [x \in Thread |-> t[x].mode]
PREV == [x \in Thread |-> t[x].prev]
GOT == [x \in Thread |-> t[x].got]
Tag(x, n, m) == [thread |-> x, seq |-> n, mode |-> m]
ID == [x \in Thread |-> Tag(x, t[x].seq, t[x].mode)]
WPC == [ch \in Channel |-> w[ch].pc]
RUN == [ch \in Channel |-> w[ch].run]

CallerRecord == [pc : Owning \cup {"out", "locked"}, ch : Channel \cup {NoChannel},
                 mode : {"none", "warmup", "read", "write"}, seq : Nat, prev : Nat,
                 tries : Int, got : Requests]
WorkerRecord == [pc : Quiet \cup Busy \cup {"unstarted", "ended"}, s : 0 .. 3, run : Requests]

ChannelTypes ==
    /\ pool \in Pools
    /\ req \in [Channel -> 0 .. 3] /\ done \in [Channel -> Nat]
    /\ sql \in [Channel -> Requests] /\ result \in [Channel -> Requests]
    /\ w \in [Channel -> WorkerRecord] /\ t \in [Thread -> CallerRecord]

\* A channel is in the pool or has one owner, and its worker was started.
OwnersInv ==
    /\ idle \subseteq Channel
    /\ \A x \in Thread : PC[x] \in Owning =>
          CH[x] \in Channel /\ CH[x] \notin idle /\ WPC[CH[x]] # "unstarted"
    /\ \A x, y \in Thread : PC[x] \in Owning /\ PC[y] \in Owning /\ CH[x] = CH[y] => x = y
    /\ \A ch \in idle : WPC[ch] # "unstarted"

\* Nobody has the pool before it is open or once a channel is stopped.
LifeInv ==
    /\ \A ch \in Channel : WPC[ch] = "unstarted" =>
          \A x \in Thread : PC[x] = "out" \/ MODE[x] = "warmup"
    /\ \A ch \in Channel : req[ch] = 3 \/ WPC[ch] = "ended" => closed # {}
    /\ closed # {} => /\ \A x \in Thread : PC[x] = "out"
                      /\ \A ch \in Channel : WPC[ch] # "unstarted"

\* A worker is busy, and a request or an answer is in the channel, only while the
\* owner of the channel waits for it.
BusyInv ==
    \A ch \in Channel : WPC[ch] \in Busy \/ req[ch] \in {1, 2} =>
        \E x \in Thread : PC[x] \in Awaiting /\ CH[x] = ch

\* The turns of the request id in a channel of kind k: it is posted, loaded,
\* executed, answered.  q, d, s and o are the words, the SQL and the result of the
\* channel, p and run the state of its worker, and prev is what its owner saw.
Turn(k, q, d, s, o, p, run, prev, id) ==
    /\ s = id
    /\ \/ q = 1 /\ p \in Quiet /\ (k = "pair" => d = prev)
       \/ /\ q = (IF k = "word" THEN 1 ELSE 0) /\ p \in Busy /\ (k = "pair" => d = prev)
          /\ p = "running" => run = id
          /\ p = "done" => o = id
       \/ q = (IF k = "word" THEN 2 ELSE 0) /\ p \in Quiet /\ o = id

TurnsInv ==
    \A x \in Thread : PC[x] \in Awaiting =>
        Turn(kind, req[CH[x]], done[CH[x]], sql[CH[x]], result[CH[x]], WPC[CH[x]], RUN[CH[x]], PREV[x], ID[x])

\* What its owner wrote, or will read, is in the channel.
OutcomeInv ==
    \A x \in Thread :
        /\ PC[x] = "post" => sql[CH[x]] = ID[x] /\ (kind = "pair" => PREV[x] = done[CH[x]])
        /\ PC[x] = "answer" => result[CH[x]] = ID[x]
        /\ PC[x] = "put" => GOT[x] = ID[x]

\* What the inductive invariant adds to the types.
Protocol == OwnersInv /\ LifeInv /\ BusyInv /\ TurnsInv /\ OutcomeInv

\* Only the record of the caller th changes, and it is r then.
Moved(th, r) ==
    \A x \in Thread : /\ PC'[x] = IF x = th THEN r.pc ELSE PC[x]
                      /\ CH'[x] = IF x = th THEN r.ch ELSE CH[x]
                      /\ MODE'[x] = IF x = th THEN r.mode ELSE MODE[x]
                      /\ PREV'[x] = IF x = th THEN r.prev ELSE PREV[x]
                      /\ GOT'[x] = IF x = th THEN r.got ELSE GOT[x]
                      /\ x # th \/ (r.seq = t[th].seq /\ r.mode = t[th].mode) => ID'[x] = ID[x]

\* Only the record of the worker of ch changes, and it is r then.
Worked(ch, r) ==
    \A c \in Channel : /\ WPC'[c] = IF c = ch THEN r.pc ELSE WPC[c]
                       /\ RUN'[c] = IF c = ch THEN r.run ELSE RUN[c]

\* What a step does that changes one caller's record, ...
LEMMA CallerMoves ==
    ASSUME ChannelTypes, NEW th \in Thread, NEW r \in CallerRecord, pool' = pool, t' = [t EXCEPT ![th] = r]
    PROVE  Moved(th, r) /\ t' \in [Thread' -> CallerRecord']
<1>1. Thread' = Thread /\ CallerRecord' = CallerRecord
  BY Zenon DEF Thread, Channel, CallerRecord
<1>2. \A x \in Thread : t'[x] = IF x = th THEN r ELSE t[x]
  BY Zenon DEF ChannelTypes
<1>3. \A x \in Thread : /\ ID[x] = Tag(x, t[x].seq, t[x].mode)
                        /\ ID'[x] = Tag(x, t'[x].seq, t'[x].mode)
  BY <1>1, Zenon DEF ID
<1>4. ASSUME NEW x \in Thread, x # th \/ (r.seq = t[th].seq /\ r.mode = t[th].mode) PROVE ID'[x] = ID[x]
  <2>1. t'[x].seq = t[x].seq /\ t'[x].mode = t[x].mode
    BY <1>2, <1>4, Zenon
  <2> QED
    BY <1>3, <2>1, Zenon
<1>5. Moved(th, r)
  BY <1>1, <1>2, <1>4 DEF PC, CH, MODE, PREV, GOT, Moved
<1>6. t' \in [Thread' -> CallerRecord']
  BY <1>1, Zenon DEF ChannelTypes
<1> QED
  BY <1>5, <1>6, Zenon

\* ... or one worker's.
LEMMA WorkerMoves ==
    ASSUME ChannelTypes, NEW ch \in Channel, NEW r \in WorkerRecord, pool' = pool, w' = [w EXCEPT ![ch] = r]
    PROVE  Worked(ch, r) /\ w' \in [Channel' -> WorkerRecord]
<1>1. Channel' = Channel
  BY Zenon DEF Channel
<1>2. \A c \in Channel : w'[c] = IF c = ch THEN r ELSE w[c]
  BY Zenon DEF ChannelTypes
<1> QED
  BY <1>1, <1>2, Zenon DEF WPC, RUN, Worked, ChannelTypes

\* A step that leaves the callers, ...
LEMMA CallersAlone ==
    ASSUME ChannelTypes, pool' = pool, t' = t
    PROVE  UNCHANGED <<PC, CH, MODE, PREV, GOT, ID>> /\ t' \in [Thread' -> CallerRecord']
  BY Zenon DEF PC, CH, MODE, PREV, GOT, ID, Thread, Channel, CallerRecord, ChannelTypes

\* ... or the workers alone.
LEMMA WorkersAlone ==
    ASSUME ChannelTypes, pool' = pool, w' = w
    PROVE  UNCHANGED <<WPC, RUN>> /\ w' \in [Channel' -> WorkerRecord]
  BY Zenon DEF WPC, RUN, Channel, ChannelTypes

\* The values of the functions.
LEMMA Values ==
    ASSUME ChannelTypes
    PROVE  /\ \A x \in Thread : /\ PC[x] = t[x].pc /\ CH[x] = t[x].ch /\ MODE[x] = t[x].mode /\ PREV[x] = t[x].prev
                                /\ GOT[x] = t[x].got /\ ID[x] = Tag(x, t[x].seq, t[x].mode)
                                /\ t[x] \in CallerRecord
           /\ \A c \in Channel : WPC[c] = w[c].pc /\ RUN[c] = w[c].run /\ w[c] \in WorkerRecord
           /\ None \in Requests
           /\ \A x \in Thread : ID[x] \in Requests
<1>1. \A x \in Thread : t[x] \in CallerRecord /\ t[x].seq \in Nat /\ t[x].mode \in {"none", "warmup", "read", "write"} /\ x \in Nat
  BY SMTT(30) DEF ChannelTypes, CallerRecord, Thread
<1>2. \A x \in Thread : Tag(x, t[x].seq, t[x].mode) \in Requests
  BY <1>1, Zenon DEF Tag, Requests
<1>3. None \in Requests
  BY Zenon DEF None, Requests, NoThread
<1> QED
  BY <1>1, <1>2, <1>3, Zenon DEF PC, CH, MODE, PREV, GOT, ID, WPC, RUN, ChannelTypes

\* The sets and the kind of channel of a behaviour do not change.
LEMMA PoolKept == ASSUME pool' = pool PROVE Channel' = Channel /\ Thread' = Thread /\ kind' = kind
  BY Zenon DEF Channel, Thread, kind

\* A worker that stays quiet changes nothing of the protocol,
LEMMA QuietWorker ==
    ASSUME Protocol, NEW ch \in Channel, pool' = pool,
           UNCHANGED <<req, done, sql, result, idle, closed, PC, CH, MODE, PREV, GOT, ID>>,
           WPC[ch] \in Quiet, WPC'[ch] \in Quiet,
           \A c \in Channel : RUN'[c] = RUN[c] /\ (c # ch => WPC'[c] = WPC[c])
    PROVE  Protocol'
<1>0. Channel' = Channel /\ Thread' = Thread /\ kind' = kind
  BY PoolKept, Zenon
<1>1. \A c \in Channel : /\ WPC'[c] \in Quiet <=> WPC[c] \in Quiet
                         /\ WPC'[c] \notin Quiet => WPC'[c] = WPC[c]
  BY Zenon
<1>2. OwnersInv'
  BY <1>0, <1>1, ZenonT(30) DEF Protocol, OwnersInv, Quiet
<1>3. LifeInv'
  BY <1>0, <1>1 DEF Protocol, LifeInv, Quiet
<1>4. BusyInv'
  BY <1>0, <1>1, Zenon DEF Protocol, BusyInv, Quiet, Busy
<1>5. TurnsInv'
  <2> SUFFICES ASSUME NEW x \in Thread, PC[x] \in Awaiting
               PROVE  Turn(kind, req[CH[x]], done[CH[x]], sql[CH[x]], result[CH[x]], WPC'[CH[x]], RUN'[CH[x]], PREV[x], ID[x])
    BY <1>0, Zenon DEF TurnsInv
  <2>1. CH[x] \in Channel
    BY Zenon DEF Protocol, OwnersInv, Owning
  <2> QED
    BY <2>1, <1>1, Zenon DEF Protocol, TurnsInv, Turn, Quiet, Busy
<1>6. OutcomeInv'
  BY <1>0, Zenon DEF Protocol, OutcomeInv
<1> QED
  BY <1>2, <1>3, <1>4, <1>5, <1>6, Zenon DEF Protocol

\* Nor does a step of the owner of a channel, or of its worker, break it for the
\* others: what it has to keep is the owner's turn.
LEMMA OwnerTurn ==
    ASSUME Protocol, NEW th \in Thread, NEW ch \in Channel, ch = CH[th], pool' = pool, UNCHANGED <<idle, closed>>,
           PC[th] \in Owning, PC'[th] \in Owning,
           \A x \in Thread : /\ CH'[x] = CH[x] /\ MODE'[x] = MODE[x] /\ ID'[x] = ID[x]
                             /\ x # th => PC'[x] = PC[x] /\ PREV'[x] = PREV[x] /\ GOT'[x] = GOT[x],
           \A c \in Channel : c # ch => /\ req'[c] = req[c] /\ done'[c] = done[c] /\ sql'[c] = sql[c]
                                        /\ result'[c] = result[c] /\ WPC'[c] = WPC[c] /\ RUN'[c] = RUN[c],
           req'[ch] # 3, WPC'[ch] \notin {"unstarted", "ended"},
           WPC'[ch] \in Busy \/ req'[ch] \in {1, 2} => PC'[th] \in Awaiting,
           PC'[th] \in Awaiting =>
              Turn(kind, req'[ch], done'[ch], sql'[ch], result'[ch], WPC'[ch], RUN'[ch], PREV'[th], ID[th]),
           PC'[th] = "post" => sql'[ch] = ID[th] /\ (kind = "pair" => PREV'[th] = done'[ch]),
           PC'[th] = "answer" => result'[ch] = ID[th],
           PC'[th] = "put" => GOT'[th] = ID[th]
    PROVE  Protocol'
<1>0. Channel' = Channel /\ Thread' = Thread /\ kind' = kind
  BY PoolKept, Zenon
<1>1. \A x \in Thread : PC'[x] \in Owning => PC[x] \in Owning
  BY Zenon
<1>2. ASSUME NEW x \in Thread, x # th, PC[x] \in Owning PROVE CH[x] \in Channel /\ CH[x] # ch
  BY <1>2, Zenon DEF Protocol, OwnersInv
<1>3. OwnersInv'
  BY <1>0, <1>1, <1>2 DEF Protocol, OwnersInv
<1>4. LifeInv'
  <2>1. PC[th] # "out" /\ closed = {}
    BY Zenon DEF Protocol, LifeInv, Owning, Awaiting
  <2>2. WPC[ch] # "unstarted"
    BY Zenon DEF Protocol, OwnersInv
  <2>3. \A c \in Channel : WPC'[c] = "unstarted" => MODE[th] = "warmup"
    BY <2>1, ZenonT(30) DEF Protocol, LifeInv
  <2> QED
    BY <1>0, <2>1, <2>2, <2>3 DEF Protocol, LifeInv
<1>5. BusyInv'
  <2> SUFFICES ASSUME NEW c \in Channel, WPC'[c] \in Busy \/ req'[c] \in {1, 2}
               PROVE  \E x \in Thread : PC'[x] \in Awaiting /\ CH'[x] = c
    BY <1>0, Zenon DEF BusyInv
  <2>1. CASE c = ch
    BY <2>1, Zenon
  <2>2. CASE c # ch
    <3>1. PICK x \in Thread : PC[x] \in Awaiting /\ CH[x] = c
      BY <2>2, Zenon DEF Protocol, BusyInv
    <3> QED
      BY <2>2, <3>1, Zenon
  <2> QED
    BY <2>1, <2>2, Zenon
<1>6. TurnsInv'
  <2> SUFFICES ASSUME NEW x \in Thread, PC'[x] \in Awaiting, x # th
               PROVE  Turn(kind, req'[CH[x]], done'[CH[x]], sql'[CH[x]], result'[CH[x]], WPC'[CH[x]], RUN'[CH[x]], PREV'[x], ID[x])
    BY <1>0 DEF TurnsInv
  <2>1. PC[x] \in Awaiting /\ CH[x] \in Channel /\ CH[x] # ch
    BY <1>2, Zenon DEF Owning
  <2> QED
    BY <2>1, Zenon DEF Protocol, TurnsInv
<1>7. OutcomeInv'
  <2> SUFFICES ASSUME NEW x \in Thread, x # th
               PROVE  /\ PC'[x] = "post" => sql'[CH[x]] = ID[x] /\ (kind = "pair" => PREV'[x] = done'[CH[x]])
                      /\ PC'[x] = "answer" => result'[CH[x]] = ID[x]
                      /\ PC'[x] = "put" => GOT'[x] = ID[x]
    BY <1>0 DEF OutcomeInv
  <2>1. PC[x] \in {"post", "answer"} => CH[x] \in Channel /\ CH[x] # ch
    BY <1>2, Zenon DEF Owning
  <2> QED
    BY <2>1 DEF Protocol, OutcomeInv
<1> QED
  BY <1>3, <1>4, <1>5, <1>6, <1>7, Zenon DEF Protocol

\* The steps of a worker keep the protocol.
LEMMA WorkerKeeps ==
    ASSUME ChannelTypes, Protocol, NEW ch \in Channel, WorkerStep(ch) PROVE ChannelTypes' /\ Protocol'
<1>0. /\ pool' = pool /\ UNCHANGED <<PC, CH, MODE, PREV, GOT, ID>> /\ t' \in [Thread' -> CallerRecord']
      /\ UNCHANGED <<sql, idle, closed>>
  BY CallersAlone, Zenon DEF WorkerStep, workerLoad, workerWait, workerWoken, workerTimeout, workerExec, workerExecuted,
     workerDone, workerNotify, chan
<1>1. Channel' = Channel /\ Thread' = Thread /\ kind' = kind
  BY <1>0, PoolKept, Zenon
<1>2. /\ w[ch] \in WorkerRecord /\ WPC[ch] = w[ch].pc /\ RUN[ch] = w[ch].run /\ None \in Requests
      /\ req[ch] \in 0 .. 3 /\ sql[ch] \in Requests
  BY Values, Zenon DEF ChannelTypes
<1>3. ASSUME NEW r \in WorkerRecord, w' = [w EXCEPT ![ch] = r], UNCHANGED <<req, done, result>>,
             WPC[ch] \in Quiet, r.pc \in Quiet, r.run = w[ch].run
      PROVE  ChannelTypes' /\ Protocol'
  <2>1. Worked(ch, r) /\ w' \in [Channel' -> WorkerRecord]
    BY <1>0, <1>3, WorkerMoves, Zenon
  <2>2. ChannelTypes'
    BY <1>0, <1>1, <1>3, <2>1, Zenon DEF ChannelTypes
  <2>3. /\ WPC'[ch] \in Quiet
        /\ \A c \in Channel : RUN'[c] = RUN[c] /\ (c # ch => WPC'[c] = WPC[c])
    BY <1>2, <1>3, <2>1, Zenon DEF Worked
  <2>4. Protocol'
    BY <1>0, <1>3, <2>3, QuietWorker, Zenon
  <2> QED
    BY <2>2, <2>4, Zenon
<1>4. CASE workerWait(ch)
  <2>1. PICK r : /\ w' = [w EXCEPT ![ch] = r]
                 /\ r \in {[w[ch] EXCEPT !.pc = "asleep", !.s = 0], [w[ch] EXCEPT !.pc = "load", !.s = 0]}
    BY <1>4, Zenon DEF workerWait, ChannelTypes
  <2>2. r \in WorkerRecord /\ r.pc \in Quiet /\ r.run = w[ch].run
    <3>1. PICK z \in 0 .. 3, p \in {"asleep", "load"} : r = [w[ch] EXCEPT !.pc = p, !.s = z]
      BY <2>1
    <3> HIDE <2>1
    <3> QED
      BY <1>2, <3>1, Zenon DEF WorkerRecord, Quiet
  <2>3. WPC[ch] \in Quiet /\ UNCHANGED <<req, done, result>>
    BY <1>2, <1>4, Zenon DEF workerWait, Quiet
  <2> QED
    BY <2>1, <2>2, <2>3, <1>3, Zenon
<1>5. CASE workerWoken(ch) \/ workerTimeout(ch) \/ workerNotify(ch)
  <2>1. PICK r : w' = [w EXCEPT ![ch] = r] /\ r = [w[ch] EXCEPT !.pc = "load"]
    BY <1>5, Zenon DEF workerWoken, workerTimeout, workerNotify, ChannelTypes
  <2>2. r \in WorkerRecord /\ r.pc \in Quiet /\ r.run = w[ch].run
    BY <1>2, <2>1, Zenon DEF WorkerRecord, Quiet
  <2>3. WPC[ch] \in Quiet /\ UNCHANGED <<req, done, result>>
    BY <1>2, <1>5, Zenon DEF workerWoken, workerTimeout, workerNotify, Quiet, chan
  <2> QED
    BY <2>1, <2>2, <2>3, <1>3, Zenon
<1>6. CASE workerLoad(ch) /\ req[ch] \notin {1, 3}
  <2>1. PICK r : w' = [w EXCEPT ![ch] = r] /\ r = [w[ch] EXCEPT !.pc = "wait", !.s = req[ch]]
    BY <1>6, Zenon DEF workerLoad, ChannelTypes
  <2>2. r \in WorkerRecord /\ r.pc \in Quiet /\ r.run = w[ch].run
    BY <1>2, <2>1, Zenon DEF WorkerRecord, Quiet
  <2>3. WPC[ch] \in Quiet /\ UNCHANGED <<req, done, result>>
    BY <1>2, <1>6, Zenon DEF workerLoad, Quiet
  <2> QED
    BY <2>1, <2>2, <2>3, <1>3, Zenon
<1>7. CASE workerLoad(ch) /\ req[ch] = 3
  <2>0. w' = [w EXCEPT ![ch] = [w[ch] EXCEPT !.pc = "ended"]]
    <3>1. req[ch] = 3 /\ req[ch] # 1
      BY <1>7
    <3> QED
      BY <1>7, <3>1, Zenon DEF workerLoad, ChannelTypes
  <2>1. PICK r : w' = [w EXCEPT ![ch] = r] /\ r = [w[ch] EXCEPT !.pc = "ended"]
    BY <2>0, Zenon
  <2>2. r \in WorkerRecord /\ r.pc = "ended"
    BY <1>2, <2>1, Zenon DEF WorkerRecord
  <2>3. UNCHANGED <<req, done, result>>
    BY <1>7 DEF workerLoad
  <2>4. Worked(ch, r) /\ w' \in [Channel' -> WorkerRecord]
    BY <1>0, <2>1, <2>2, WorkerMoves, Zenon
  <2>5. ChannelTypes'
    BY <1>0, <1>1, <2>3, <2>4, Zenon DEF ChannelTypes
  <2>6. \A c \in Channel : WPC'[c] = IF c = ch THEN "ended" ELSE WPC[c]
    BY <2>2, <2>4, Zenon DEF Worked
  <2>7. closed # {} /\ \A x \in Thread : PC[x] = "out"
    BY <1>7, Zenon DEF Protocol, LifeInv
  <2>8. OwnersInv' /\ LifeInv' /\ TurnsInv' /\ OutcomeInv'
    BY <1>0, <1>1, <2>3, <2>6, <2>7 DEF Protocol, OwnersInv, LifeInv, TurnsInv, OutcomeInv, Owning, Awaiting
  <2>9. BusyInv'
    BY <1>0, <1>1, <2>3, <2>6, Zenon DEF Protocol, BusyInv, Busy
  <2> QED
    BY <2>5, <2>8, <2>9, Zenon DEF Protocol
<1>8. CASE WPC[ch] \in Busy \/ (workerLoad(ch) /\ req[ch] = 1)
  <2>1. PICK th \in Thread : PC[th] \in Awaiting /\ CH[th] = ch
    BY <1>8, Zenon DEF Protocol, BusyInv
  <2>2. Turn(kind, req[ch], done[ch], sql[ch], result[ch], WPC[ch], RUN[ch], PREV[th], ID[th])
    BY <2>1, Zenon DEF Protocol, TurnsInv
  <2>3. /\ PC[th] \in Owning /\ PC'[th] \in Awaiting /\ PC'[th] \in Owning /\ PC'[th] \notin {"post", "answer", "put"}
    BY <1>0, <2>1, Zenon DEF Owning, Awaiting
  <2>4. ASSUME NEW r \in WorkerRecord, w' = [w EXCEPT ![ch] = r], r.pc \in Quiet \cup Busy,
               \A c \in Channel : c # ch => req'[c] = req[c] /\ done'[c] = done[c] /\ result'[c] = result[c],
               Turn(kind, req'[ch], done'[ch], sql[ch], result'[ch], r.pc, r.run, PREV[th], ID[th])
        PROVE  Protocol' /\ w' \in [Channel' -> WorkerRecord]
    <3>1. Worked(ch, r) /\ w' \in [Channel' -> WorkerRecord]
      BY <1>0, <2>4, WorkerMoves, Zenon
    <3>2. WPC'[ch] = r.pc /\ RUN'[ch] = r.run /\ \A c \in Channel : c # ch => WPC'[c] = WPC[c] /\ RUN'[c] = RUN[c]
      BY <3>1, Zenon DEF Worked
    <3>3. WPC'[ch] \notin {"unstarted", "ended"} /\ req'[ch] # 3
      BY <2>4, <3>2 DEF Turn, Quiet, Busy
    <3>4. Turn(kind, req'[ch], done'[ch], sql'[ch], result'[ch], WPC'[ch], RUN'[ch], PREV'[th], ID[th])
      BY <1>0, <2>4, <3>2, Zenon
    <3>5. \A x \in Thread : /\ CH'[x] = CH[x] /\ MODE'[x] = MODE[x] /\ ID'[x] = ID[x]
                            /\ x # th => PC'[x] = PC[x] /\ PREV'[x] = PREV[x] /\ GOT'[x] = GOT[x]
      BY <1>0, Zenon
    <3>6. \A c \in Channel : c # ch => /\ req'[c] = req[c] /\ done'[c] = done[c] /\ sql'[c] = sql[c]
                                       /\ result'[c] = result[c] /\ WPC'[c] = WPC[c] /\ RUN'[c] = RUN[c]
      BY <1>0, <2>4, <3>2, Zenon
    <3>7. pool' = pool /\ UNCHANGED <<idle, closed>> /\ ch = CH[th]
      BY <1>0, <2>1, Zenon
    <3>8. Protocol'
      BY <2>3, <3>3, <3>4, <3>5, <3>6, <3>7, OwnerTurn, Zenon
    <3> QED
      BY <3>1, <3>8, Zenon
  <2>5. CASE workerLoad(ch) /\ req[ch] = 1
    <3>1. PICK r : w' = [w EXCEPT ![ch] = r] /\ r = [w[ch] EXCEPT !.pc = "exec"]
      BY <2>5, Zenon DEF workerLoad, ChannelTypes
    <3>2. r \in WorkerRecord /\ r.pc = "exec"
      BY <1>2, <3>1, Zenon DEF WorkerRecord, Busy
    <3>3. /\ UNCHANGED <<done, result>> /\ WPC[ch] = "load"
          /\ req' = IF kind = "pair" THEN [req EXCEPT ![ch] = 0] ELSE req
      BY <1>2, <2>5, Zenon DEF workerLoad
    <3>4. kind \in {"word", "pair"}
      BY ChannelAssumption, Zenon DEF ChannelTypes, kind
    <3>5. /\ req' \in [Channel -> 0 .. 3] /\ req'[ch] = IF kind = "word" THEN 1 ELSE 0
          /\ \A c \in Channel : c # ch => req'[c] = req[c]
      BY <2>5, <3>3, <3>4 DEF ChannelTypes
    <3>6. kind = "pair" => done'[ch] = PREV[th]
      BY <2>2, <2>5, <3>3 DEF Turn, Quiet, Busy
    <3>7. Protocol' /\ w' \in [Channel' -> WorkerRecord]
      BY <2>2, <2>4, <3>1, <3>2, <3>3, <3>5, <3>6, Zenon DEF Turn, Quiet, Busy
    <3> QED
      BY <1>0, <1>1, <3>3, <3>5, <3>7, Zenon DEF ChannelTypes
  <2>6. CASE workerExec(ch)
    <3>1. PICK r : w' = [w EXCEPT ![ch] = r] /\ r = [w[ch] EXCEPT !.pc = "running", !.run = sql[ch]]
      BY <2>6, Zenon DEF workerExec, ChannelTypes
    <3>2. r \in WorkerRecord /\ r.pc = "running" /\ r.run = sql[ch]
      BY <1>2, <3>1, Zenon DEF WorkerRecord, Busy
    <3>3. UNCHANGED <<req, done>> /\ WPC[ch] = "exec" /\ result' = [result EXCEPT ![ch] = None]
      BY <1>2, <2>6, Zenon DEF workerExec
    <3>4. result' \in [Channel -> Requests] /\ \A c \in Channel : c # ch => result'[c] = result[c]
      BY <1>2, <3>3, Zenon DEF ChannelTypes
    <3>5. req[ch] = (IF kind = "word" THEN 1 ELSE 0) /\ (kind = "pair" => done[ch] = PREV[th])
      BY <2>2, <3>3, Zenon DEF Turn, Quiet, Busy
    <3>6. Protocol' /\ w' \in [Channel' -> WorkerRecord]
      BY <2>2, <2>4, <3>1, <3>2, <3>3, <3>4, <3>5, Zenon DEF Turn, Quiet, Busy
    <3> QED
      BY <1>0, <1>1, <3>3, <3>4, <3>6, Zenon DEF ChannelTypes
  <2>7. CASE workerExecuted(ch)
    <3>1. PICK r : w' = [w EXCEPT ![ch] = r] /\ r = [w[ch] EXCEPT !.pc = "done", !.run = None]
      BY <2>7, Zenon DEF workerExecuted, ChannelTypes
    <3>2. r \in WorkerRecord /\ r.pc = "done"
      BY <1>2, <3>1, Zenon DEF WorkerRecord, Busy
    <3>3. UNCHANGED <<req, done>> /\ WPC[ch] = "running" /\ result' = [result EXCEPT ![ch] = w[ch].run] /\ w[ch].run \in Requests
      BY <1>2, <2>7, Zenon DEF workerExecuted, WorkerRecord
    <3>4. /\ result' \in [Channel -> Requests] /\ \A c \in Channel : c # ch => result'[c] = result[c]
          /\ result'[ch] = RUN[ch]
      BY <1>2, <3>3, Zenon DEF ChannelTypes
    <3>5. req[ch] = (IF kind = "word" THEN 1 ELSE 0) /\ (kind = "pair" => done[ch] = PREV[th]) /\ RUN[ch] = ID[th]
      BY <2>2, <3>3, Zenon DEF Turn, Quiet, Busy
    <3>6. Protocol' /\ w' \in [Channel' -> WorkerRecord]
      BY <2>2, <2>4, <3>1, <3>2, <3>3, <3>4, <3>5, Zenon DEF Turn, Quiet, Busy
    <3> QED
      BY <1>0, <1>1, <3>3, <3>4, <3>6, Zenon DEF ChannelTypes
  <2>8. CASE workerDone(ch)
    <3>1. PICK r : w' = [w EXCEPT ![ch] = r] /\ r = [w[ch] EXCEPT !.pc = "notify"]
      BY <2>8, Zenon DEF workerDone, ChannelTypes
    <3>2. r \in WorkerRecord /\ r.pc = "notify"
      BY <1>2, <3>1, Zenon DEF WorkerRecord, Quiet
    <3>3. /\ UNCHANGED result /\ WPC[ch] = "done"
          /\ req' = IF kind = "word" THEN [req EXCEPT ![ch] = 2] ELSE req
          /\ done' = IF kind = "pair" THEN [done EXCEPT ![ch] = (@ + 1) % DoneWrap] ELSE done
      BY <1>2, <2>8, Zenon DEF workerDone
    <3>4. /\ req[ch] = (IF kind = "word" THEN 1 ELSE 0) /\ result[ch] = ID[th]
      BY <2>2, <3>3, Zenon DEF Turn, Quiet, Busy
    <3>5. /\ req' \in [Channel -> 0 .. 3] /\ req'[ch] = IF kind = "word" THEN 2 ELSE 0
          /\ \A c \in Channel : c # ch => req'[c] = req[c]
      BY <3>3, <3>4 DEF ChannelTypes
    <3>6. done' \in [Channel -> Nat] /\ \A c \in Channel : c # ch => done'[c] = done[c]
      <4>1. \A n \in Nat : (n + 1) % DoneWrap \in Nat
        BY ChannelAssumption
      <4> QED
        BY <3>3, <4>1, Zenon DEF ChannelTypes
    <3>7. Protocol' /\ w' \in [Channel' -> WorkerRecord]
      BY <2>2, <2>4, <3>1, <3>2, <3>3, <3>4, <3>5, <3>6, Zenon DEF Turn, Quiet, Busy
    <3> QED
      BY <1>0, <1>1, <3>3, <3>5, <3>6, <3>7, Zenon DEF ChannelTypes
  <2>9. WPC[ch] \notin {"load", "wait", "asleep", "notify"} \/ workerLoad(ch)
    BY <1>8, Zenon DEF Busy
  <2> QED
    BY <1>2, <2>5, <2>6, <2>7, <2>8, <2>9, <1>8, Zenon DEF WorkerStep, workerWait, workerWoken, workerTimeout, workerNotify,
       workerLoad, Busy
<1>9. CASE workerExec(ch) \/ workerExecuted(ch) \/ workerDone(ch)
  BY <1>2, <1>8, <1>9, Zenon DEF workerExec, workerExecuted, workerDone, Busy
<1> QED
  BY <1>4, <1>5, <1>6, <1>7, <1>8, <1>9, Zenon DEF WorkerStep

\* A step of the owner of a channel that is a step of its turn keeps the protocol.
LEMMA OwnerMoves ==
    ASSUME ChannelTypes, Protocol, NEW th \in Thread, NEW r \in CallerRecord, t' = [t EXCEPT ![th] = r],
           UNCHANGED <<pool, w, idle, closed, done, result>>,
           r.ch = t[th].ch, r.mode = t[th].mode, r.seq = t[th].seq,
           PC[th] \in Owning, r.pc \in Owning,
           req' \in [Channel -> 0 .. 3], sql' \in [Channel -> Requests],
           \A c \in Channel : c # CH[th] => req'[c] = req[c] /\ sql'[c] = sql[c],
           req'[CH[th]] # 3,
           WPC[CH[th]] \in Busy \/ req'[CH[th]] \in {1, 2} => r.pc \in Awaiting,
           r.pc \in Awaiting =>
              Turn(kind, req'[CH[th]], done[CH[th]], sql'[CH[th]], result[CH[th]], WPC[CH[th]], RUN[CH[th]], r.prev, ID[th]),
           r.pc = "post" => sql'[CH[th]] = ID[th] /\ (kind = "pair" => r.prev = done[CH[th]]),
           r.pc = "answer" => result[CH[th]] = ID[th],
           r.pc = "put" => r.got = ID[th]
    PROVE  ChannelTypes' /\ Protocol'
<1>1. Moved(th, r) /\ t' \in [Thread' -> CallerRecord']
  BY CallerMoves, Zenon
<1>2. UNCHANGED <<WPC, RUN>> /\ w' \in [Channel' -> WorkerRecord]
  BY WorkersAlone, Zenon
<1>3. ChannelTypes'
  BY <1>1, <1>2, PoolKept, Zenon DEF ChannelTypes
<1>4. PICK ch \in Channel : ch = CH[th]
  BY Zenon DEF Protocol, OwnersInv
<1>5. \A x \in Thread : /\ CH'[x] = CH[x] /\ MODE'[x] = MODE[x] /\ ID'[x] = ID[x]
                        /\ x # th => PC'[x] = PC[x] /\ PREV'[x] = PREV[x] /\ GOT'[x] = GOT[x]
  BY <1>1, Values DEF Moved
<1>6. PC'[th] = r.pc /\ PREV'[th] = r.prev /\ GOT'[th] = r.got
  BY <1>1, Zenon DEF Moved
<1>7. WPC[ch] \notin {"unstarted", "ended"}
  BY <1>4, Zenon DEF Protocol, OwnersInv, LifeInv, Owning, Awaiting
<1>8. \A c \in Channel : c # ch => /\ req'[c] = req[c] /\ done'[c] = done[c] /\ sql'[c] = sql[c]
                                   /\ result'[c] = result[c] /\ WPC'[c] = WPC[c] /\ RUN'[c] = RUN[c]
  BY <1>2, <1>4, Zenon
<1>9. PC'[th] \in Awaiting =>
         Turn(kind, req'[ch], done'[ch], sql'[ch], result'[ch], WPC'[ch], RUN'[ch], PREV'[th], ID[th])
  BY <1>2, <1>4, <1>6, Zenon
<1>10. /\ req'[ch] # 3 /\ WPC'[ch] \notin {"unstarted", "ended"} /\ PC'[th] \in Owning
       /\ WPC'[ch] \in Busy \/ req'[ch] \in {1, 2} => PC'[th] \in Awaiting
       /\ PC'[th] = "post" => sql'[ch] = ID[th] /\ (kind = "pair" => PREV'[th] = done'[ch])
       /\ PC'[th] = "answer" => result'[ch] = ID[th]
       /\ PC'[th] = "put" => GOT'[th] = ID[th]
  BY <1>2, <1>4, <1>6, <1>7, Zenon
<1>11. Protocol'
  BY <1>4, <1>5, <1>8, <1>9, <1>10, OwnerTurn, Zenon
<1> QED
  BY <1>3, <1>11, Zenon

\* The steps of the owner of a channel keep the protocol.
LEMMA OwnerKeeps ==
    ASSUME AnswersInTime, ChannelTypes, Protocol, NEW th \in Thread,
           \/ writeSql(th) \/ post(th) \/ notify(th) \/ check(th) \/ wait(th) \/ woken(th)
           \/ timeout(th) \/ answer(th)
    PROVE  ChannelTypes' /\ Protocol'
<1>1. UNCHANGED <<pool, w, idle, closed, done, result>>
  BY Zenon DEF writeSql, post, notify, check, wait, woken, timeout, answer, chan
<1>2. /\ t[th] \in CallerRecord /\ PC[th] = t[th].pc /\ CH[th] = t[th].ch /\ PREV[th] = t[th].prev
      /\ ID[th] = Tag(th, t[th].seq, t[th].mode) /\ ID[th] \in Requests
  BY Values, Zenon
<1>3. t[th].pc \in Owning
  BY <1>2, Zenon DEF writeSql, post, notify, check, wait, woken, timeout, answer, Owning, Awaiting, CallerRecord
<1>4. CH[th] \in Channel /\ done[CH[th]] \in Nat /\ result[CH[th]] \in Requests
  BY <1>2, <1>3, Zenon DEF Protocol, OwnersInv, ChannelTypes
<1>5. /\ req \in [Channel -> 0 .. 3] /\ sql \in [Channel -> Requests] /\ req[CH[th]] # 3
      /\ closed = {} /\ kind \in {"word", "pair"}
  BY <1>2, <1>3, <1>4, ChannelAssumption, Zenon DEF Protocol, LifeInv, ChannelTypes, Owning, Awaiting, kind
<1>6. WPC[CH[th]] \in Busy \/ req[CH[th]] \in {1, 2} => t[th].pc \in Awaiting
  <2> SUFFICES ASSUME WPC[CH[th]] \in Busy \/ req[CH[th]] \in {1, 2} PROVE PC[th] \in Awaiting
    BY <1>2, Zenon
  <2>1. PICK x \in Thread : PC[x] \in Awaiting /\ CH[x] = CH[th]
    BY <1>4, Zenon DEF Protocol, BusyInv
  <2>2. x = th
    BY <1>2, <1>3, <2>1, Zenon DEF Protocol, OwnersInv, Owning
  <2> QED
    BY <2>1, <2>2, Zenon
<1>7. t[th].pc \in Awaiting =>
         Turn(kind, req[CH[th]], done[CH[th]], sql[CH[th]], result[CH[th]], WPC[CH[th]], RUN[CH[th]], t[th].prev, ID[th])
  BY <1>2, Zenon DEF Protocol, TurnsInv
<1>8. WPC[CH[th]] \in Quiet \cup Busy
  BY <1>2, <1>3, <1>4, <1>5, Values DEF Protocol, OwnersInv, LifeInv, WorkerRecord
<1>9. CASE writeSql(th)
  <2>1. PICK r : t' = [t EXCEPT ![th] = r] /\ r = [t[th] EXCEPT !.pc = "post", !.prev = done[t[th].ch]]
    BY <1>9, Zenon DEF writeSql, ChannelTypes
  <2>2. r \in CallerRecord /\ r.pc = "post" /\ r.prev = done[CH[th]] /\ r.ch = t[th].ch /\ r.mode = t[th].mode /\ r.seq = t[th].seq
    BY <1>2, <1>4, <2>1, Zenon DEF CallerRecord, Owning
  <2>3. /\ req' = req /\ sql' = [sql EXCEPT ![CH[th]] = ID[th]] /\ t[th].pc = "write"
    BY <1>2, <1>9, Zenon DEF writeSql, Tag
  <2>4. /\ sql' \in [Channel -> Requests] /\ sql'[CH[th]] = ID[th]
        /\ \A c \in Channel : c # CH[th] => req'[c] = req[c] /\ sql'[c] = sql[c]
    BY <1>2, <1>4, <1>5, <2>3, Zenon
  <2>5. WPC[CH[th]] \notin Busy /\ req[CH[th]] \notin {1, 2}
    BY <1>6, <2>3, Zenon DEF Awaiting
  <2> QED
    BY <1>1, <1>2, <1>3, <1>5, <2>1, <2>2, <2>3, <2>4, <2>5, OwnerMoves, Zenon DEF Owning, Awaiting
<1>10. CASE post(th)
  <2>1. PICK r : t' = [t EXCEPT ![th] = r] /\ r = [t[th] EXCEPT !.pc = "notify"]
    BY <1>10, Zenon DEF post, to, ChannelTypes
  <2>2. /\ r \in CallerRecord /\ r.pc = "notify" /\ r.prev = t[th].prev /\ r.ch = t[th].ch /\ r.mode = t[th].mode
        /\ r.seq = t[th].seq
    BY <1>2, <2>1, Zenon DEF CallerRecord, Owning, Awaiting
  <2>3. sql' = sql /\ req' = [req EXCEPT ![CH[th]] = 1] /\ t[th].pc = "post"
    BY <1>2, <1>10, Zenon DEF post
  <2>4. /\ req' \in [Channel -> 0 .. 3] /\ req'[CH[th]] = 1
        /\ \A c \in Channel : c # CH[th] => req'[c] = req[c] /\ sql'[c] = sql[c]
    BY <1>4, <1>5, <2>3
  <2>5. WPC[CH[th]] \in Quiet
    BY <1>6, <1>8, <2>3, Zenon DEF Awaiting
  <2>6. sql[CH[th]] = ID[th] /\ (kind = "pair" => done[CH[th]] = r.prev)
    BY <1>2, <2>2, <2>3, Zenon DEF Protocol, OutcomeInv
  <2>7. Turn(kind, req'[CH[th]], done[CH[th]], sql'[CH[th]], result[CH[th]], WPC[CH[th]], RUN[CH[th]], r.prev, ID[th])
    BY <2>3, <2>4, <2>5, <2>6, Zenon DEF Turn
  <2>8. r.pc \in Owning /\ r.pc \in Awaiting /\ r.pc \notin {"post", "answer", "put"} /\ PC[th] \in Owning
    BY <1>2, <1>3, <2>2, Zenon DEF Owning, Awaiting
  <2>9. t' = [t EXCEPT ![th] = r] /\ req'[CH[th]] # 3 /\ sql' \in [Channel -> Requests]
    BY <1>5, <2>1, <2>3, <2>4
  <2> QED
    BY <1>1, <2>2, <2>4, <2>7, <2>8, <2>9, OwnerMoves, Zenon
<1>11. ASSUME NEW r \in CallerRecord, t' = [t EXCEPT ![th] = r], UNCHANGED <<req, sql>>,
              t[th].pc \in Awaiting, r.pc \in Awaiting, kind = "pair" => r.prev = t[th].prev,
              r.ch = t[th].ch, r.mode = t[th].mode, r.seq = t[th].seq
       PROVE  ChannelTypes' /\ Protocol'
  <2>1. Turn(kind, req[CH[th]], done[CH[th]], sql[CH[th]], result[CH[th]], WPC[CH[th]], RUN[CH[th]], r.prev, ID[th])
    BY <1>7, <1>11, Zenon DEF Turn
  <2>2. r.pc \in Owning /\ r.pc \notin {"post", "answer", "put"}
    BY <1>11, Zenon DEF Owning, Awaiting
  <2> QED
    BY <1>1, <1>2, <1>3, <1>5, <1>11, <2>1, <2>2, OwnerMoves, Zenon
<1>12. CASE notify(th) \/ wait(th) \/ woken(th) \/ timeout(th)
  <2>0. PICK p \in {"check", "asleep"} : t' = [t EXCEPT ![th] = [t[th] EXCEPT !.pc = p]]
    BY <1>5, <1>12, Zenon DEF notify, wait, woken, timeout, to, ChannelTypes, AnswersInTime
  <2>1. PICK r : t' = [t EXCEPT ![th] = r] /\ r = [t[th] EXCEPT !.pc = p]
    BY <2>0, Zenon
  <2>2. /\ r \in CallerRecord /\ r.pc = p /\ r.prev = t[th].prev /\ r.ch = t[th].ch /\ r.mode = t[th].mode
        /\ r.seq = t[th].seq
    BY <1>2, <2>1, Zenon DEF CallerRecord, Owning, Awaiting
  <2>3. UNCHANGED <<req, sql>> /\ t[th].pc \in Awaiting
    BY <1>12, Zenon DEF notify, wait, woken, timeout, chan, Awaiting
  <2> QED
    BY <1>11, <2>1, <2>2, <2>3, Zenon DEF Awaiting
<1>13. CASE check(th)
  <2>0. t[th].pc = "check" /\ sql' = sql
    BY <1>3, <1>13, Zenon DEF check, Owning, Awaiting
  <2>1. CASE ~Answered(th)
    <3>0. PICK z \in Nat : /\ t' = [t EXCEPT ![th] = [t[th] EXCEPT !.pc = "wait", !.prev = z]]
                           /\ kind = "pair" => z = t[th].prev
      <4>1. CASE kind = "word"
        <5>1. t' = [t EXCEPT ![th] = [t[th] EXCEPT !.pc = "wait", !.prev = req[CH[th]]]]
          BY <1>2, <1>13, <2>0, <2>1, <4>1, Zenon DEF check, ChannelTypes
        <5>2. req[CH[th]] \in Nat
          BY <1>4, <1>5
        <5> QED
          BY <4>1, <5>1, <5>2, Zenon
      <4>2. CASE kind = "pair"
        <5>1. t' = [t EXCEPT ![th] = [t[th] EXCEPT !.pc = "wait"]]
          BY <1>2, <1>13, <2>0, <2>1, <4>2, Zenon DEF check, ChannelTypes
        <5>2. t[th].prev \in Nat /\ [t[th] EXCEPT !.pc = "wait"] = [t[th] EXCEPT !.pc = "wait", !.prev = t[th].prev]
          BY <1>2, Zenon DEF CallerRecord
        <5> QED
          BY <5>1, <5>2, Zenon
      <4> QED
        BY <1>5, <4>1, <4>2, Zenon
    <3>1. PICK r : t' = [t EXCEPT ![th] = r] /\ r = [t[th] EXCEPT !.pc = "wait", !.prev = z]
      BY <3>0, Zenon
    <3>2. /\ r \in CallerRecord /\ r.pc = "wait" /\ r.prev = z /\ r.ch = t[th].ch /\ r.mode = t[th].mode
          /\ r.seq = t[th].seq
      BY <1>2, <3>1, Zenon DEF CallerRecord, Owning, Awaiting
    <3>3. req' = req
      BY <1>13, <2>1, Zenon DEF check
    <3> QED
      BY <1>11, <2>0, <3>0, <3>1, <3>2, <3>3, Zenon DEF Awaiting
  <2>2. CASE Answered(th)
    <3>0. PICK z \in Nat : t' = [t EXCEPT ![th] = [t[th] EXCEPT !.pc = "answer", !.prev = z]]
      BY <1>13, <2>2, Zenon DEF check, ChannelTypes
    <3>1. PICK r : t' = [t EXCEPT ![th] = r] /\ r = [t[th] EXCEPT !.pc = "answer", !.prev = z]
      BY <3>0, Zenon
    <3>2. /\ r \in CallerRecord /\ r.pc = "answer" /\ r.ch = t[th].ch /\ r.mode = t[th].mode
          /\ r.seq = t[th].seq
      BY <1>2, <3>1, Zenon DEF CallerRecord, Owning, Awaiting
    <3>3. req' = IF kind = "word" THEN [req EXCEPT ![CH[th]] = 0] ELSE req
      BY <1>2, <1>13, <2>2, Zenon DEF check
    <3>4. /\ req[CH[th]] = (IF kind = "word" THEN 2 ELSE 0)
          /\ WPC[CH[th]] \in Quiet /\ result[CH[th]] = ID[th]
      BY <1>2, <1>5, <1>7, <2>0, <2>2, Zenon DEF Answered, Turn, Awaiting
    <3>5. /\ req' \in [Channel -> 0 .. 3] /\ req'[CH[th]] = 0
          /\ \A c \in Channel : c # CH[th] => req'[c] = req[c]
      BY <1>4, <1>5, <3>3, <3>4
    <3>6. WPC[CH[th]] \notin Busy
      BY <3>4, Zenon DEF Quiet, Busy
    <3>7. r.pc \in Owning /\ r.pc \notin Awaiting /\ r.pc # "post" /\ r.pc # "put" /\ PC[th] \in Owning
      BY <1>2, <1>3, <3>2, Zenon DEF Owning, Awaiting
    <3>8. /\ t' = [t EXCEPT ![th] = r] /\ req'[CH[th]] \notin {1, 2, 3} /\ sql' \in [Channel -> Requests]
          /\ \A c \in Channel : c # CH[th] => req'[c] = req[c] /\ sql'[c] = sql[c]
      BY <1>5, <2>0, <3>1, <3>5
    <3> QED
      BY <1>1, <3>2, <3>4, <3>5, <3>6, <3>7, <3>8, OwnerMoves, Zenon
  <2> QED
    BY <2>1, <2>2, Zenon
<1>14. CASE answer(th)
  <2>0. PICK p \in {"write", "put", "failed"}, m \in Int, g \in Requests :
           /\ t' = [t EXCEPT ![th] = [t[th] EXCEPT !.pc = p, !.tries = m, !.got = g]]
           /\ p = "put" => g = result[CH[th]]
    <3>0. t[th].tries \in Int /\ t[th].tries - 1 \in Int /\ t[th].got \in Requests
      BY <1>2 DEF CallerRecord
    <3>1. CASE t' = [t EXCEPT ![th].pc = "write", ![th].tries = @ - 1]
      <4>1. t' = [t EXCEPT ![th] = [t[th] EXCEPT !.pc = "write", !.tries = t[th].tries - 1]]
        BY <1>2, <3>1, Zenon DEF ChannelTypes, CallerRecord
      <4>2. [t[th] EXCEPT !.pc = "write", !.tries = t[th].tries - 1] = [t[th] EXCEPT !.pc = "write", !.tries = t[th].tries - 1, !.got = t[th].got]
        BY <1>2, Zenon DEF CallerRecord
      <4> QED
        BY <3>0, <4>1, <4>2, Zenon
    <3>2. CASE \E p \in {"put", "failed"} : t' = [t EXCEPT ![th].pc = p, ![th].got = result[CH[th]]]
      <4>1. PICK p \in {"put", "failed"} : t' = [t EXCEPT ![th].pc = p, ![th].got = result[CH[th]]]
        BY <3>2, Zenon
      <4>2. t' = [t EXCEPT ![th] = [t[th] EXCEPT !.pc = p, !.got = result[CH[th]]]]
        BY <1>2, <4>1, Zenon DEF ChannelTypes, CallerRecord
      <4>3. [t[th] EXCEPT !.pc = p, !.got = result[CH[th]]] = [t[th] EXCEPT !.pc = p, !.tries = t[th].tries, !.got = result[CH[th]]]
        BY <1>2, Zenon DEF CallerRecord
      <4>4. t' = [t EXCEPT ![th] = [t[th] EXCEPT !.pc = p, !.tries = t[th].tries, !.got = result[CH[th]]]]
        BY <4>2, <4>3, Zenon
      <4>5. p \in {"write", "put", "failed"}
        BY Zenon
      <4> HIDE <4>1
      <4> QED
        BY <1>4, <3>0, <4>4, <4>5, Zenon
    <3> QED
      BY <1>2, <1>14, <3>1, <3>2, Zenon DEF answer, Leaving
  <2>1. PICK r : t' = [t EXCEPT ![th] = r] /\ r = [t[th] EXCEPT !.pc = p, !.tries = m, !.got = g]
    BY <2>0, Zenon
  <2>2. /\ r \in CallerRecord /\ r.pc = p /\ r.got = g /\ r.ch = t[th].ch /\ r.mode = t[th].mode
        /\ r.seq = t[th].seq
    BY <1>2, <2>1, Zenon DEF CallerRecord, Owning, Awaiting
  <2>3. UNCHANGED <<req, sql>> /\ t[th].pc = "answer"
    BY <1>14, Zenon DEF answer, chan
  <2>4. result[CH[th]] = ID[th]
    BY <1>2, <2>3, Zenon DEF Protocol, OutcomeInv
  <2>5. WPC[CH[th]] \notin Busy /\ req[CH[th]] \notin {1, 2}
    BY <1>6, <2>3, Zenon DEF Awaiting
  <2>6. r.pc \in Owning /\ r.pc \notin Awaiting /\ r.pc # "post" /\ r.pc # "answer" /\ (r.pc = "put" => r.got = ID[th])
    BY <2>0, <2>2, <2>4, Zenon DEF Owning, Awaiting
  <2> QED
    BY <1>1, <1>2, <1>3, <1>5, <2>1, <2>2, <2>3, <2>5, <2>6, OwnerMoves, Zenon
<1> QED
  BY <1>9, <1>10, <1>12, <1>13, <1>14, Zenon

\* Taking a channel from the pool, giving it back, the lock, the start and the
\* stop of a channel keep the protocol.
LEMMA PoolKeeps ==
    ASSUME ChannelTypes, Protocol, NEW th \in Thread, NEW ch \in Channel, NEW mode \in {"read", "write"},
           \/ take(th, ch) \/ put(th) \/ lockRwl(th, mode) \/ startWorker(th, ch) \/ stop(ch)
    PROVE  ChannelTypes' /\ Protocol'
<1>1. pool' = pool /\ UNCHANGED <<sql, result>>
  BY Zenon DEF take, put, lockRwl, startWorker, stop, chan
<1>2. Channel' = Channel /\ Thread' = Thread /\ kind' = kind
  BY <1>1, PoolKept, Zenon
<1>3. /\ t[th] \in CallerRecord /\ PC[th] = t[th].pc /\ CH[th] = t[th].ch /\ MODE[th] = t[th].mode
      /\ ID[th] = Tag(th, t[th].seq, t[th].mode) /\ None \in Requests /\ WPC[ch] = w[ch].pc
      /\ \A c \in Channel : WPC[c] = w[c].pc
      /\ \A x \in Thread : PC[x] = t[x].pc /\ MODE[x] = t[x].mode
  BY Values, Zenon
<1>4. CASE take(th, ch)
  <2>1. PICK r : t' = [t EXCEPT ![th] = r] /\ r = [t[th] EXCEPT !.pc = "write", !.ch = ch]
    BY <1>4, Zenon DEF take, ChannelTypes
  <2>2. r \in CallerRecord /\ r.pc = "write" /\ r.ch = ch /\ r.mode = t[th].mode /\ r.seq = t[th].seq
    BY <1>3, <2>1, Zenon DEF CallerRecord, Owning
  <2>3. /\ t[th].pc = "locked" /\ ch \in idle /\ idle' = idle \ {ch} /\ UNCHANGED <<req, done, closed, w>>
    BY <1>4, Zenon DEF take, chan
  <2>4. Moved(th, r) /\ t' \in [Thread' -> CallerRecord']
    BY <1>1, <2>1, <2>2, CallerMoves, Zenon
  <2>5. UNCHANGED <<WPC, RUN>> /\ w' \in [Channel' -> WorkerRecord]
    BY <1>1, <2>3, WorkersAlone, Zenon
  <2>6. ChannelTypes'
    BY <1>1, <1>2, <2>3, <2>4, <2>5, Zenon DEF ChannelTypes
  <2>7. \A x \in Thread : /\ PC'[x] = IF x = th THEN "write" ELSE PC[x]
                          /\ CH'[x] = IF x = th THEN ch ELSE CH[x]
                          /\ MODE'[x] = MODE[x] /\ ID'[x] = ID[x]
                          /\ x # th => PREV'[x] = PREV[x] /\ GOT'[x] = GOT[x]
    BY <1>3, <2>2, <2>4, Zenon DEF Moved
  <2>8. OwnersInv'
    BY <1>2, <1>3, <2>3, <2>5, <2>7 DEF Protocol, OwnersInv
  <2>9. LifeInv'
    BY <1>2, <1>3, <2>3, <2>5, <2>7 DEF Protocol, LifeInv
  <2>10. BusyInv'
    BY <1>2, <1>3, <2>3, <2>5, <2>7, SMTT(30) DEF Protocol, BusyInv, Awaiting
  <2>11. TurnsInv' /\ OutcomeInv'
    BY <1>1, <1>2, <2>3, <2>5, <2>7 DEF Protocol, TurnsInv, OutcomeInv, Awaiting
  <2> QED
    BY <2>6, <2>8, <2>9, <2>10, <2>11, Zenon DEF Protocol
<1>5. CASE put(th)
  <2>1. PICK r : t' = [t EXCEPT ![th] = r] /\ r = [Caller0 EXCEPT !.seq = t[th].seq]
    BY <1>5, Zenon DEF put, ChannelTypes
  <2>2. r \in CallerRecord /\ r.pc = "out"
    BY <1>3, <2>1 DEF CallerRecord, Caller0
  <2>3. /\ t[th].pc = "put" /\ idle' = idle \cup {CH[th]} /\ UNCHANGED <<req, done, closed, w>>
    BY <1>3, <1>5, Zenon DEF put, chan
  <2>4. Moved(th, r) /\ t' \in [Thread' -> CallerRecord']
    BY <1>1, <2>1, <2>2, CallerMoves, Zenon
  <2>5. UNCHANGED <<WPC, RUN>> /\ w' \in [Channel' -> WorkerRecord]
    BY <1>1, <2>3, WorkersAlone, Zenon
  <2>6. ChannelTypes'
    BY <1>1, <1>2, <2>3, <2>4, <2>5, Zenon DEF ChannelTypes
  <2>7. /\ PC'[th] = "out"
        /\ \A x \in Thread : x # th => /\ PC'[x] = PC[x] /\ CH'[x] = CH[x] /\ MODE'[x] = MODE[x] /\ ID'[x] = ID[x]
                                       /\ PREV'[x] = PREV[x] /\ GOT'[x] = GOT[x]
    BY <1>3, <2>2, <2>4, Zenon DEF Moved
  <2>8. PC[th] = "put" /\ "put" \in Owning /\ "put" \notin Awaiting /\ "out" \notin Owning /\ "out" \notin Awaiting
    BY <1>3, <2>3, Zenon DEF Owning, Awaiting
  <2>9. OwnersInv'
    <3>1. /\ CH[th] \in Channel /\ WPC[CH[th]] # "unstarted"
          /\ \A x \in Thread : x # th /\ PC[x] \in Owning => CH[x] # CH[th]
      BY <2>8, Zenon DEF Protocol, OwnersInv
    <3>2. \A x \in Thread : PC'[x] \in Owning => x # th /\ PC[x] \in Owning /\ CH'[x] = CH[x]
      BY <2>7, <2>8, Zenon
    <3>3. idle' \subseteq Channel /\ \A c \in idle' : WPC[c] # "unstarted"
      BY <2>3, <3>1, Zenon DEF Protocol, OwnersInv
    <3>4. \A x \in Thread : PC'[x] \in Owning => CH[x] \in Channel /\ CH[x] \notin idle' /\ WPC[CH[x]] # "unstarted"
      BY <2>3, <3>1, <3>2, Zenon DEF Protocol, OwnersInv
    <3>5. \A x, y \in Thread : PC'[x] \in Owning /\ PC'[y] \in Owning /\ CH[x] = CH[y] => x = y
      BY <3>2, Zenon DEF Protocol, OwnersInv
    <3> HIDE <2>3, <2>7
    <3> QED
      BY <1>2, <2>5, <3>2, <3>3, <3>4, <3>5, Zenon DEF OwnersInv
  <2>10. LifeInv'
    BY <1>2, <2>3, <2>5, <2>7, <2>8 DEF Protocol, LifeInv
  <2>11. BusyInv'
    <3> SUFFICES ASSUME NEW c \in Channel, WPC[c] \in Busy \/ req[c] \in {1, 2}
                 PROVE  \E x \in Thread : PC'[x] \in Awaiting /\ CH'[x] = c
      BY <1>2, <2>3, <2>5, Zenon DEF BusyInv
    <3>1. PICK x \in Thread : PC[x] \in Awaiting /\ CH[x] = c
      BY Zenon DEF Protocol, BusyInv
    <3>2. x # th
      BY <2>8, <3>1, ZenonT(30)
    <3> QED
      BY <2>7, <3>1, <3>2, Zenon
  <2>12. TurnsInv' /\ OutcomeInv'
    BY <1>1, <1>2, <2>3, <2>5, <2>7, <2>8 DEF Protocol, TurnsInv, OutcomeInv
  <2> QED
    BY <2>6, <2>9, <2>10, <2>11, <2>12, Zenon DEF Protocol
<1>6. CASE lockRwl(th, mode)
  <2>0. t[th].seq + 1 \in Nat /\ pool.retries \in Int
    BY <1>3, ChannelAssumption DEF CallerRecord, ChannelTypes
  <2>1. PICK r : /\ t' = [t EXCEPT ![th] = r]
                 /\ r = [t[th] EXCEPT !.pc = "locked", !.mode = mode, !.seq = t[th].seq + 1, !.tries = pool.retries]
    BY <1>6, Zenon DEF lockRwl, ChannelTypes
  <2>2. r \in CallerRecord /\ r.pc = "locked"
    BY <1>3, <2>0, <2>1, Zenon DEF CallerRecord
  <2>3. /\ t[th].pc = "out" /\ closed = {} /\ UNCHANGED <<req, done, closed, w, idle>>
        /\ \A c \in Channel : w[c].pc # "unstarted"
    BY <1>6, Zenon DEF lockRwl, chan, Opened
  <2>4. Moved(th, r) /\ t' \in [Thread' -> CallerRecord']
    BY <1>1, <2>1, <2>2, CallerMoves, Zenon
  <2>5. UNCHANGED <<WPC, RUN>> /\ w' \in [Channel' -> WorkerRecord]
    BY <1>1, <2>3, WorkersAlone, Zenon
  <2>6. ChannelTypes'
    BY <1>1, <1>2, <2>3, <2>4, <2>5, Zenon DEF ChannelTypes
  <2>7. /\ PC'[th] = "locked"
        /\ \A x \in Thread : x # th => /\ PC'[x] = PC[x] /\ CH'[x] = CH[x] /\ MODE'[x] = MODE[x] /\ ID'[x] = ID[x]
                                       /\ PREV'[x] = PREV[x] /\ GOT'[x] = GOT[x]
    BY <1>3, <2>2, <2>4, Zenon DEF Moved
  <2>8. PC[th] = "out" /\ "locked" \notin Owning /\ "locked" \notin Awaiting /\ "out" \notin Owning /\ "out" \notin Awaiting
    BY <1>3, <2>3, Zenon DEF Owning, Awaiting
  <2>9. OwnersInv'
    <3>1. \A x \in Thread : PC'[x] \in Owning => x # th /\ PC[x] \in Owning /\ CH'[x] = CH[x]
      BY <2>7, <2>8, Zenon
    <3>2. idle' = idle
      BY <2>3, Zenon
    <3> QED
      BY <1>2, <2>5, <3>1, <3>2, Zenon DEF Protocol, OwnersInv
  <2>10. LifeInv'
    <3>1. \A c \in Channel : WPC[c] # "unstarted"
      BY <1>3, <2>3, Zenon
    <3>2. closed' = {} /\ closed = {} /\ req' = req
      BY <2>3, Zenon
    <3> QED
      BY <1>2, <2>5, <3>1, <3>2, Zenon DEF Protocol, LifeInv
  <2>11. BusyInv'
    <3> SUFFICES ASSUME NEW c \in Channel, WPC[c] \in Busy \/ req[c] \in {1, 2}
                 PROVE  \E x \in Thread : PC'[x] \in Awaiting /\ CH'[x] = c
      BY <1>2, <2>3, <2>5, Zenon DEF BusyInv
    <3>1. PICK x \in Thread : PC[x] \in Awaiting /\ CH[x] = c
      BY Zenon DEF Protocol, BusyInv
    <3>2. x # th
      BY <2>8, <3>1, Zenon
    <3> QED
      BY <2>7, <3>1, <3>2, Zenon
  <2>12. TurnsInv' /\ OutcomeInv'
    <3>1. \A x \in Thread : /\ PC'[x] \in Awaiting \/ PC'[x] \in {"post", "answer", "put"} => x # th
      BY <2>7, <2>8, Zenon
    <3>2. UNCHANGED <<req, done>>
      BY <2>3, Zenon
    <3>3. TurnsInv'
      BY <1>1, <1>2, <2>5, <2>7, <3>1, <3>2, ZenonT(30) DEF Protocol, TurnsInv
    <3>4. OutcomeInv'
      BY <1>1, <1>2, <2>5, <2>7, <3>1, <3>2 DEF Protocol, OutcomeInv
    <3> QED
      BY <3>3, <3>4, Zenon
  <2> QED
    BY <2>6, <2>9, <2>10, <2>11, <2>12, Zenon DEF Protocol
<1>7. CASE stop(ch)
  <2>1. /\ UNCHANGED <<done, w, idle, t>> /\ req' = [req EXCEPT ![ch] = 3] /\ closed' = closed \cup {ch}
        /\ \A c \in Channel : w[c].pc # "unstarted"
        /\ \A x \in Thread : t[x].pc = "out"
    BY <1>7, Zenon DEF stop, Opened
  <2>2. UNCHANGED <<WPC, RUN>> /\ w' \in [Channel' -> WorkerRecord]
    BY <1>1, <2>1, WorkersAlone, Zenon
  <2>3. UNCHANGED <<PC, CH, MODE, PREV, GOT, ID>> /\ t' \in [Thread' -> CallerRecord']
    BY <1>1, <2>1, CallersAlone, Zenon
  <2>4. req' \in [Channel -> 0 .. 3] /\ \A c \in Channel : req'[c] \in {1, 2} => req[c] \in {1, 2}
    BY <2>1 DEF ChannelTypes
  <2>5. ChannelTypes'
    BY <1>1, <1>2, <2>1, <2>2, <2>3, <2>4, Zenon DEF ChannelTypes
  <2>6. \A x \in Thread : PC[x] = "out" /\ PC[x] \notin Owning /\ PC[x] \notin Awaiting
    BY <1>3, <2>1, Zenon DEF Owning, Awaiting
  <2>7. OwnersInv' /\ LifeInv'
    BY <1>2, <1>3, <2>1, <2>2, <2>3, <2>6, ZenonT(30) DEF Protocol, OwnersInv, LifeInv
  <2>8. BusyInv' /\ TurnsInv' /\ OutcomeInv'
    BY <1>2, <2>2, <2>3, <2>4, <2>6, Zenon DEF Protocol, BusyInv, TurnsInv, OutcomeInv
  <2> QED
    BY <2>5, <2>7, <2>8, Zenon DEF Protocol
<1>8. CASE startWorker(th, ch)
  <2>1. /\ w' = [w EXCEPT ![ch] = Worker0] /\ w[ch].pc = "unstarted" /\ closed' = closed
        /\ req' = [req EXCEPT ![ch] = 0] /\ done' = [done EXCEPT ![ch] = 0]
        /\ \A x \in Thread : t[x].mode # "warmup"
    BY <1>8, Zenon DEF startWorker, Opening
  <2>0. PICK z \in 0 .. 3 : z = 0
    OBVIOUS
  <2>2. PICK r : r = Worker0 /\ r = [pc |-> "load", s |-> z, run |-> None]
    BY <2>0, Zenon DEF Worker0
  <2>3. r \in WorkerRecord /\ r.pc = "load" /\ w' = [w EXCEPT ![ch] = r]
    <3>1. r \in WorkerRecord /\ r.pc = "load"
      BY <1>3, <2>2 DEF WorkerRecord, Quiet
    <3> QED
      BY <2>1, <2>2, <3>1, ZenonT(30)
  <2>4. Worked(ch, r) /\ w' \in [Channel' -> WorkerRecord]
    BY <1>1, <2>3, WorkerMoves, Zenon
  <2>5. /\ WPC'[ch] = "load"
        /\ \A c \in Channel : c # ch => WPC'[c] = WPC[c] /\ RUN'[c] = RUN[c]
    BY <2>3, <2>4, Zenon DEF Worked
  <2>6. /\ req' \in [Channel -> 0 .. 3] /\ done' \in [Channel -> Nat] /\ req'[ch] = 0
        /\ \A c \in Channel : c # ch => req'[c] = req[c] /\ done'[c] = done[c]
    BY <2>1 DEF ChannelTypes
  <2>7. /\ \A x \in Thread : PC[x] = "out" /\ PC[x] \notin Owning /\ PC[x] \notin Awaiting
        /\ closed = {}
    BY <1>3, <2>1, Zenon DEF Protocol, LifeInv, Owning, Awaiting
  <2>8. ch \notin idle
    BY <1>3, <2>1, Zenon DEF Protocol, OwnersInv
  <2>9. \A c \in Channel : WPC[c] \notin Busy /\ req[c] \notin {1, 2}
    BY <2>7, Zenon DEF Protocol, BusyInv
  <2>10. "load" \notin Busy /\ "write" \notin Awaiting /\ "write" \in Owning
    BY Zenon DEF Busy, Awaiting, Owning
  <2>11. CASE kind # "pair"
    <3>1. t' = t /\ idle' = idle \cup {ch}
      BY <1>8, <2>11, Zenon DEF startWorker
    <3>2. UNCHANGED <<PC, CH, MODE, PREV, GOT, ID>> /\ t' \in [Thread' -> CallerRecord']
      BY <1>1, <3>1, CallersAlone, Zenon
    <3>3. ChannelTypes'
      BY <1>1, <1>2, <2>4, <2>6, <3>2, Zenon DEF ChannelTypes
    <3>4. OwnersInv'
      BY <1>2, <2>5, <2>7, <3>1, <3>2, ZenonT(30) DEF Protocol, OwnersInv
    <3>5. LifeInv'
      <4>1. \A x \in Thread : PC'[x] = "out"
        BY <2>7, <3>2, Zenon
      <4>2. \A c \in Channel : req[c] # 3 /\ WPC[c] # "ended"
        BY <1>3, <2>7, Zenon DEF Protocol, LifeInv
      <4>3. \A c \in Channel : WPC'[c] # "ended"
        BY <2>5, <4>2, Zenon
      <4>4. \A c \in Channel : req'[c] # 3
        BY <2>6, <4>2
      <4>5. closed' = {}
        BY <2>1, <2>7, Zenon
      <4> QED
        BY <1>2, <4>1, <4>3, <4>4, <4>5, Zenon DEF LifeInv
    <3>6. BusyInv'
      BY <1>2, <2>5, <2>6, <2>9, <2>10 DEF BusyInv
    <3>7. TurnsInv' /\ OutcomeInv'
      BY <1>2, <2>7, <3>2, Zenon DEF TurnsInv, OutcomeInv
    <3> QED
      BY <3>3, <3>4, <3>5, <3>6, <3>7, Zenon DEF Protocol
  <2>12. CASE kind = "pair"
    <3>0. pool.retries \in Int
      BY ChannelAssumption DEF ChannelTypes
    <3>1. PICK q : /\ t' = [t EXCEPT ![th] = q]
                   /\ q = [t[th] EXCEPT !.pc = "write", !.ch = ch, !.mode = "warmup", !.tries = pool.retries]
      <4>1. t' = [t EXCEPT ![th].pc = "write", ![th].ch = ch, ![th].mode = "warmup", ![th].tries = pool.retries]
        BY <1>8, <2>12, Zenon DEF startWorker
      <4>2. t \in [Thread -> CallerRecord]
        BY <1>3, Zenon DEF ChannelTypes
      <4> QED
        BY <4>1, <4>2, Zenon
    <3>2. q \in CallerRecord /\ q.pc = "write" /\ q.ch = ch /\ q.mode = "warmup"
      BY <1>3, <3>0, <3>1, Zenon DEF CallerRecord, Owning
    <3>3. idle' = idle
      BY <1>8, <2>12, Zenon DEF startWorker
    <3>4. Moved(th, q) /\ t' \in [Thread' -> CallerRecord']
      BY <1>1, <3>1, <3>2, CallerMoves, Zenon
    <3>5. /\ PC'[th] = "write" /\ CH'[th] = ch /\ MODE'[th] = "warmup"
          /\ \A x \in Thread : x # th => PC'[x] = PC[x] /\ CH'[x] = CH[x] /\ MODE'[x] = MODE[x]
      BY <3>2, <3>4, Zenon DEF Moved
    <3>6. ChannelTypes'
      BY <1>1, <1>2, <2>4, <2>6, <3>4, Zenon DEF ChannelTypes
    <3>7. OwnersInv'
      <4>1. \A x \in Thread : PC'[x] \in Owning => x = th
        BY <2>7, <3>5, Zenon
      <4>2. idle \subseteq Channel /\ \A c \in idle : c # ch /\ WPC'[c] # "unstarted"
        BY <2>5, <2>8, Zenon DEF Protocol, OwnersInv
      <4> QED
        BY <1>2, <2>5, <2>8, <3>3, <3>5, <4>1, <4>2, Zenon DEF OwnersInv
    <3>8. LifeInv'
      <4>1. \A x \in Thread : PC'[x] = "out" \/ MODE'[x] = "warmup"
        BY <2>7, <3>5, ZenonT(30)
      <4>2. \A c \in Channel : req'[c] # 3 /\ WPC'[c] # "ended"
        BY <2>5, <2>6, <2>7 DEF Protocol, LifeInv
      <4>3. closed' = {}
        BY <2>1, <2>7, ZenonT(30)
      <4> QED
        BY <1>2, <4>1, <4>2, <4>3, Zenon DEF LifeInv
    <3>9. BusyInv'
      BY <1>2, <2>5, <2>6, <2>9, <2>10 DEF BusyInv
    <3>10. \A x \in Thread : PC'[x] \in {"write", "out"} /\ PC'[x] \notin Awaiting
      BY <2>7, <2>10, <3>5, Zenon
    <3>11. TurnsInv' /\ OutcomeInv'
      BY <1>2, <3>10, Zenon DEF TurnsInv, OutcomeInv
    <3> QED
      BY <3>6, <3>7, <3>8, <3>9, <3>11, Zenon DEF Protocol
  <2> QED
    BY <2>11, <2>12, Zenon
<1> QED
  BY <1>4, <1>5, <1>6, <1>7, <1>8, Zenon

\* A pool none of whose channels is started satisfies the protocol.
LEMMA PoolStart == Init => ChannelTypes /\ Protocol
<1> SUFFICES ASSUME Init PROVE ChannelTypes /\ Protocol
  BY Zenon
<1>1. None \in Requests
  BY Zenon DEF None, Requests, NoThread
<1>2. PICK r : r = [Worker0 EXCEPT !.pc = "unstarted"]
  BY Zenon
<1>3. r \in WorkerRecord /\ r.pc = "unstarted"
  BY <1>1, <1>2 DEF WorkerRecord, Worker0
<1>4. PICK q : q = Caller0
  BY Zenon
<1>5. q \in CallerRecord /\ q.pc = "out"
  BY <1>1, <1>4 DEF CallerRecord, Caller0
<1>6. /\ w = [ch \in Channel |-> r] /\ t = [th \in Thread |-> q]
      /\ pool \in Pools /\ idle = {} /\ closed = {}
      /\ req = [ch \in Channel |-> 0] /\ done = [ch \in Channel |-> 0]
      /\ sql = [ch \in Channel |-> None] /\ result = [ch \in Channel |-> None]
  BY <1>2, <1>4, Zenon DEF Init
<1>7. ChannelTypes
  BY <1>1, <1>3, <1>5, <1>6 DEF ChannelTypes
<1>8. /\ \A x \in Thread : PC[x] = "out" /\ PC[x] \notin Owning /\ PC[x] \notin Awaiting
      /\ \A c \in Channel : WPC[c] = "unstarted" /\ WPC[c] \notin Busy /\ req[c] = 0
  BY <1>3, <1>5, <1>6, Zenon DEF PC, WPC, Owning, Awaiting, Busy
<1>9. Protocol
  BY <1>6, <1>8 DEF Protocol, OwnersInv, LifeInv, BusyInv, TurnsInv, OutcomeInv
<1> QED
  BY <1>7, <1>9, Zenon

\* Every step of the pool keeps the protocol.
LEMMA ProtocolStep ==
    ASSUME AnswersInTime, ChannelTypes, Protocol, [Next]_vars PROVE ChannelTypes' /\ Protocol'
<1>1. CASE UNCHANGED vars
  <2>1. UNCHANGED <<pool, req, done, sql, result, w, idle, t, closed>>
    BY <1>1, Zenon DEF vars
  <2>2. UNCHANGED <<WPC, RUN>> /\ w' \in [Channel' -> WorkerRecord]
    BY <2>1, WorkersAlone, Zenon
  <2>3. UNCHANGED <<PC, CH, MODE, PREV, GOT, ID>> /\ t' \in [Thread' -> CallerRecord']
    BY <2>1, CallersAlone, Zenon
  <2>4. ChannelTypes'
    BY <2>1, <2>2, <2>3, PoolKept, ZenonT(30) DEF ChannelTypes
  <2>5. Protocol'
    BY <2>1, <2>2, <2>3, PoolKept DEF Protocol, OwnersInv, LifeInv, BusyInv, TurnsInv, OutcomeInv
  <2> QED
    BY <2>4, <2>5, Zenon
<1>2. ASSUME NEW th \in Thread, CallerStep(th) PROVE ChannelTypes' /\ Protocol'
  <2>1. CASE put(th)
    <3>1. 1 \in Channel
      BY ChannelAssumption DEF ChannelTypes, Channel
    <3> QED
      BY <2>1, <3>1, PoolKeeps, Zenon
  <2> QED
    BY <1>2, <2>1, PoolKeeps, OwnerKeeps, Zenon DEF CallerStep
<1>3. ASSUME NEW ch \in Channel, stop(ch) PROVE ChannelTypes' /\ Protocol'
  <2>1. CASE \E th \in Thread : TRUE
    BY <1>3, <2>1, PoolKeeps, Zenon
  <2>2. CASE Thread = {}
    <3>1. /\ UNCHANGED <<pool, done, sql, result, w, idle, t>> /\ req' = [req EXCEPT ![ch] = 3] /\ closed' = closed \cup {ch}
          /\ \A c \in Channel : w[c].pc # "unstarted"
      BY <1>3, Zenon DEF stop, Opened
    <3>2. UNCHANGED <<WPC, RUN>> /\ w' \in [Channel' -> WorkerRecord] /\ \A c \in Channel : WPC[c] = w[c].pc
      BY <3>1, WorkersAlone, Values, Zenon
    <3>3. t' \in [Thread' -> CallerRecord']
      BY <3>1, CallersAlone, Zenon
    <3>4. req' \in [Channel -> 0 .. 3] /\ \A c \in Channel : req'[c] \in {1, 2} => req[c] \in {1, 2}
      BY <3>1 DEF ChannelTypes
    <3>5. ChannelTypes'
      BY <3>1, <3>2, <3>3, <3>4, PoolKept, ZenonT(30) DEF ChannelTypes
    <3>6. Protocol'
      BY <2>2, <3>1, <3>2, <3>4, PoolKept DEF Protocol, OwnersInv, LifeInv, BusyInv, TurnsInv, OutcomeInv
    <3> QED
      BY <3>5, <3>6, Zenon
  <2> QED
    BY <2>1, <2>2, Zenon
<1>4. ASSUME NEW th \in Thread, NEW mode \in {"read", "write"}, lockRwl(th, mode) PROVE ChannelTypes' /\ Protocol'
  <2>1. 1 \in Channel
    BY ChannelAssumption DEF ChannelTypes, Channel
  <2> QED
    BY <1>4, <2>1, PoolKeeps, Zenon
<1>5. ASSUME NEW th \in Thread, NEW ch \in Channel, startWorker(th, ch) PROVE ChannelTypes' /\ Protocol'
  BY <1>5, PoolKeeps, Zenon
<1> QED
  BY <1>1, <1>2, <1>3, <1>4, <1>5, WorkerKeeps, Zenon DEF Next, Finished

\* A caller of submitOnce or of ch_await gets the outcome of its own statement, for
\* any number of channels, callers, requests and retries and either kind of channel,
\* as long as the 30 seconds of submitOnce do not pass before an answer.
THEOREM AnswerIsOwn == ASSUME AnswersInTime PROVE Spec => []AnswersOwnRequest
<1> DEFINE IInv == ChannelTypes /\ Protocol
<1>1. Init => IInv
  BY PoolStart, Zenon
<1>2. IInv /\ [Next]_vars => IInv'
  BY ProtocolStep, Zenon
<1>3. IInv => AnswersOwnRequest
  <2> SUFFICES ASSUME ChannelTypes, Protocol, NEW th \in Thread, t[th].pc = "put"
               PROVE  t[th].got = [thread |-> th, seq |-> t[th].seq, mode |-> t[th].mode]
    BY Zenon DEF AnswersOwnRequest
  <2>1. GOT[th] = ID[th]
    BY Values, Zenon DEF Protocol, OutcomeInv
  <2> QED
    BY <2>1, Values, Zenon DEF Tag
<1> HIDE DEF IInv
<1> QED
  BY <1>1, <1>2, <1>3, PTL DEF Spec
=============================================================================
