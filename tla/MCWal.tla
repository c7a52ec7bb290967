------------------------------- MODULE MCWal -------------------------------
(***************************************************************************)
(* Two or one connections, two pages, two or three calls of walFrames.     *)
(* A scenario says who may open, write and checkpoint, in which modes,     *)
(* which sets of pages and sizes are committed, whether pages are spilled, *)
(* and how often the bounded events may happen.                            *)
(***************************************************************************)
EXTENDS WalStore, TLC

CONSTANTS c1, c2

Scenario == [conns |-> {c1, c2}, writers |-> {c1}, checkpointers |-> {c2}, modes |-> {PASSIVE},
             sizes |-> {2}, dirty |-> {{1, 2}}, spill |-> FALSE,
             write |-> 2, salt |-> 2, close |-> 0, kill |-> 0, power |-> 0]
Alone == [Scenario EXCEPT !.conns = {c1}, !.checkpointers = {c1}]

\* Both connections read, write and checkpoint a database of two pages; one
\* writes one page while the other runs blocking checkpoints; they close and
\* open again.
Interleavings ==
    {[Scenario EXCEPT !.writers = {c1, c2}, !.checkpointers = {c1, c2}],
     [Scenario EXCEPT !.modes = {FULL, RESTART, TRUNCATE}, !.sizes = {1}, !.dirty = {{1}}],
     [Scenario EXCEPT !.close = 1, !.sizes = {1}, !.dirty = {{1}}]}

\* A writer and a checkpointer, and closing connections, the last of which
\* removes the log; a connection that commits parts of the database and other
\* sizes of it; one that spills and rolls back.
Faults ==
    {[Scenario EXCEPT !.power = 1, !.sizes = {1}, !.dirty = {{1}}],
     [Scenario EXCEPT !.close = 2, !.write = 1, !.power = 1],
     [Scenario EXCEPT !.kill = 1],
     [Alone EXCEPT !.power = 1, !.sizes = {1, 2}, !.dirty = {{1}, {1, 2}}, !.modes = {PASSIVE, TRUNCATE}],
     [Alone EXCEPT !.power = 1, !.kill = 1, !.dirty = {{1}}, !.spill = TRUE, !.write = 3]}

Peers == Permutations({c1, c2})

\* What may be on the device matters only while the power can still fail.
Reduced == <<lockVars, shm, pWalFd, pDbFd, pc, pWal, loc, savepoint, cache, ghosts, bounds,
             IF may("power") THEN <<walMay, walShrunk, dbMay>> ELSE <<>> >>
=============================================================================
