------------------------------ MODULE MCPager ------------------------------
(***************************************************************************)
(* Two connections.  A behaviour starts from one of the scenarios: what    *)
(* may happen in it, and how often.                                        *)
(***************************************************************************)
EXTENDS Pager

CONSTANTS c1, c2

Base == [mode |-> "DELETE", fullSync |-> TRUE, pages |-> 2, maxPages |-> 2, writers |-> {c1, c2},
         exFlag |-> {FALSE}, spill |-> FALSE, shrink |-> FALSE,
         txn |-> 2, read |-> 2, kill |-> 0, power |-> 0, ioerr |-> 0]

Scenarios ==
    { \* two writers, and the process dies once
      [Base EXCEPT !.exFlag = {TRUE, FALSE}, !.read = 3, !.kill = 1],
      [Base EXCEPT !.mode = "PERSIST", !.txn = 1, !.read = 4, !.kill = 1],
      \* the power fails: with spilled pages, in each journal mode, synchronous=NORMAL too
      [Base EXCEPT !.spill = TRUE, !.power = 1],
      [Base EXCEPT !.fullSync = FALSE, !.spill = TRUE, !.power = 1, !.txn = 1],
      [Base EXCEPT !.mode = "TRUNCATE", !.power = 1],
      [Base EXCEPT !.mode = "PERSIST", !.pages = 3, !.maxPages = 3, !.writers = {c1}, !.spill = TRUE,
                   !.power = 1],
      \* the database is created, grows and shrinks
      [Base EXCEPT !.pages = 0, !.kill = 1],
      [Base EXCEPT !.pages = 0, !.power = 1, !.txn = 1],
      [Base EXCEPT !.pages = 1, !.maxPages = 3, !.spill = TRUE, !.kill = 1, !.txn = 1],
      [Base EXCEPT !.shrink = TRUE, !.kill = 1],
      [Base EXCEPT !.mode = "PERSIST", !.shrink = TRUE, !.power = 1],
      \* writes and syncs fail
      [Base EXCEPT !.mode = "TRUNCATE", !.spill = TRUE, !.ioerr = 2],
      [Base EXCEPT !.spill = TRUE, !.ioerr = 2, !.kill = 1, !.txn = 1] }
=============================================================================
