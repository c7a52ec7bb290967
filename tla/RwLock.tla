------------------------------- MODULE RwLock -------------------------------
(***************************************************************************)
(* What a reader/writer lock promises.  Holders of the shared side may be  *)
(* many; the holder of the exclusive side admits no shared holder but      *)
(* itself.  Nothing is said about waiting: a client that cannot have the   *)
(* lock is told so and tries again (the SQLITE_BUSY discipline), so only   *)
(* successful acquisitions are steps.                                      *)
(*                                                                         *)
(* The eight wal-index lock slots kept by JvmVfsLocks.kt are each shown to *)
(* be such a lock (module JvmVfsLocks).                                    *)
(***************************************************************************)
CONSTANTS Client, NoClient

VARIABLES readers,   \* the clients holding the shared side
          writer     \* the client holding the exclusive side, or NoClient

rwvars == <<readers, writer>>

Init == readers = {} /\ writer = NoClient

AcquireShared(c) ==
    /\ writer \in {NoClient, c}
    /\ readers' = readers \cup {c}
    /\ UNCHANGED writer

\* The exclusive side swallows the client's own shared hold.
AcquireExclusive(c) ==
    /\ writer \in {NoClient, c}
    /\ readers \subseteq {c}
    /\ readers' = readers \ {c}
    /\ writer' = c

Release(c) ==
    /\ readers' = readers \ {c}
    /\ writer' = IF writer = c THEN NoClient ELSE writer

Next == \E c \in Client : AcquireShared(c) \/ AcquireExclusive(c) \/ Release(c)

Spec == Init /\ [][Next]_rwvars
=============================================================================
