------------------------------ MODULE WalStore ------------------------------
(***************************************************************************)
(* The write-ahead log as an implementation of SnapshotStore.              *)
(***************************************************************************)
EXTENDS Wal

InTransaction(c) == pc[c] \in {"read", "ended"} \/ loc[c].useWal
Writers == {c \in Conn : writeLock(c) /\ InTransaction(c)}

\* What a connection's transaction sees; one that is committing sees the image
\* it is about to publish.
View(c) ==
    IF ~InTransaction(c) THEN NoImage
    ELSE IF loc[c].nTruncate # 0 THEN hist[pub + 1] ELSE Sees(c)

Store == INSTANCE SnapshotStore
            WITH log <- SubSeq(hist, 1, pub), synced <- synced,
                 writer <- IF Writers = {} THEN NoConn ELSE CHOOSE c \in Writers : TRUE,
                 view <- [c \in Conn |-> View(c)]

\* The log implements a list of committed images with one snapshot per
\* transaction, read page by page from the WAL and the database file while
\* writers append and restart the log and checkpoints copy it and truncate
\* it; a crash at any step leaves a prefix that is at least what was synced.
ImplementsStore == Store!Spec
=============================================================================
