--------------------------- MODULE SnapshotStore ---------------------------
(***************************************************************************)
(* What the write-ahead log, or the rollback journal in its place,        *)
(* promises the connections of a database: a list of committed images that *)
(* only grows at its end, a view per transaction that is the last image of *)
(* the moment the transaction began and that nobody but the transaction    *)
(* itself changes, one writer at a time, who started from the last image,  *)
(* and a crash that loses at most the images that were not yet synced.     *)
(***************************************************************************)
EXTENDS Naturals, Sequences

CONSTANTS Conn, NoConn, NoImage

VARIABLES log,      \* the committed images, oldest first
          synced,   \* how many of them a crash must leave
          writer,   \* the connection in a write transaction, or NoConn
          view      \* view[c]: the image c's transaction sees, or NoImage

storeVars == <<log, synced, writer, view>>

Init ==
    /\ Len(log) = 1
    /\ synced = 1
    /\ writer = NoConn
    /\ view = [c \in Conn |-> NoImage]

Newest == log[Len(log)]

Begin(c) ==
    /\ view[c] = NoImage
    /\ view' = [view EXCEPT ![c] = Newest]
    /\ UNCHANGED <<log, synced, writer>>

BeginWrite(c) ==
    /\ writer = NoConn /\ view[c] = Newest
    /\ writer' = c
    /\ UNCHANGED <<log, synced, view>>

\* A write, a rollback to a savepoint or a rollback: only the writer's view moves.
Change(c) ==
    /\ writer = c
    /\ view'[c] # NoImage
    /\ \A d \in Conn \ {c} : view'[d] = view[d]
    /\ DOMAIN view' = Conn
    /\ UNCHANGED <<log, synced, writer>>

Commit(c) ==
    /\ writer = c
    /\ log' = Append(log, view[c])
    /\ UNCHANGED <<synced, writer, view>>

EndWrite(c) ==
    /\ writer = c /\ view[c] = Newest
    /\ writer' = NoConn
    /\ UNCHANGED <<log, synced, view>>

End(c) ==
    /\ writer # c /\ view[c] # NoImage
    /\ view' = [view EXCEPT ![c] = NoImage]
    /\ UNCHANGED <<log, synced, writer>>

\* A transaction that cannot go on is given up.
Abort(c) ==
    /\ writer = c
    /\ writer' = NoConn
    /\ view' = [view EXCEPT ![c] = NoImage]
    /\ UNCHANGED <<log, synced>>

Sync ==
    /\ synced' \in synced..Len(log)
    /\ UNCHANGED <<log, writer, view>>

\* Every process dies.  What survives is a prefix of the list no shorter than
\* the synced one, or all of it and the transaction that was committing.
Crash ==
    /\ writer' = NoConn
    /\ view' = [c \in Conn |-> NoImage]
    /\ \/ \E n \in synced..Len(log) : log' = SubSeq(log, 1, n)
       \/ writer # NoConn /\ log' = Append(log, view[writer])
    /\ synced' \in 1..Len(log')

Next ==
    \/ \E c \in Conn :
          \/ Begin(c) \/ BeginWrite(c) \/ Change(c) \/ Commit(c) \/ EndWrite(c) \/ End(c)
          \/ Abort(c)
    \/ Sync
    \/ Crash

Spec == Init /\ [][Next]_storeVars
=============================================================================
