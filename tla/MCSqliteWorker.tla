--------------------------- MODULE MCSqliteWorker ---------------------------
(* SqliteWorker on small sets of threads and children. *)
EXTENDS SqliteWorker
=============================================================================
