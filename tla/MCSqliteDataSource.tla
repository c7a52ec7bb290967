------------------------- MODULE MCSqliteDataSource -------------------------
(* SqliteDataSource with one or two managing threads. *)
EXTENDS SqliteDataSource
=============================================================================
