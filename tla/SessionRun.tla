----------------------------- MODULE SessionRun -----------------------------
(***************************************************************************)
(* SqliteWorker.Session.run: execution with retries.  The sessions of      *)
(* several workers write to one database.  A text of one statement goes    *)
(* through the statement cache, a text of several to sqlite3_exec, which   *)
(* runs them one after the other up to the first that fails.  When that is *)
(* with BUSY or PROTOCOL run tries the whole text again, up to a limit,    *)
(* whatever the statements before it have done.                            *)
(*                                                                         *)
(* SQLite is external: a write outside a transaction commits by itself,    *)
(* one inside keeps the write lock until the end of the transaction; BEGIN *)
(* inside, COMMIT and ROLLBACK outside a transaction are errors.           *)
(***************************************************************************)
EXTENDS Naturals, Sequences

CONSTANTS Writer, NoWriter,
          Text,         \* non-empty sequences of "write", "begin", "commit", "rollback"
          Retries       \* the limit (200)

VARIABLES pc,           \* "idle", "try", "step", "done", "busy" or "error"
          text,         \* the text of the call
          tries,
          next,         \* the statement to be stepped
          ran,          \* how often each statement of the text was executed
          inTx,         \* the connection is in a transaction that it has begun
          writeLock     \* the WAL write lock

vars == <<pc, text, tries, next, ran, inTx, writeLock>>

Init ==
    /\ pc = [w \in Writer |-> "idle"]
    /\ text = [w \in Writer |-> << >>]
    /\ tries = [w \in Writer |-> 0]
    /\ next = [w \in Writer |-> 1]
    /\ ran = [w \in Writer |-> << >>]
    /\ inTx = [w \in Writer |-> FALSE]
    /\ writeLock = NoWriter

run(w, s) ==
    /\ pc[w] \notin {"try", "step"}
    /\ pc' = [pc EXCEPT ![w] = "try"]
    /\ text' = [text EXCEPT ![w] = s]
    /\ tries' = [tries EXCEPT ![w] = 0]
    /\ next' = [next EXCEPT ![w] = 1]
    /\ ran' = [ran EXCEPT ![w] = [i \in 1 .. Len(s) |-> 0]]
    /\ UNCHANGED <<inTx, writeLock>>

-----------------------------------------------------------------------------
(* One statement *)

kind(w) == text[w][next[w]]

\* Mutant of executed: the last statement is retried as well.
executedRetried(w) ==
    /\ ran' = [ran EXCEPT ![w][next[w]] = @ + 1]
    /\ IF next[w] = Len(text[w]) /\ tries[w] > 0
       THEN pc' = [pc EXCEPT ![w] = "done"] /\ UNCHANGED <<next, tries>>
       ELSE /\ pc' = [pc EXCEPT ![w] = "try"]
            /\ next' = [next EXCEPT ![w] = IF @ = Len(text[w]) THEN 1 ELSE @ + 1]
            /\ tries' = [tries EXCEPT ![w] = IF next[w] = Len(text[w]) THEN 1 ELSE @]

\* The statement is done, and the next one follows if there is one.
executed(w) ==
    /\ ran' = [ran EXCEPT ![w][next[w]] = @ + 1]
    /\ IF next[w] = Len(text[w])
       THEN pc' = [pc EXCEPT ![w] = "done"] /\ UNCHANGED next
       ELSE pc' = [pc EXCEPT ![w] = "try"] /\ next' = [next EXCEPT ![w] = @ + 1]
    /\ UNCHANGED tries

\* A write has got the write lock, or its transaction has it.
sqlite3Step(w) ==
    /\ pc[w] = "try" /\ kind(w) = "write"
    /\ writeLock \in {NoWriter, w}
    /\ writeLock' = w
    /\ pc' = [pc EXCEPT ![w] = "step"]
    /\ UNCHANGED <<text, tries, next, ran, inTx>>

lockAfterWrite(w) == IF inTx[w] THEN w ELSE NoWriter

\* It is done, and commits by itself when no transaction was begun.
written(w) ==
    /\ pc[w] = "step"
    /\ executed(w)
    /\ writeLock' = lockAfterWrite(w)
    /\ UNCHANGED <<text, inTx>>

\* It fails and is undone; any such rc is returned at once.
writeFails(w) ==
    /\ pc[w] = "step"
    /\ pc' = [pc EXCEPT ![w] = "error"]
    /\ writeLock' = lockAfterWrite(w)
    /\ UNCHANGED <<text, tries, next, ran, inTx>>

\* BEGIN, COMMIT and ROLLBACK.
control(w) ==
    /\ pc[w] = "try" /\ kind(w) # "write"
    /\ IF (kind(w) = "begin") = inTx[w]
       THEN pc' = [pc EXCEPT ![w] = "error"] /\ UNCHANGED <<tries, next, ran, inTx, writeLock>>
       ELSE /\ executed(w)
            /\ inTx' = [inTx EXCEPT ![w] = ~@]
            /\ writeLock' = IF writeLock = w THEN NoWriter ELSE writeLock
    /\ UNCHANGED text

\* Mutant of busy: the attempts are not counted.
busyForever(w) ==
    /\ pc[w] = "try" /\ kind(w) = "write" /\ writeLock # w
    /\ next' = [next EXCEPT ![w] = 1]
    /\ UNCHANGED <<pc, text, tries, ran, inTx, writeLock>>

\* BUSY (the lock is taken, or the snapshot of the transaction is old) or
\* PROTOCOL: sleep, and the text again from its beginning; after the last
\* attempt run throws.  A transaction that was begun stays open.
busy(w) ==
    /\ pc[w] = "try" /\ kind(w) = "write" /\ writeLock # w
    /\ tries' = [tries EXCEPT ![w] = @ + 1]
    /\ pc' = [pc EXCEPT ![w] = IF tries'[w] = Retries THEN "busy" ELSE "try"]
    /\ next' = [next EXCEPT ![w] = 1]
    /\ UNCHANGED <<text, ran, inTx, writeLock>>

goOn(w) == sqlite3Step(w) \/ written(w) \/ writeFails(w) \/ control(w) \/ busy(w)

Next == \E w \in Writer : goOn(w) \/ \E s \in Text : run(w, s)

Spec == Init /\ [][Next]_vars

\* A running call goes on.
FairSpec == Spec /\ \A w \in Writer : WF_vars(goOn(w))

-----------------------------------------------------------------------------
(* Properties *)

\* The variables have their types; no call makes more than Retries attempts.
RunTypeOK ==
    /\ pc \in [Writer -> {"idle", "try", "step", "done", "busy", "error"}]
    /\ \A w \in Writer : pc[w] # "idle" => text[w] \in Text
    /\ tries \in [Writer -> 0 .. Retries]
    /\ \A w \in Writer : pc[w] # "idle" => next[w] \in DOMAIN text[w]
    /\ \A w \in Writer : ran[w] \in [DOMAIN text[w] -> 0 .. Retries]
    /\ inTx \in [Writer -> BOOLEAN]
    /\ writeLock \in Writer \cup {NoWriter}

\* BEGIN, writes, and the end of the transaction.
OneTransaction(s) == s[1] = "begin" /\ \A i \in 2 .. Len(s) - 1 : s[i] = "write"

\* How far "the retry is safe" (Session.run) holds.  The last statement of a
\* text, so also the only one, is executed once if run returns without an error
\* and otherwise not at all.  Those before it may be executed once per attempt,
\* in the order of the text, so that an attempt repeats a beginning of the text
\* and never skips a statement; a text that is one transaction repeats nothing.
RetryEffects ==
    \A w \in Writer : pc[w] # "idle" =>
        LET n == Len(text[w])
        IN  /\ ran[w][n] = IF pc[w] = "done" THEN 1 ELSE 0
            /\ \A i \in 1 .. n - 1 : ran[w][i] >= ran[w][i + 1]
            /\ ran[w][1] <= tries[w] + 1
            /\ OneTransaction(text[w]) => ran[w][1] <= 1

\* Whatever the other writers do, run returns or throws.
RunEnds == \A w \in Writer : pc[w] = "try" ~> pc[w] \in {"done", "busy", "error"}
=============================================================================
