------------------------------ MODULE Session -------------------------------
(***************************************************************************)
(* The prepared statements of one connection: SqliteWorker.Session, which  *)
(* keeps a least-recently-used cache of statements by SQL text and a       *)
(* registry of statements the user holds, and SqlitePreparedStatement,     *)
(* which names its statement by address.  Closures run one at a time       *)
(* (module Worker).  One that executes a statement is two actions: it      *)
(* finds the statement and binds its values, and the finally block comes   *)
(* after the steps; a BUSY between them repeats both with the same values. *)
(* What a user object checks before it submits its closure is an earlier   *)
(* action.                                                                 *)
(***************************************************************************)
EXTENDS Naturals, Sequences, FiniteSets

CONSTANTS Sql,          \* statement texts
          Addr,         \* addresses that malloc gives to sqlite3_stmt
          STMT_CACHE,   \* capacity of the cache (64)
          Value, Null,  \* values a caller binds; Null is one of them
          parameterCount, \* ?-parameters of a text
          Object,       \* SqlitePreparedStatement objects
          Thread,
          Nothing,
          SharedObject  \* an object may be used by several threads at once

ASSUME SessionAssumption ==
    /\ STMT_CACHE \in Nat \ {0}
    /\ parameterCount \in Nat /\ Null \in Value
    /\ Nothing \notin Sql \cup Addr \cup Object \cup Thread
    /\ SharedObject \in BOOLEAN

VARIABLES open,         \* Session.close has not run
          heap,         \* address -> text and bound values of the statement there
          stmts,        \* the cache: addresses, least recently used first
          userStmts,    \* the registry
          object,       \* object -> address, text, and whether it was closed
          pending,      \* thread -> the object, operation and values it has submitted
          call          \* the closure that is stepping a statement

vars == <<open, heap, stmts, userStmts, object, pending, call>>

Position == 1 .. parameterCount
Unbound == [i \in Position |-> Null]
Fresh(sql) == [sql |-> sql, vals |-> Unbound]
Free == Fresh(Nothing)
NoObject == [st |-> Nothing, sql |-> Nothing, closed |-> FALSE]
Idle == [op |-> "none", ps |-> Nothing, params |-> << >>]
NoCall == [st |-> Nothing, sql |-> Nothing, params |-> << >>, by |-> Nothing]
Cached == {stmts[i] : i \in DOMAIN stmts}

\* Arguments of query: any number of values (more than there are parameters end
\* the call like one that cannot be bound); of an object: its array, in which a
\* parameter that was never set is null.
Params == UNION {[1 .. n -> Value] : n \in 0 .. parameterCount}
Snapshot == [Position -> Value]

Init ==
    /\ open = TRUE
    /\ heap = [a \in Addr |-> Free]
    /\ stmts = << >>
    /\ userStmts = {}
    /\ object = [p \in Object |-> NoObject]
    /\ pending = [t \in Thread |-> Idle]
    /\ call = NoCall

-----------------------------------------------------------------------------
(* Binding and stepping *)

\* The values of a statement when bindAll has bound the first k of params.
bindAll(v, params, k) == [i \in Position |-> IF i <= k THEN params[i] ELSE v[i]]

\* Mutant of clear: the values stay with a cached statement.
clearNever(h, a, params) == h

\* The finally block of query and queryRows: reset, and clear_bindings when the
\* call has parameters.
clear(h, a, params) == IF params = << >> THEN h ELSE [h EXCEPT ![a].vals = Unbound]

\* bindAll on the statement at address a of heap h, for the text and the caller
\* given: all values are bound and the statement is stepped, or a value that
\* cannot be bound ends the call.  Only a cached statement is then cleared.
bindAndStep(h, a, sql, params, by) ==
    \E k \in 0 .. Len(params) :
        LET bound == [h EXCEPT ![a].vals = bindAll(@, params, k)]
        IN  IF k = Len(params)
            THEN /\ heap' = bound
                 /\ call' = [st |-> a, sql |-> sql, params |-> params, by |-> by]
            ELSE /\ heap' = IF by = Nothing THEN clear(bound, a, params) ELSE bound
                 /\ UNCHANGED call

\* The steps end, with a row, an error or the last BUSY, and so does the closure.
stepReturns ==
    /\ call # NoCall
    /\ heap' = IF call.by = Nothing THEN clear(heap, call.st, call.params) ELSE heap
    /\ pending' = IF call.by = Nothing THEN pending ELSE [pending EXCEPT ![call.by] = Idle]
    /\ call' = NoCall
    /\ UNCHANGED <<open, stmts, userStmts, object>>

-----------------------------------------------------------------------------
(* The cache *)

\* An access moves the entry at position i to the end.
touch(i) ==
    [j \in DOMAIN stmts |-> stmts[IF j < i THEN j ELSE IF j < Len(stmts) THEN j + 1 ELSE i]]

\* stmts[sql] = st: removeEldestEntry finalizes the eldest when the cache is full.
insert(a, sql) ==
    LET all == Append(stmts, a)
        new == [heap EXCEPT ![a] = Fresh(sql)]
    IN  IF Len(all) > STMT_CACHE
        THEN [heap |-> [new EXCEPT ![Head(all)] = Free], stmts |-> Tail(all)]
        ELSE [heap |-> new, stmts |-> all]

\* query and queryRows: the statement comes from the cache or is prepared; when
\* that fails nothing has changed.
query(sql, params) ==
    /\ open /\ call = NoCall
    /\ LET hit == {i \in DOMAIN stmts : heap[stmts[i]].sql = sql}
       IN  \/ \E i \in hit :
                 stmts' = touch(i) /\ bindAndStep(heap, stmts[i], sql, params, Nothing)
           \/ /\ hit = {}
              /\ \E a \in Addr :
                    /\ heap[a] = Free
                    /\ LET r == insert(a, sql)
                       IN  stmts' = r.stmts /\ bindAndStep(r.heap, a, sql, params, Nothing)
    /\ UNCHANGED <<open, userStmts, object, pending>>

-----------------------------------------------------------------------------
(* Statements of the user *)

\* SqliteConnection.prepare: prepareUser and the object for it.
prepare(p, sql) ==
    /\ open /\ call = NoCall /\ object[p] = NoObject
    /\ \E a \in Addr :
          /\ heap[a] = Free
          /\ heap' = [heap EXCEPT ![a] = Fresh(sql)]
          /\ userStmts' = userStmts \cup {a}
          /\ object' = [object EXCEPT ![p] = [st |-> a, sql |-> sql, closed |-> FALSE]]
    /\ UNCHANGED <<open, stmts, pending, call>>

inUse(p) == \E t \in Thread : pending[t].ps = p

\* Mutant of execute: the closed flag is not read.
executeUnchecked(t, p, params) ==
    /\ pending[t] = Idle /\ object[p] # NoObject
    /\ SharedObject \/ ~inUse(p)
    /\ pending' = [pending EXCEPT ![t] = [op |-> "run", ps |-> p, params |-> params]]
    /\ UNCHANGED <<open, heap, stmts, userStmts, object, call>>

\* execute, query and scalar: the closed flag is read and the array of values is
\* copied, then the closure waits for the worker.
execute(t, p, params) ==
    /\ pending[t] = Idle /\ object[p] # NoObject /\ ~object[p].closed
    /\ SharedObject \/ ~inUse(p)
    /\ pending' = [pending EXCEPT ![t] = [op |-> "run", ps |-> p, params |-> params]]
    /\ UNCHANGED <<open, heap, stmts, userStmts, object, call>>

\* runUser and runUserRows: they step an address that is in the registry, and
\* throw when it is not, when a value cannot be bound, or when the worker was
\* stopped.
runUser(t) ==
    /\ pending[t].op = "run" /\ call = NoCall
    /\ LET p == object[pending[t].ps]
       IN  IF open /\ p.st \in userStmts
           THEN bindAndStep(heap, p.st, p.sql, pending[t].params, t)
           ELSE UNCHANGED <<heap, call>>
    /\ pending' = IF call' = NoCall THEN [pending EXCEPT ![t] = Idle] ELSE pending
    /\ UNCHANGED <<open, stmts, userStmts, object>>

\* SqlitePreparedStatement.close reads and sets its flag, then submits finalizeUser.
closeObject(t, p) ==
    /\ pending[t] = Idle /\ object[p] # NoObject /\ ~object[p].closed
    /\ SharedObject \/ ~inUse(p)
    /\ object' = [object EXCEPT ![p].closed = TRUE]
    /\ pending' = [pending EXCEPT ![t] = [op |-> "finalize", ps |-> p, params |-> << >>]]
    /\ UNCHANGED <<open, heap, stmts, userStmts, call>>

\* finalizeUser, when the address is still in the registry.
finalizeUser(t) ==
    /\ pending[t].op = "finalize" /\ call = NoCall
    /\ LET a == object[pending[t].ps].st
       IN  IF open /\ a \in userStmts
           THEN /\ userStmts' = userStmts \ {a}
                /\ heap' = [heap EXCEPT ![a] = Free]
           ELSE UNCHANGED <<userStmts, heap>>
    /\ pending' = [pending EXCEPT ![t] = Idle]
    /\ UNCHANGED <<open, stmts, object, call>>

\* A closed object that no thread uses becomes garbage; its name is used again.
forget(p) ==
    /\ object[p].closed /\ ~inUse(p)
    /\ object' = [object EXCEPT ![p] = NoObject]
    /\ UNCHANGED <<open, heap, stmts, userStmts, pending, call>>

\* Mutant of close: the statements of the user are left to their objects.
closeCacheOnly ==
    /\ open /\ call = NoCall
    /\ open' = FALSE
    /\ heap' = [a \in Addr |-> IF a \in Cached THEN Free ELSE heap[a]]
    /\ stmts' = << >> /\ userStmts' = {}
    /\ UNCHANGED <<object, pending, call>>

\* SqliteConnection.close marks the objects, Session.close finalizes.
close ==
    /\ open /\ call = NoCall
    /\ open' = FALSE
    /\ heap' = [a \in Addr |-> IF a \in Cached \cup userStmts THEN Free ELSE heap[a]]
    /\ stmts' = << >> /\ userStmts' = {}
    /\ object' = [p \in Object |->
                     IF object[p] = NoObject THEN NoObject ELSE [object[p] EXCEPT !.closed = TRUE]]
    /\ UNCHANGED <<pending, call>>

-----------------------------------------------------------------------------
Next ==
    \/ close \/ stepReturns
    \/ \E sql \in Sql, params \in Params : query(sql, params)
    \/ \E p \in Object : forget(p) \/ \E sql \in Sql : prepare(p, sql)
    \/ \E t \in Thread :
          \/ runUser(t) \/ finalizeUser(t)
          \/ \E p \in Object : closeObject(t, p) \/ \E params \in Snapshot : execute(t, p, params)

Spec == Init /\ [][Next]_vars

-----------------------------------------------------------------------------
(* Properties *)

\* The variables have their types, and the cache its capacity and one
\* statement per text.
SessionTypeOK ==
    /\ open \in BOOLEAN
    /\ heap \in [Addr -> [sql : Sql \cup {Nothing}, vals : [Position -> Value]]]
    /\ Len(stmts) <= STMT_CACHE
    /\ \A i, j \in DOMAIN stmts : heap[stmts[i]].sql = heap[stmts[j]].sql => i = j
    /\ userStmts \subseteq Addr
    /\ object \in [Object -> [st : Addr, sql : Sql, closed : BOOLEAN] \cup {NoObject}]
    /\ pending \in [Thread -> [op : {"run"}, ps : Object, params : Snapshot]
                               \cup [op : {"finalize"}, ps : Object, params : {<< >>}] \cup {Idle}]
    /\ call \in [st : Addr, sql : Sql, params : Params, by : Thread \cup {Nothing}] \cup {NoCall}

\* Every sqlite3_stmt is owned by the cache or by the registry, never by both,
\* and neither owns a finalized one: nothing is finalized twice or leaked, also
\* not by the close of the session.
StatementsOwned ==
    /\ Cached \cap userStmts = {}
    /\ \A a \in Addr : a \in Cached \cup userStmts <=> heap[a] # Free

\* "So that no value leaks into a later use of the same SQL without parameters"
\* (Session.query), and "all of params is bound again each time, so that no
\* earlier value remains" (Session.runUser): a statement is stepped with the
\* values of its own call and with NULL for those the call does not give,
\* whatever was bound, half bound or refused before.
StepsWithOwnValues ==
    call # NoCall =>
        heap[call.st].vals =
            [i \in Position |-> IF i \in DOMAIN call.params THEN call.params[i] ELSE Null]

\* "At the same time a use-after-finalize guard" (userStmts), and the key of the
\* cache: a closure steps a statement of the text that it was asked to run.
StepsOwnStatement == call # NoCall => heap[call.st].sql = call.sql
=============================================================================
