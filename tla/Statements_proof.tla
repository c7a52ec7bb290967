-------------------------- MODULE Statements_proof --------------------------
(***************************************************************************)
(* The statements of a session and the retry loop, for any number of texts,*)
(* addresses, objects, threads and writers, and any capacity and limit.    *)
(***************************************************************************)
EXTENDS MCStatements, SequenceTheorems, TLAPS

-----------------------------------------------------------------------------
(* The cache *)

\* The cache holds addresses, none of them twice, and at most STMT_CACHE.
CacheInv ==
    /\ stmts \in Seq(Addr)
    /\ \A i, j \in 1 .. Len(stmts) : stmts[i] = stmts[j] => i = j
    /\ Len(stmts) <= STMT_CACHE

\* Moving an entry to the end keeps the addresses of the cache.
LEMMA TouchKeeps ==
    ASSUME CacheInv, NEW i \in DOMAIN stmts, stmts' = touch(i)
    PROVE  CacheInv' /\ Cached' = Cached
<1> DEFINE n == Len(stmts)
<1>1. n \in Nat /\ DOMAIN stmts = 1 .. n /\ i \in 1 .. n
  BY DEF CacheInv
<1>2. \A j \in 1 .. n : stmts'[j] = stmts[IF j < i THEN j ELSE IF j < n THEN j + 1 ELSE i]
  BY <1>1, Zenon DEF touch
<1>3. stmts' \in Seq(Addr) /\ Len(stmts') = n
  <2>1. \A j \in 1 .. n : stmts'[j] \in Addr
    BY <1>1, <1>2 DEF CacheInv
  <2>2. stmts' = [j \in 1 .. n |-> stmts'[j]]
    BY <1>1, Zenon DEF touch
  <2> QED
    BY <1>1, <2>1, <2>2, IsASeq
<1> HIDE DEF n
<1>4. CacheInv'
  <2> SUFFICES ASSUME NEW j \in 1 .. n, NEW k \in 1 .. n, stmts'[j] = stmts'[k] PROVE j = k
    BY <1>3, Zenon DEF CacheInv, n
  <2> QED
    BY <1>1, <1>2 DEF CacheInv, n
<1>5. Cached' = {stmts'[j] : j \in 1 .. n} /\ Cached = {stmts[j] : j \in 1 .. n}
  BY <1>1, <1>3 DEF Cached
<1>6. ASSUME NEW j \in 1 .. n PROVE \E k \in 1 .. n : stmts'[k] = stmts[j]
  <2>1. PICK k \in 1 .. n : k = IF j = i THEN n ELSE IF j < i THEN j ELSE j - 1
    BY <1>1
  <2> QED
    BY <1>1, <1>2, <2>1
<1>7. \A j \in 1 .. n : \E k \in 1 .. n : stmts'[j] = stmts[k]
  BY <1>1, <1>2
<1> QED
  BY <1>4, <1>5, <1>6, <1>7

\* The cache of insert: full or not, and what it becomes.
full == Len(stmts) + 1 > STMT_CACHE
inserted(a) == IF full THEN Tail(Append(stmts, a)) ELSE Append(stmts, a)
eldest(a) == Append(stmts, a)[1]

\* What an insertion leaves in the cache: the new address, and all others unless
\* the cache was full, which costs it its eldest, never the new one.
LEMMA InsertKeeps ==
    ASSUME STMT_CACHE \in Nat \ {0}, CacheInv, NEW a \in Addr, a \notin Cached,
           stmts' = inserted(a)
    PROVE  /\ CacheInv'
           /\ full => eldest(a) \in Cached /\ Cached' = (Cached \ {eldest(a)}) \cup {a}
           /\ ~full => Cached' = Cached \cup {a}
<1> DEFINE n == Len(stmts)
           all == Append(stmts, a)
<1>1. n \in Nat /\ DOMAIN stmts = 1 .. n /\ n <= STMT_CACHE /\ Cached = {stmts[i] : i \in 1 .. n}
  BY DEF CacheInv, Cached
<1>2. all \in Seq(Addr) /\ Len(all) = n + 1 /\ all[n + 1] = a /\ \A i \in 1 .. n : all[i] = stmts[i]
  BY <1>1 DEF CacheInv
<1>3. \A i, j \in 1 .. n + 1 : all[i] = all[j] => i = j
  BY <1>1, <1>2 DEF CacheInv
<1>4. stmts' = IF n + 1 > STMT_CACHE THEN Tail(all) ELSE all
  BY Zenon DEF inserted, full
<1>e. eldest(a) = all[1]
  BY Zenon DEF eldest
<1> HIDE DEF all
<1>5. CASE n + 1 <= STMT_CACHE
  <2>1. stmts' = all
    BY <1>1, <1>4, <1>5
  <2>2. Cached' = Cached \cup {a}
    <3>1. Cached' = {all[i] : i \in 1 .. n + 1}
      BY <1>2, <2>1 DEF Cached
    <3> QED
      BY <1>1, <1>2, <3>1
  <2>3. CacheInv'
    BY <1>2, <1>3, <1>5, <2>1, Zenon DEF CacheInv
  <2> QED
    BY <1>1, <1>5, <2>2, <2>3 DEF full
<1>6. CASE n + 1 > STMT_CACHE
  <2>1. n >= 1 /\ stmts' = Tail(all)
    BY <1>1, <1>4, <1>6
  <2>2. stmts' \in Seq(Addr) /\ Len(stmts') = n /\ \A i \in 1 .. n : stmts'[i] = all[i + 1]
    BY <1>1, <1>2, <2>1
  <2>3. CacheInv'
    BY <1>1, <1>3, <2>2 DEF CacheInv
  <2>5. all[1] \in Cached
    BY <1>1, <1>2, <2>1
  <2>6. Cached' = {all[i + 1] : i \in 1 .. n}
    BY <1>1, <2>2 DEF Cached
  <2>7. ASSUME NEW x PROVE x \in Cached' <=> x \in (Cached \ {all[1]}) \cup {a}
    <3>1. ASSUME x \in Cached' PROVE x \in (Cached \ {all[1]}) \cup {a}
      <4>1. PICK i \in 1 .. n : x = all[i + 1]
        BY <2>6, <3>1, Zenon
      <4>2. CASE i = n
        BY <1>2, <4>1, <4>2, Zenon
      <4>3. CASE i < n
        <5>1. x = stmts[i + 1] /\ x # all[1]
          BY <1>1, <1>2, <1>3, <2>1, <4>1, <4>3
        <5> QED
          BY <1>1, <4>3, <5>1
      <4>4. i = n \/ i < n
        <5>1. n \in Nat
          BY <1>1, Zenon
        <5> HIDE DEF n
        <5> QED
          BY <5>1
      <4> QED
        BY <4>2, <4>3, <4>4, Zenon
    <3>2. ASSUME x \in Cached, x # all[1] PROVE x \in Cached'
      <4>1. PICK i \in 1 .. n : x = stmts[i]
        BY <1>1, <3>2, Zenon
      <4>2. i > 1 /\ x = all[(i - 1) + 1]
        BY <1>1, <1>2, <2>1, <3>2, <4>1
      <4>3. i - 1 \in 1 .. n
        BY <1>1, <4>2
      <4> QED
        BY <2>6, <4>2, <4>3, Zenon
    <3>3. a \in Cached'
      BY <1>1, <1>2, <2>1, <2>6
    <3> QED
      BY <3>1, <3>2, <3>3, Zenon
  <2>8. Cached' = (Cached \ {all[1]}) \cup {a}
    BY <2>7, Zenon
  <2> QED
    BY <1>e, <1>1, <1>6, <2>3, <2>5, <2>8, Zenon DEF full
<1> QED
  BY <1>1, <1>5, <1>6

-----------------------------------------------------------------------------
(* Binding *)

Statement == [sql : Sql \cup {Nothing}, vals : [Position -> Value]]

\* The values a call steps with.
given(params, v) == [i \in Position |-> IF i \in DOMAIN params THEN params[i] ELSE v[i]]

\* What a caller passes is a sequence no longer than the parameters of a text.
LEMMA ParamsAreSequences ==
    ASSUME SessionAssumption, NEW params \in Params
    PROVE  /\ Len(params) \in Nat /\ Len(params) <= parameterCount /\ DOMAIN params = 1 .. Len(params)
           /\ \A i \in 1 .. Len(params) : params[i] \in Value
           /\ Len(params) = 0 => params = << >>
<1>1. PICK n \in 0 .. parameterCount : params \in [1 .. n -> Value]
  BY Zenon DEF Params
<1>2. n \in Nat /\ n <= parameterCount
  BY <1>1 DEF SessionAssumption
<1>3. params \in Seq(Value) /\ Len(params) = n
  <2>1. params = [i \in 1 .. n |-> params[i]] /\ \A i \in 1 .. n : params[i] \in Value
    BY <1>1, Zenon
  <2> QED
    BY <1>2, <2>1, IsASeq
<1> QED
  BY <1>1, <1>2, <1>3, EmptySeq, SMT

\* bindAll leaves the other statements and the text alone.  Either all values of
\* the call are bound and it steps, or a cached statement is left without any.
LEMMA BindEffect ==
    ASSUME SessionAssumption, NEW h \in [Addr -> Statement], NEW a \in Addr, NEW sql,
           NEW params \in Params, NEW by, bindAndStep(h, a, sql, params, by)
    PROVE  /\ heap' \in [Addr -> Statement]
           /\ \A b \in Addr \ {a} : heap'[b] = h[b]
           /\ heap'[a].sql = h[a].sql
           /\ \/ /\ call' = [st |-> a, sql |-> sql, params |-> params, by |-> by]
                 /\ heap'[a].vals = given(params, h[a].vals)
              \/ call' = call /\ (by = Nothing => heap'[a].vals = Unbound)
<1> DEFINE n == Len(params)
<1>1. n \in Nat /\ n <= parameterCount /\ DOMAIN params = 1 .. n /\ (\A i \in 1 .. n : params[i] \in Value)
      /\ (n = 0 => params = << >>)
  BY ParamsAreSequences, Zenon
<1>2. PICK k \in 0 .. n :
         LET bound == [h EXCEPT ![a].vals = bindAll(@, params, k)]
         IN  IF k = n
             THEN heap' = bound /\ call' = [st |-> a, sql |-> sql, params |-> params, by |-> by]
             ELSE heap' = (IF by = Nothing THEN clear(bound, a, params) ELSE bound) /\ call' = call
  BY Zenon DEF bindAndStep
<1> HIDE DEF n
<1> DEFINE v == bindAll(h[a].vals, params, k)
           s == [sql |-> h[a].sql, vals |-> v]
           bound == [h EXCEPT ![a] = s]
<1>3. v \in [Position -> Value] /\ Unbound \in [Position -> Value] /\ h[a].sql \in Sql \cup {Nothing}
  <2>1. h[a].vals \in [Position -> Value] /\ h[a].sql \in Sql \cup {Nothing}
    BY Zenon DEF Statement
  <2>2. \A i \in Position : i <= k => params[i] \in Value
    BY <1>1, <1>2 DEF Position, SessionAssumption
  <2> QED
    BY <2>1, <2>2, Zenon DEF bindAll, Unbound, SessionAssumption
<1>4. s \in Statement /\ bound \in [Addr -> Statement] /\ bound[a] = s /\ \A b \in Addr \ {a} : bound[b] = h[b]
  BY <1>3, Zenon DEF Statement
<1>5. [h EXCEPT ![a].vals = bindAll(@, params, k)] = bound
  <2>1. [h[a] EXCEPT !.vals = bindAll(h[a].vals, params, k)] = s
    <3> HIDE DEF v
    <3>1. h[a] \in Statement
      BY Zenon
    <3>2. \A x \in Statement : [x EXCEPT !.vals = v] = [sql |-> x.sql, vals |-> v]
      BY SMT DEF Statement
    <3> QED
      BY <3>1, <3>2, Zenon DEF v
  <2> QED
    BY <2>1, Zenon
<1>6. CASE k = n
  <2>1. heap' = bound /\ call' = [st |-> a, sql |-> sql, params |-> params, by |-> by]
    BY <1>2, <1>5, <1>6, Zenon
  <2>2. v = given(params, h[a].vals)
    <3>1. \A i \in Position : i <= k <=> i \in DOMAIN params
      BY <1>1, <1>6 DEF Position, SessionAssumption
    <3> QED
      BY <3>1, Zenon DEF bindAll, given
  <2>3. heap'[a].vals = v /\ heap'[a].sql = h[a].sql
    BY <1>4, <2>1, Zenon
  <2> QED
    BY <1>4, <2>1, <2>2, <2>3, Zenon
<1>7. CASE k # n
  <2>1. params # << >>
    BY <1>1, <1>2, <1>7 DEF n
  <2>2. call' = call /\ heap' = IF by = Nothing THEN [bound EXCEPT ![a].vals = Unbound] ELSE bound
    BY <1>2, <1>5, <1>7, <2>1, Zenon DEF clear
  <2>3. CASE by = Nothing
    <3>1. [bound[a] EXCEPT !.vals = Unbound] = [sql |-> h[a].sql, vals |-> Unbound]
      <4> HIDE DEF v
      <4>1. [s EXCEPT !.vals = Unbound] = [sql |-> h[a].sql, vals |-> Unbound]
        BY SMT
      <4> QED
        BY <1>4, <4>1, Zenon
    <3>2. heap' = [bound EXCEPT ![a] = [sql |-> h[a].sql, vals |-> Unbound]]
      BY <2>2, <2>3, <3>1, Zenon
    <3>3. [sql |-> h[a].sql, vals |-> Unbound] \in Statement
      BY <1>3, Zenon DEF Statement
    <3> HIDE DEF bound
    <3>4. heap' \in [Addr -> Statement] /\ heap'[a] = [sql |-> h[a].sql, vals |-> Unbound]
          /\ \A b \in Addr \ {a} : heap'[b] = h[b]
      BY <1>4, <3>2, <3>3, Zenon
    <3>5. heap'[a].sql = h[a].sql /\ heap'[a].vals = Unbound
      BY <3>4, SMT
    <3> QED
      BY <2>2, <3>4, <3>5, Zenon
  <2>4. CASE by # Nothing
    <3>1. heap'[a].sql = h[a].sql
      BY <1>4, <2>2, <2>4, Zenon
    <3> QED
      BY <1>4, <2>2, <2>4, <3>1, Zenon
  <2> QED
    BY <2>3, <2>4, Zenon
<1> QED
  BY <1>6, <1>7, Zenon

-----------------------------------------------------------------------------
(* Who owns a statement, and whose values it has *)

\* The types of the heap and the registry, and who owns what is in the heap.
HeapInv ==
    /\ CacheInv
    /\ heap \in [Addr -> Statement]
    /\ \A a \in Addr : heap[a] = Free \/ heap[a].sql \in Sql
    /\ userStmts \subseteq Addr
    /\ StatementsOwned

\* The closure that steps has a statement of the cache, or of the registry when
\* it is one of a user object, and its values; the other statements of the cache
\* have none.
CallInv ==
    /\ call = NoCall \/ call \in [st : Addr, sql : Sql, params : Params, by : Thread \cup {Nothing}]
    /\ call # NoCall => IF call.by = Nothing THEN call.st \in Cached
                        ELSE call.st \in userStmts /\ pending[call.by].op = "run"
    /\ call # NoCall => heap[call.st].vals = given(call.params, Unbound)
    /\ \A a \in Cached : heap[a].vals = Unbound \/ (call # NoCall /\ call.st = a)

\* The objects of the user and what their threads have submitted.
ObjectTypes ==
    /\ object \in [Object -> [st : Addr, sql : Sql, closed : BOOLEAN] \cup {NoObject}]
    /\ pending \in [Thread -> [op : {"run"}, ps : Object, params : Snapshot]
                               \cup [op : {"finalize"}, ps : Object, params : {<< >>}] \cup {Idle}]

\* A new statement is not a free one, and has no values.
LEMMA FreshStatement ==
    ASSUME SessionAssumption, NEW sql \in Sql
    PROVE  /\ Fresh(sql) \in Statement /\ Free \in Statement /\ Fresh(sql) # Free
           /\ Fresh(sql).sql = sql /\ Fresh(sql).vals = Unbound
<1>1. Unbound \in [Position -> Value]
  BY Zenon DEF Unbound, SessionAssumption
<1> QED
  BY <1>1, Zenon DEF Fresh, Free, Statement, SessionAssumption

\* A call is not NoCall.
LEMMA CallsDiffer ==
    ASSUME SessionAssumption, NEW a \in Addr, NEW sql, NEW params, NEW by
    PROVE  [st |-> a, sql |-> sql, params |-> params, by |-> by] # NoCall
BY Zenon DEF NoCall, SessionAssumption

\* A statement that query has found, or has made, in heap h and the next cache.
Found(h, a, sql) ==
    /\ CacheInv'
    /\ h \in [Addr -> Statement]
    /\ \A b \in Addr : h[b] = Free \/ h[b].sql \in Sql
    /\ Cached' \cap userStmts = {}
    /\ \A b \in Addr : b \in Cached' \cup userStmts <=> h[b] # Free
    /\ \A b \in Cached' : h[b].vals = Unbound
    /\ \A b \in userStmts : h[b] = heap[b]
    /\ a \in Cached' /\ h[a].sql = sql

\* On a hit the entry moves to the end.
LEMMA HitFinds ==
    ASSUME SessionAssumption, HeapInv, CallInv, call = NoCall,
           NEW i \in DOMAIN stmts, stmts' = touch(i)
    PROVE  Found(heap, stmts[i], heap[stmts[i]].sql)
<1>1. stmts[i] \in Cached
  BY Zenon DEF Cached
<1>2. CacheInv' /\ Cached' = Cached
  BY TouchKeeps, Zenon DEF HeapInv
<1> QED
  BY <1>1, <1>2, Zenon DEF HeapInv, CallInv, StatementsOwned, Found

\* On a miss the new statement enters, and the eldest may go.
LEMMA MissFinds ==
    ASSUME SessionAssumption, HeapInv, CallInv, call = NoCall, NEW a \in Addr, heap[a] = Free,
           NEW sql \in Sql, stmts' = insert(a, sql).stmts
    PROVE  Found(insert(a, sql).heap, a, sql)
<1> DEFINE h == [heap EXCEPT ![a] = Fresh(sql)]
           g == IF full THEN [h EXCEPT ![eldest(a)] = Free] ELSE h
<1>0. /\ Fresh(sql) \in Statement /\ Free \in Statement /\ Fresh(sql) # Free
      /\ Fresh(sql).sql = sql /\ Fresh(sql).vals = Unbound
  BY FreshStatement, Zenon
<1>1. a \notin Cached /\ a \notin userStmts
  BY Zenon DEF HeapInv, StatementsOwned
<1>2. Len(Append(stmts, a)) = Len(stmts) + 1
  BY AppendProperties DEF HeapInv, CacheInv
<1>3. full => Head(Append(stmts, a)) = eldest(a)
  BY DEF eldest, HeapInv, CacheInv
<1>4. insert(a, sql) = [heap |-> g, stmts |-> inserted(a)]
  BY <1>2, <1>3, Zenon DEF insert, inserted, full
<1>5. stmts' = inserted(a) /\ insert(a, sql).heap = g
  <2> HIDE DEF g
  <2> QED
    BY <1>4
<1>6. CacheInv' /\ (full => eldest(a) \in Cached /\ Cached' = (Cached \ {eldest(a)}) \cup {a})
      /\ (~full => Cached' = Cached \cup {a})
  BY <1>1, <1>5, InsertKeeps, Zenon DEF HeapInv, SessionAssumption
<1>7. Cached \subseteq Addr
  BY DEF HeapInv, CacheInv, Cached
<1>8. full => eldest(a) \in Addr \ {a}
  BY <1>1, <1>6, <1>7, Zenon
<1>9. h \in [Addr -> Statement] /\ h[a] = Fresh(sql) /\ \A b \in Addr \ {a} : h[b] = heap[b]
  BY <1>0, Zenon DEF HeapInv
<1> HIDE DEF h
<1>10. /\ g \in [Addr -> Statement]
       /\ \A b \in Addr : g[b] = IF b = a THEN Fresh(sql) ELSE IF full /\ b = eldest(a) THEN Free ELSE heap[b]
  BY <1>0, <1>8, <1>9, Zenon
<1> HIDE DEF g
<1>11. \A b \in Addr : g[b] = Free \/ g[b].sql \in Sql
  BY <1>0, <1>10, Zenon DEF HeapInv
<1>12. Cached' \cap userStmts = {} /\ \A b \in Addr : b \in Cached' \cup userStmts <=> g[b] # Free
  BY <1>0, <1>1, <1>6, <1>8, <1>10, ZenonT(30) DEF HeapInv, StatementsOwned
<1>13. \A b \in Cached' : g[b].vals = Unbound
  <2> SUFFICES ASSUME NEW b \in Cached' PROVE g[b].vals = Unbound
    BY Zenon
  <2>1. CASE b = a
    BY <1>0, <1>10, <2>1, Zenon
  <2>2. CASE b # a
    <3>1. b \in Cached /\ g[b] = heap[b]
      BY <1>6, <1>7, <1>10, <2>2, Zenon
    <3> QED
      BY <3>1, Zenon DEF CallInv
  <2> QED
    BY <2>1, <2>2, Zenon
<1>14. \A b \in userStmts : g[b] = heap[b]
  BY <1>1, <1>6, <1>10, Zenon DEF HeapInv, StatementsOwned
<1>15. a \in Cached' /\ g[a].sql = sql
  BY <1>0, <1>6, <1>10, Zenon
<1> QED
  BY <1>5, <1>6, <1>10, <1>11, <1>12, <1>13, <1>14, <1>15, Zenon DEF Found

\* query binds and steps a statement of its own text.
LEMMA QueryFinds ==
    ASSUME SessionAssumption, HeapInv, CallInv, NEW sql \in Sql, NEW params \in Params, query(sql, params)
    PROVE  \E h, a : Found(h, a, sql) /\ bindAndStep(h, a, sql, params, Nothing)
<1>1. CASE \E i \in {j \in DOMAIN stmts : heap[stmts[j]].sql = sql} :
              stmts' = touch(i) /\ bindAndStep(heap, stmts[i], sql, params, Nothing)
  <2>1. PICK i \in DOMAIN stmts : /\ heap[stmts[i]].sql = sql /\ stmts' = touch(i)
                                  /\ bindAndStep(heap, stmts[i], sql, params, Nothing)
    BY <1>1, Zenon
  <2>2. Found(heap, stmts[i], sql)
    BY <2>1, HitFinds, Zenon DEF query
  <2> QED
    BY <2>1, <2>2, Zenon
<1>2. CASE \E a \in Addr :
              /\ heap[a] = Free
              /\ LET r == insert(a, sql)
                 IN  stmts' = r.stmts /\ bindAndStep(r.heap, a, sql, params, Nothing)
  <2>1. PICK a \in Addr : /\ heap[a] = Free /\ stmts' = insert(a, sql).stmts
                          /\ bindAndStep(insert(a, sql).heap, a, sql, params, Nothing)
    BY <1>2, Zenon
  <2>2. Found(insert(a, sql).heap, a, sql)
    BY <2>1, MissFinds, Zenon DEF query
  <2> QED
    BY <2>1, <2>2, Zenon
<1> QED
  BY <1>1, <1>2, Zenon DEF query

\* What query leaves: a heap in order, in which the user's statements are as
\* before, and the call of its own text and values, or none.
LEMMA QueryKeeps ==
    ASSUME SessionAssumption, HeapInv, CallInv, NEW sql \in Sql, NEW params \in Params, query(sql, params)
    PROVE  /\ HeapInv' /\ CallInv'
           /\ \A b \in userStmts : heap'[b] = heap[b]
           /\ call' = NoCall \/ (call'.by = Nothing /\ heap'[call'.st].sql = call'.sql)
<1>1. PICK h, a : Found(h, a, sql) /\ bindAndStep(h, a, sql, params, Nothing)
  BY QueryFinds, Zenon
<1>2. UNCHANGED <<userStmts, pending>> /\ call = NoCall
  BY Zenon DEF query
<1>3. Cached' \subseteq Addr /\ a \in Addr /\ a \in Cached' /\ a \notin userStmts /\ a \in Cached' \cup userStmts
  BY <1>1 DEF Found, CacheInv, Cached
<1>4. /\ heap' \in [Addr -> Statement]
      /\ \A b \in Addr \ {a} : heap'[b] = h[b]
      /\ heap'[a].sql = h[a].sql
      /\ \/ /\ call' = [st |-> a, sql |-> sql, params |-> params, by |-> Nothing]
            /\ heap'[a].vals = given(params, h[a].vals)
         \/ call' = NoCall /\ heap'[a].vals = Unbound
  <2>1. h \in [Addr -> Statement]
    BY <1>1, Zenon DEF Found
  <2>2. /\ heap' \in [Addr -> Statement]
        /\ \A b \in Addr \ {a} : heap'[b] = h[b]
        /\ heap'[a].sql = h[a].sql
        /\ \/ /\ call' = [st |-> a, sql |-> sql, params |-> params, by |-> Nothing]
              /\ heap'[a].vals = given(params, h[a].vals)
           \/ call' = call /\ (Nothing = Nothing => heap'[a].vals = Unbound)
    BY <1>1, <1>3, <2>1, BindEffect
  <2> QED
    BY <1>2, <2>2, Zenon
<1>5. heap'[a].sql = sql /\ heap'[a] # Free /\ h[a] # Free
  <2>1. Free.sql \notin Sql
    BY Zenon DEF Free, Fresh, SessionAssumption
  <2> QED
    BY <1>1, <1>4, <2>1, Zenon DEF Found
<1>6. StatementsOwned'
  BY <1>1, <1>2, <1>3, <1>4, <1>5, Zenon DEF Found, StatementsOwned
<1>7. HeapInv'
  BY <1>1, <1>2, <1>3, <1>4, <1>5, <1>6, Zenon DEF Found, HeapInv
<1>8. \A b \in userStmts : heap'[b] = heap[b]
  BY <1>1, <1>3, <1>4, Zenon DEF Found, HeapInv
<1>9. CASE call' = NoCall /\ heap'[a].vals = Unbound
  BY <1>1, <1>3, <1>4, <1>7, <1>8, <1>9, Zenon DEF Found, CallInv
<1>10. CASE /\ call' = [st |-> a, sql |-> sql, params |-> params, by |-> Nothing]
            /\ heap'[a].vals = given(params, h[a].vals)
  <2>1. call' # NoCall /\ call'.st = a /\ call'.sql = sql /\ call'.params = params /\ call'.by = Nothing
    BY <1>3, <1>10, CallsDiffer, Zenon
  <2>2. call' \in [st : Addr, sql : Sql, params : Params, by : Thread \cup {Nothing}]
    BY <1>3, <1>10, Zenon
  <2>3. heap'[a].vals = given(params, Unbound)
    BY <1>1, <1>3, <1>10, Zenon DEF Found
  <2>4. CallInv'
    BY <1>1, <1>3, <1>4, <2>1, <2>2, <2>3, ZenonT(30) DEF Found, CallInv, given, Unbound
  <2> QED
    BY <1>5, <1>7, <1>8, <2>1, <2>4, Zenon
<1> QED
  BY <1>2, <1>4, <1>9, <1>10, Zenon

\* What is pending of a thread with a closure to run, or to finalize.
LEMMA PendingKinds ==
    ASSUME ObjectTypes, NEW t \in Thread
    PROVE  /\ pending[t].op = "run" => pending[t].ps \in Object /\ pending[t].params \in Snapshot
           /\ pending[t].op = "finalize" => pending[t].ps \in Object
           /\ pending[t] = Idle \/ pending[t].op \in {"run", "finalize"}
           /\ Idle.op = "none"
<1>1. Idle.op = "none"
  BY Zenon DEF Idle
<1>2. \/ pending[t] = Idle
      \/ pending[t] \in [op : {"run"}, ps : Object, params : Snapshot]
      \/ pending[t] \in [op : {"finalize"}, ps : Object, params : {<< >>}]
  BY Zenon DEF ObjectTypes
<1> QED
  BY <1>1, <1>2, Zenon

\* A user object binds every parameter, so that no earlier value counts.
LEMMA SnapshotGivesAll ==
    ASSUME SessionAssumption, NEW params \in Snapshot, NEW v
    PROVE  params \in Params /\ given(params, v) = given(params, Unbound)
<1>1. params \in [1 .. parameterCount -> Value] /\ DOMAIN params = Position
  BY Zenon DEF Snapshot, Position
<1>2. parameterCount \in 0 .. parameterCount
  BY DEF SessionAssumption
<1> QED
  BY <1>1, <1>2, Zenon DEF Params, given

\* runUser keeps the heap in order, and every text where it is.  It steps the
\* statement its object names, if the registry has it, or is over.
LEMMA RunUserEffect ==
    ASSUME SessionAssumption, HeapInv, CallInv, ObjectTypes, NEW t \in Thread, runUser(t)
    PROVE  /\ HeapInv' /\ CallInv'
           /\ \A b \in Addr : heap'[b].sql = heap[b].sql
           /\ LET p == object[pending[t].ps]
              IN  \/ call' = NoCall /\ pending' = [pending EXCEPT ![t] = Idle]
                  \/ /\ call' # NoCall /\ call'.st = p.st /\ call'.sql = p.sql
                     /\ open /\ p.st \in userStmts /\ UNCHANGED pending
<1> DEFINE p == object[pending[t].ps]
           params == pending[t].params
<1>1. UNCHANGED <<open, stmts, userStmts, object>> /\ call = NoCall /\ pending[t].op = "run"
  BY Zenon DEF runUser
<1>2. pending[t].ps \in Object /\ params \in Snapshot /\ Nothing \notin Thread
  BY <1>1, PendingKinds, Zenon DEF SessionAssumption
<1>3. Cached' = Cached /\ CacheInv' /\ Cached \cap userStmts = {}
  BY <1>1 DEF HeapInv, CacheInv, Cached, StatementsOwned
<1>4. CASE ~(open /\ p.st \in userStmts)
  <2>1. UNCHANGED <<heap, call>>
    BY <1>4, Zenon DEF runUser
  <2>2. pending' = [pending EXCEPT ![t] = Idle] /\ call' = NoCall
    BY <1>1, <2>1, Zenon DEF runUser
  <2>3. HeapInv' /\ CallInv'
    BY <1>1, <1>3, <2>1, <2>2, Zenon DEF HeapInv, CallInv, StatementsOwned
  <2> QED
    BY <2>1, <2>2, <2>3, Zenon
<1>5. CASE open /\ p.st \in userStmts
  <2>1. bindAndStep(heap, p.st, p.sql, params, t)
    BY <1>5, Zenon DEF runUser
  <2>2. p.st \in Addr /\ p.sql \in Sql
    <3>1. p \in [st : Addr, sql : Sql, closed : BOOLEAN] \cup {NoObject}
      BY <1>2, Zenon DEF ObjectTypes
    <3>2. p.st \in Addr /\ NoObject.st \notin Addr
      BY <1>5, Zenon DEF HeapInv, NoObject, SessionAssumption
    <3> QED
      BY <3>1, <3>2, Zenon
  <2>3. params \in Params /\ given(params, heap[p.st].vals) = given(params, Unbound)
    BY <1>2, SnapshotGivesAll, Zenon
  <2> HIDE DEF p, params
  <2>4. /\ heap' \in [Addr -> Statement]
        /\ \A b \in Addr \ {p.st} : heap'[b] = heap[b]
        /\ heap'[p.st].sql = heap[p.st].sql
        /\ \/ /\ call' = [st |-> p.st, sql |-> p.sql, params |-> params, by |-> t]
              /\ heap'[p.st].vals = given(params, heap[p.st].vals)
           \/ call' = call /\ (t = Nothing => heap'[p.st].vals = Unbound)
    <3>1. heap \in [Addr -> Statement]
      BY Zenon DEF HeapInv
    <3> QED
      BY <2>1, <2>2, <2>3, <3>1, BindEffect
  <2>5. \A b \in Addr : heap'[b].sql = heap[b].sql
    BY <2>2, <2>4, Zenon
  <2>6. heap[p.st] # Free /\ heap[p.st].sql \in Sql /\ Free.sql \notin Sql
    BY <1>5, <2>2, Zenon DEF HeapInv, StatementsOwned, Free, Fresh, SessionAssumption
  <2>7. heap'[p.st] # Free /\ heap'[p.st].sql \in Sql
    BY <2>2, <2>5, <2>6, Zenon
  <2>8. HeapInv'
    BY <1>1, <1>3, <2>2, <2>4, <2>6, <2>7, Zenon DEF HeapInv, StatementsOwned
  <2>9. \A b \in Cached : b \in Addr /\ b # p.st /\ heap'[b] = heap[b] /\ heap'[b].vals = Unbound
    <3>1. Cached \subseteq Addr
      BY DEF HeapInv, CacheInv, Cached
    <3> QED
      BY <1>1, <1>3, <1>5, <2>4, <3>1, Zenon DEF CallInv
  <2>10. CASE call' = call
    <3>1. CallInv'
      BY <1>1, <1>3, <2>9, <2>10, Zenon DEF CallInv
    <3>2. pending' = [pending EXCEPT ![t] = Idle]
      BY <1>1, <2>10, Zenon DEF runUser
    <3> QED
      BY <1>1, <2>5, <2>8, <2>10, <3>1, <3>2, Zenon
  <2>11. CASE /\ call' = [st |-> p.st, sql |-> p.sql, params |-> params, by |-> t]
              /\ heap'[p.st].vals = given(params, heap[p.st].vals)
    <3>1. call' # NoCall /\ call'.st = p.st /\ call'.sql = p.sql /\ call'.params = params /\ call'.by = t
      BY <2>2, <2>11, CallsDiffer, Zenon
    <3>2. call' \in [st : Addr, sql : Sql, params : Params, by : Thread \cup {Nothing}]
      BY <2>2, <2>3, <2>11, Zenon
    <3>3. pending' = pending
      BY <3>1, Zenon DEF runUser
    <3>4. CallInv'
      BY <1>1, <1>2, <1>3, <1>5, <2>3, <2>9, <2>11, <3>1, <3>2, <3>3, ZenonT(30) DEF CallInv, given, Unbound
    <3> QED
      BY <1>5, <2>5, <2>8, <3>1, <3>3, <3>4, Zenon DEF p
  <2> QED
    BY <2>4, <2>10, <2>11, Zenon
<1> QED
  BY <1>4, <1>5, Zenon

\* The end of a call keeps the heap in order; a cached statement loses its values.
LEMMA ReturnEffect ==
    ASSUME SessionAssumption, HeapInv, CallInv, ObjectTypes, stepReturns
    PROVE  /\ HeapInv' /\ CallInv'
           /\ \A b \in Addr : heap'[b].sql = heap[b].sql
           /\ call # NoCall /\ call' = NoCall
           /\ \/ UNCHANGED pending
              \/ /\ call.by \in Thread /\ pending[call.by].op = "run"
                 /\ pending' = [pending EXCEPT ![call.by] = Idle]
<1>1. UNCHANGED <<open, stmts, userStmts, object>> /\ call # NoCall /\ call' = NoCall
  BY Zenon DEF stepReturns
<1>2. /\ call.st \in Addr /\ call.params \in Params /\ call.by \in Thread \cup {Nothing}
      /\ heap[call.st].vals = given(call.params, Unbound)
      /\ IF call.by = Nothing THEN call.st \in Cached
         ELSE call.st \in userStmts /\ pending[call.by].op = "run"
  BY <1>1, Zenon DEF CallInv
<1>3. Cached' = Cached /\ CacheInv' /\ Cached \cap userStmts = {} /\ Cached \subseteq Addr
  BY <1>1 DEF HeapInv, CacheInv, Cached, StatementsOwned
<1>4. \/ UNCHANGED pending
      \/ /\ call.by \in Thread /\ pending[call.by].op = "run"
         /\ pending' = [pending EXCEPT ![call.by] = Idle]
  BY <1>2, Zenon DEF stepReturns
<1>5. CASE call.by # Nothing
  <2>1. heap' = heap
    BY <1>5, Zenon DEF stepReturns
  <2>2. HeapInv'
    BY <1>1, <1>3, <2>1, Zenon DEF HeapInv, StatementsOwned
  <2>3. CallInv'
    BY <1>1, <1>2, <1>3, <1>5, <2>1, Zenon DEF CallInv
  <2> QED
    BY <1>1, <1>4, <2>1, <2>2, <2>3, Zenon
<1>6. CASE call.by = Nothing
  <2> DEFINE a == call.st
             s == [sql |-> heap[a].sql, vals |-> Unbound]
  <2>1. heap[a] \in Statement /\ Unbound \in [Position -> Value] /\ a \in Cached
    BY <1>2, <1>6, Zenon DEF HeapInv, Unbound, SessionAssumption
  <2>2. heap' = [heap EXCEPT ![a] = s]
    <3>1. CASE call.params = << >>
      <4>1. heap' = heap
        BY <1>6, <3>1, Zenon DEF stepReturns, clear
      <4>2. given(<< >>, Unbound) = Unbound
        <5>1. DOMAIN << >> = {}
          OBVIOUS
        <5> QED
          BY <5>1, Zenon DEF given, Unbound
      <4>3. heap[a].vals = Unbound
        BY <1>2, <3>1, <4>2, Zenon
      <4>4. \A x \in Statement : x = [sql |-> x.sql, vals |-> x.vals]
        BY SMT DEF Statement
      <4>5. heap[a] = s
        BY <2>1, <4>3, <4>4, Zenon
      <4> QED
        BY <1>2, <4>1, <4>5, Zenon DEF HeapInv
    <3>2. CASE call.params # << >>
      <4>1. heap' = [heap EXCEPT ![a].vals = Unbound]
        BY <1>6, <3>2, Zenon DEF stepReturns, clear
      <4>2. \A x \in Statement : [x EXCEPT !.vals = Unbound] = [sql |-> x.sql, vals |-> Unbound]
        BY SMT DEF Statement
      <4> QED
        BY <2>1, <4>1, <4>2, Zenon
    <3> QED
      BY <3>1, <3>2, Zenon
  <2>3. s \in Statement /\ s.sql = heap[a].sql /\ s.vals = Unbound
    BY <2>1, Zenon DEF Statement
  <2> HIDE DEF s, a
  <2>4. heap' \in [Addr -> Statement] /\ heap'[a] = s /\ \A b \in Addr \ {a} : heap'[b] = heap[b]
    BY <1>2, <2>2, <2>3, Zenon DEF HeapInv, a
  <2>5. \A b \in Addr : heap'[b].sql = heap[b].sql
    BY <2>3, <2>4, Zenon
  <2>6. heap[a] # Free /\ heap[a].sql \in Sql /\ Free.sql \notin Sql
    BY <1>3, <2>1, Zenon DEF HeapInv, StatementsOwned, Free, Fresh, SessionAssumption
  <2>7. heap'[a] # Free /\ heap'[a].sql \in Sql
    BY <2>3, <2>4, <2>6, Zenon
  <2>8. HeapInv'
    BY <1>1, <1>3, <2>1, <2>4, <2>6, <2>7, Zenon DEF HeapInv, StatementsOwned
  <2>9. CallInv'
    BY <1>1, <1>3, <2>3, <2>4, Zenon DEF CallInv, a
  <2> QED
    BY <1>1, <1>4, <2>5, <2>8, <2>9, Zenon
<1> QED
  BY <1>5, <1>6, Zenon

\* A step that leaves the heap, the cache and the registry alone, and the call
\* with what its thread has submitted, keeps the two invariants.
LEMMA HeapAlone ==
    ASSUME HeapInv, CallInv, UNCHANGED <<heap, stmts, userStmts, call>>,
           call # NoCall /\ call.by # Nothing => pending'[call.by] = pending[call.by]
    PROVE  HeapInv' /\ CallInv'
<1>1. Cached' = Cached /\ CacheInv'
  BY DEF HeapInv, CacheInv, Cached
<1> QED
  BY <1>1, Zenon DEF HeapInv, CallInv, StatementsOwned

\* Every closure keeps the heap, the cache and the registry in order.
LEMMA HeapStep ==
    ASSUME SessionAssumption, HeapInv, CallInv, ObjectTypes, [Next]_vars PROVE HeapInv' /\ CallInv'
<1>0. Cached \subseteq Addr /\ Free \in Statement
  <2>1. Unbound \in [Position -> Value]
    BY Zenon DEF Unbound, SessionAssumption
  <2> QED
    BY <2>1 DEF HeapInv, CacheInv, Cached, Free, Fresh, Statement
<1>c. call # NoCall /\ call.by # Nothing => call.by \in Thread /\ pending[call.by].op = "run"
  BY Zenon DEF CallInv
<1>1. CASE UNCHANGED vars
  BY <1>1, HeapAlone, Zenon DEF vars
<1>2. CASE close
  <2>1. CacheInv' /\ Cached' = {} /\ userStmts' = {} /\ call' = NoCall
    BY <1>2, EmptySeq DEF close, CacheInv, Cached, SessionAssumption
  <2>2. /\ heap' \in [Addr -> Statement]
        /\ \A a \in Addr : heap'[a] = IF a \in Cached \cup userStmts THEN Free ELSE heap[a]
    BY <1>0, <1>2, Zenon DEF close, HeapInv
  <2> QED
    BY <2>1, <2>2, Zenon DEF HeapInv, StatementsOwned, CallInv
<1>3. ASSUME NEW sql \in Sql, NEW params \in Params, query(sql, params) PROVE HeapInv' /\ CallInv'
  BY <1>3, QueryKeeps, Zenon
<1>r. CASE stepReturns
  BY <1>r, ReturnEffect, Zenon
<1>4. ASSUME NEW p \in Object, forget(p) PROVE HeapInv' /\ CallInv'
  BY <1>4, HeapAlone, Zenon DEF forget
<1>5. ASSUME NEW p \in Object, NEW sql \in Sql, prepare(p, sql) PROVE HeapInv' /\ CallInv'
  <2>1. PICK a \in Addr : /\ heap[a] = Free /\ heap' = [heap EXCEPT ![a] = Fresh(sql)]
                          /\ userStmts' = userStmts \cup {a}
    BY <1>5, Zenon DEF prepare
  <2>2. CacheInv' /\ Cached' = Cached /\ call = NoCall /\ call' = NoCall
    BY <1>5 DEF prepare, HeapInv, CacheInv, Cached
  <2>3. a \notin Cached
    BY <2>1, Zenon DEF HeapInv, StatementsOwned
  <2>4. /\ heap' \in [Addr -> Statement] /\ heap'[a] # Free /\ heap'[a].sql \in Sql
        /\ \A b \in Addr \ {a} : heap'[b] = heap[b]
    <3>1. Fresh(sql) \in Statement /\ Fresh(sql) # Free /\ Fresh(sql).sql = sql
      BY FreshStatement, Zenon
    <3> QED
      BY <2>1, <3>1, Zenon DEF HeapInv
  <2>5. HeapInv'
    BY <2>1, <2>2, <2>3, <2>4, ZenonT(30) DEF HeapInv, StatementsOwned
  <2>6. CallInv'
    BY <1>0, <2>2, <2>3, <2>4, Zenon DEF CallInv
  <2> QED
    BY <2>5, <2>6, Zenon
<1>6. ASSUME NEW t \in Thread, runUser(t) PROVE HeapInv' /\ CallInv'
  BY <1>6, RunUserEffect, Zenon
<1>7. ASSUME NEW t \in Thread, finalizeUser(t) PROVE HeapInv' /\ CallInv'
  <2>1. CacheInv' /\ Cached' = Cached /\ call = NoCall /\ call' = NoCall
    BY <1>7 DEF finalizeUser, HeapInv, CacheInv, Cached
  <2>2. CASE UNCHANGED <<userStmts, heap>>
    BY <2>1, <2>2, Zenon DEF HeapInv, CallInv, StatementsOwned
  <2>3. ASSUME NEW a \in userStmts, userStmts' = userStmts \ {a}, heap' = [heap EXCEPT ![a] = Free]
        PROVE  HeapInv' /\ CallInv'
    <3>1. a \in Addr /\ a \notin Cached
      BY Zenon DEF HeapInv, StatementsOwned
    <3>2. heap' \in [Addr -> Statement] /\ heap'[a] = Free /\ \A b \in Addr \ {a} : heap'[b] = heap[b]
      BY <1>0, <2>3, <3>1, Zenon DEF HeapInv
    <3>3. HeapInv'
      BY <2>1, <2>3, <3>1, <3>2, Zenon DEF HeapInv, StatementsOwned
    <3>4. CallInv'
      BY <1>0, <2>1, <3>1, <3>2, Zenon DEF CallInv
    <3> QED
      BY <3>3, <3>4, Zenon
  <2> QED
    BY <1>7, <2>2, <2>3, Zenon DEF finalizeUser
<1>8. ASSUME NEW t \in Thread, NEW p \in Object, NEW params, execute(t, p, params) \/ closeObject(t, p)
      PROVE  HeapInv' /\ CallInv'
  <2>1. pending[t] = Idle /\ UNCHANGED <<heap, stmts, userStmts, call>>
        /\ \E x : pending' = [pending EXCEPT ![t] = x]
    BY <1>8, Zenon DEF execute, closeObject
  <2>2. \A u \in Thread \ {t} : pending'[u] = pending[u]
    BY <2>1, Zenon DEF ObjectTypes
  <2>3. pending[t].op # "run"
    BY <2>1, PendingKinds
  <2> QED
    BY <1>c, <2>1, <2>2, <2>3, HeapAlone, Zenon
<1> QED
  BY <1>1, <1>2, <1>3, <1>r, <1>4, <1>5, <1>6, <1>7, <1>8, Zenon DEF Next

-----------------------------------------------------------------------------
(* Which statement an object steps *)

\* An object is used by one thread at a time.
OwnObjects == SharedObject = FALSE

\* The objects a thread has submitted a closure on, by the kind of closure; the
\* objects there are, and those with a statement of their own: they are open,
\* or being finalized.
Objects(x, op) == {p \in Object : x.op = op /\ x.ps = p}
Running == [t \in Thread |-> Objects(pending[t], "run")]
Finalizing == [t \in Thread |-> Objects(pending[t], "finalize")]
Existing == {p \in Object : object[p] # NoObject}
Owning == {p \in Existing : ~object[p].closed \/ \E t \in Thread : p \in Finalizing[t]}

\* The address of such an object is in the registry, is nobody else's, and has
\* its text; a submitted closure is on an object that was not closed since.
ObjectInv ==
    /\ \A t \in Thread : Running[t] \cup Finalizing[t] \subseteq Existing
    /\ \A t, u \in Thread, p \in Object :
          p \in Running[t] \cup Finalizing[t] /\ p \in Running[u] \cup Finalizing[u] => t = u
    /\ \A t \in Thread : \A p \in Finalizing[t] : object[p].closed
    /\ open => \A t \in Thread : \A p \in Running[t] : ~object[p].closed
    /\ open => \A p \in Owning :
          object[p].st \in userStmts /\ heap[object[p].st].sql = object[p].sql
    /\ open => \A p, q \in Owning : object[p].st = object[q].st => p = q
    /\ StepsOwnStatement

\* The types of the objects and the threads are kept.
LEMMA ObjectTypesStep ==
    ASSUME SessionAssumption, HeapInv, CallInv, ObjectTypes, [Next]_vars PROVE ObjectTypes'
<1>0. ASSUME NEW t \in Thread, pending' = [pending EXCEPT ![t] = Idle], object' = object PROVE ObjectTypes'
  BY <1>0, Zenon DEF ObjectTypes
<1>u. ASSUME UNCHANGED <<object, pending>> PROVE ObjectTypes'
  BY <1>u, Zenon DEF ObjectTypes
<1>1. CASE UNCHANGED vars
  BY <1>1, <1>u, Zenon DEF vars
<1>2. CASE close
  BY <1>2, Zenon DEF close, ObjectTypes
<1>3. ASSUME NEW sql \in Sql, NEW params \in Params, query(sql, params) PROVE ObjectTypes'
  BY <1>3, <1>u, Zenon DEF query
<1>r. CASE stepReturns
  <2>1. object' = object
    BY <1>r, Zenon DEF stepReturns
  <2> QED
    BY <1>0, <1>u, <1>r, <2>1, ReturnEffect, Zenon
<1>4. ASSUME NEW p \in Object, forget(p) PROVE ObjectTypes'
  BY <1>4, Zenon DEF forget, ObjectTypes
<1>5. ASSUME NEW p \in Object, NEW sql \in Sql, prepare(p, sql) PROVE ObjectTypes'
  <2>1. PICK a \in Addr : object' = [object EXCEPT ![p] = [st |-> a, sql |-> sql, closed |-> FALSE]]
    BY <1>5, Zenon DEF prepare
  <2>2. [st |-> a, sql |-> sql, closed |-> FALSE] \in [st : Addr, sql : Sql, closed : BOOLEAN]
    BY Zenon
  <2> QED
    BY <1>5, <2>1, <2>2, Zenon DEF prepare, ObjectTypes
<1>6. ASSUME NEW t \in Thread, runUser(t) PROVE ObjectTypes'
  BY <1>0, <1>u, <1>6, Zenon DEF runUser
<1>7. ASSUME NEW t \in Thread, finalizeUser(t) PROVE ObjectTypes'
  BY <1>0, <1>7, Zenon DEF finalizeUser
<1>8. ASSUME NEW t \in Thread, NEW p \in Object, NEW params \in Snapshot, execute(t, p, params)
      PROVE  ObjectTypes'
  BY <1>8, Zenon DEF execute, ObjectTypes
<1>9. ASSUME NEW t \in Thread, NEW p \in Object, closeObject(t, p) PROVE ObjectTypes'
  BY <1>9, ZenonT(30) DEF closeObject, ObjectTypes
<1> QED
  BY <1>1, <1>2, <1>3, <1>r, <1>4, <1>5, <1>6, <1>7, <1>8, <1>9, Zenon DEF Next

\* What a thread has submitted: one closure on one object, or nothing.
LEMMA Submissions ==
    ASSUME ObjectTypes, NEW t \in Thread
    PROVE  /\ pending[t].op = "run" => pending[t].ps \in Running[t]
           /\ pending[t].op = "finalize" => pending[t].ps \in Finalizing[t]
           /\ \A p \in Running[t] \cup Finalizing[t] : p \in Object /\ pending[t].ps = p
           /\ \A p \in Running[t] : pending[t].op = "run"
           /\ \A p \in Finalizing[t] : pending[t].op = "finalize"
           /\ pending[t].op = "run" => Finalizing[t] = {}
           /\ pending[t] = Idle => Running[t] = {} /\ Finalizing[t] = {}
<1>1. /\ Running[t] = {p \in Object : pending[t].op = "run" /\ pending[t].ps = p}
      /\ Finalizing[t] = {p \in Object : pending[t].op = "finalize" /\ pending[t].ps = p}
  BY Zenon DEF Running, Finalizing, Objects
<1>2. "run" # "finalize" /\ Idle.op # "run" /\ Idle.op # "finalize"
  BY Zenon DEF Idle
<1> QED
  BY <1>1, <1>2, PendingKinds, Zenon

\* What the threads have submitted when the entry of t changes to x.
LEMMA Resubmitted ==
    ASSUME ObjectTypes, NEW t \in Thread, NEW x, pending' = [pending EXCEPT ![t] = x]
    PROVE  /\ Running'[t] = Objects(x, "run") /\ Finalizing'[t] = Objects(x, "finalize")
           /\ \A u \in Thread \ {t} : Running'[u] = Running[u] /\ Finalizing'[u] = Finalizing[u]
<1>1. pending'[t] = x /\ \A u \in Thread \ {t} : pending'[u] = pending[u]
  BY Zenon DEF ObjectTypes
<1>2. \A u \in Thread : /\ Running[u] = Objects(pending[u], "run")
                        /\ Finalizing[u] = Objects(pending[u], "finalize")
                        /\ Running'[u] = Objects(pending'[u], "run")
                        /\ Finalizing'[u] = Objects(pending'[u], "finalize")
  BY Zenon DEF Running, Finalizing
<1>3. Running'[t] = Objects(x, "run") /\ Finalizing'[t] = Objects(x, "finalize")
  BY <1>1, <1>2, Zenon
<1>4. ASSUME NEW u \in Thread \ {t} PROVE Running'[u] = Running[u] /\ Finalizing'[u] = Finalizing[u]
  <2>1. u \in Thread /\ pending'[u] = pending[u]
    BY <1>1, Zenon
  <2>2. /\ Running[u] = Objects(pending[u], "run") /\ Finalizing[u] = Objects(pending[u], "finalize")
        /\ Running'[u] = Objects(pending'[u], "run") /\ Finalizing'[u] = Objects(pending'[u], "finalize")
    BY <1>2, <2>1, Zenon
  <2> QED
    BY <2>1, <2>2, Zenon
<1> QED
  BY <1>3, <1>4, Zenon

\* The closure of t is over.
LEMMA Served ==
    ASSUME ObjectTypes, NEW t \in Thread, pending' = [pending EXCEPT ![t] = Idle]
    PROVE  /\ Running'[t] = {} /\ Finalizing'[t] = {}
           /\ \A u \in Thread \ {t} : Running'[u] = Running[u] /\ Finalizing'[u] = Finalizing[u]
<1>1. Idle.op # "run" /\ Idle.op # "finalize"
  BY Zenon DEF Idle
<1>2. Objects(Idle, "run") = {} /\ Objects(Idle, "finalize") = {}
  BY <1>1, Zenon DEF Objects
<1> QED
  BY <1>2, Resubmitted, Zenon

\* t submits a closure that steps, or one that finalizes.
LEMMA Submitted ==
    ASSUME ObjectTypes, NEW t \in Thread, NEW p \in Object, NEW op \in {"run", "finalize"}, NEW params,
           pending' = [pending EXCEPT ![t] = [op |-> op, ps |-> p, params |-> params]]
    PROVE  /\ Running'[t] = IF op = "run" THEN {p} ELSE {}
           /\ Finalizing'[t] = IF op = "run" THEN {} ELSE {p}
           /\ \A u \in Thread \ {t} : Running'[u] = Running[u] /\ Finalizing'[u] = Finalizing[u]
<1> DEFINE x == [op |-> op, ps |-> p, params |-> params]
<1>1. x.op = op /\ x.ps = p
  BY Zenon
<1> HIDE DEF x
<1>2. /\ Running'[t] = Objects(x, "run") /\ Finalizing'[t] = Objects(x, "finalize")
      /\ \A u \in Thread \ {t} : Running'[u] = Running[u] /\ Finalizing'[u] = Finalizing[u]
  BY Resubmitted, Zenon DEF x
<1>3. Objects(x, "run") = IF op = "run" THEN {p} ELSE {}
  BY <1>1, Zenon DEF Objects
<1>4. Objects(x, "finalize") = IF op = "run" THEN {} ELSE {p}
  BY <1>1, Zenon DEF Objects
<1> QED
  BY <1>2, <1>3, <1>4, Zenon

\* A step that leaves the submissions and the objects alone, and the texts of
\* the registry, and begins no call of another text, keeps ObjectInv.
LEMMA ObjectsAlone ==
    ASSUME ObjectInv, UNCHANGED <<open, userStmts, object, pending>>,
           \A b \in userStmts : heap'[b].sql = heap[b].sql, StepsOwnStatement'
    PROVE  ObjectInv'
<1>1. UNCHANGED <<Running, Finalizing, Existing, Owning>>
  BY Zenon DEF Running, Finalizing, Existing, Owning
<1> QED
  BY <1>1, ZenonT(30) DEF ObjectInv

\* So does one that ends the closure of a thread that was to run an object.
LEMMA RunServed ==
    ASSUME ObjectTypes, ObjectInv, UNCHANGED <<open, userStmts, object>>,
           \A b \in userStmts : heap'[b].sql = heap[b].sql, StepsOwnStatement',
           NEW t \in Thread, pending[t].op = "run", pending' = [pending EXCEPT ![t] = Idle]
    PROVE  ObjectInv'
<1>1. /\ Running'[t] = {} /\ Finalizing'[t] = {} /\ Finalizing[t] = {}
      /\ \A u \in Thread \ {t} : Running'[u] = Running[u] /\ Finalizing'[u] = Finalizing[u]
  BY Served, Submissions, Zenon
<1>2. Existing' = Existing
  BY Zenon DEF Existing
<1>3. Owning' = Owning
  BY <1>1, <1>2, Zenon DEF Owning
<1> QED
  BY <1>1, <1>2, <1>3 DEF ObjectInv

\* The steps of the objects' threads keep ObjectInv.
LEMMA ObjectStep ==
    ASSUME SessionAssumption, OwnObjects, HeapInv, CallInv, ObjectTypes, ObjectInv, [Next]_vars
    PROVE  ObjectInv'
<1>0. ~SharedObject
  BY Zenon DEF OwnObjects
<1>a. /\ Existing \subseteq Object /\ Owning \subseteq Existing
      /\ \A p \in Object : p \in Existing => object[p] \in [st : Addr, sql : Sql, closed : BOOLEAN]
      /\ \A t \in Thread : Running[t] \subseteq Object /\ Finalizing[t] \subseteq Object
  BY Zenon DEF Existing, Owning, ObjectTypes, Running, Finalizing, Objects
<1>b. ASSUME UNCHANGED <<heap, call>> PROVE StepsOwnStatement'
  BY <1>b, Zenon DEF ObjectInv, StepsOwnStatement
<1>n. ASSUME call' = NoCall PROVE StepsOwnStatement'
  BY <1>n, Zenon DEF StepsOwnStatement
<1>1. CASE UNCHANGED vars
  BY <1>1, <1>b, ObjectsAlone, Zenon DEF vars
<1>2. CASE close
  <2>1. UNCHANGED <<Running, Finalizing>> /\ ~open' /\ call' = NoCall
    BY <1>2, Zenon DEF close, Running, Finalizing
  <2>2. ASSUME NEW p \in Existing PROVE p \in Existing' /\ object'[p].closed
    <3>2. object'[p] = [object[p] EXCEPT !.closed = TRUE]
      BY <1>2, <1>a, Zenon DEF close, Existing
    <3>3. object'[p].closed /\ object'[p].st \in Addr
      BY <1>a, <3>2, Zenon
    <3> QED
      BY <1>a, <3>3 DEF Existing, NoObject, SessionAssumption
  <2> QED
    BY <1>n, <2>1, <2>2, Zenon DEF ObjectInv
<1>3. ASSUME NEW sql \in Sql, NEW params \in Params, query(sql, params) PROVE ObjectInv'
  <2>1. /\ \A b \in userStmts : heap'[b] = heap[b]
        /\ call' = NoCall \/ (call'.by = Nothing /\ heap'[call'.st].sql = call'.sql)
    BY <1>3, QueryKeeps, Zenon
  <2>2. StepsOwnStatement'
    BY <2>1, Zenon DEF StepsOwnStatement
  <2> QED
    BY <1>3, <2>1, <2>2, ObjectsAlone, Zenon DEF query
<1>r. CASE stepReturns
  <2>1. UNCHANGED <<open, userStmts, object>> /\ call' = NoCall
    BY <1>r, Zenon DEF stepReturns
  <2>2. \A b \in userStmts : heap'[b].sql = heap[b].sql
    BY <1>r, ReturnEffect, Zenon DEF HeapInv
  <2>3. CASE UNCHANGED pending
    BY <1>n, <2>1, <2>2, <2>3, ObjectsAlone, Zenon
  <2>4. CASE /\ call.by \in Thread /\ pending[call.by].op = "run"
             /\ pending' = [pending EXCEPT ![call.by] = Idle]
    <3>1. PICK t \in Thread : pending[t].op = "run" /\ pending' = [pending EXCEPT ![t] = Idle]
      BY <2>4, Zenon
    <3> QED
      BY <1>n, <2>1, <2>2, <3>1, RunServed, Zenon
  <2> QED
    BY <1>r, <2>3, <2>4, ReturnEffect, Zenon
<1>4. ASSUME NEW p \in Object, forget(p) PROVE ObjectInv'
  <2>1. UNCHANGED <<Running, Finalizing, open, heap, userStmts, call>>
    BY <1>4, Zenon DEF forget, Running, Finalizing
  <2>2. \A t \in Thread : p \notin Running[t] /\ p \notin Finalizing[t]
    BY <1>4, Submissions, Zenon DEF forget, inUse
  <2>3. Existing' = Existing \ {p} /\ \A q \in Object \ {p} : object'[q] = object[q]
    BY <1>4, Zenon DEF forget, Existing, ObjectTypes
  <2>4. Owning' = Owning \ {p}
    BY <1>a, <2>1, <2>3, Zenon DEF Owning
  <2>5. StepsOwnStatement'
    BY <1>b, <2>1, Zenon
  <2> QED
    BY <1>a, <2>1, <2>2, <2>3, <2>4, <2>5 DEF ObjectInv
<1>5. ASSUME NEW p \in Object, NEW sql \in Sql, prepare(p, sql) PROVE ObjectInv'
  <2>1. PICK a \in Addr : /\ heap[a] = Free /\ heap' = [heap EXCEPT ![a] = Fresh(sql)]
                          /\ userStmts' = userStmts \cup {a}
                          /\ object' = [object EXCEPT ![p] = [st |-> a, sql |-> sql, closed |-> FALSE]]
    BY <1>5, Zenon DEF prepare
  <2>2. UNCHANGED <<Running, Finalizing, open>> /\ p \notin Existing /\ call' = NoCall
    BY <1>5, Zenon DEF prepare, Running, Finalizing, Existing
  <2>3. object'[p].st = a /\ object'[p].sql = sql /\ ~object'[p].closed /\ p \in Existing'
    BY <2>1, Zenon DEF ObjectTypes, Existing, NoObject, SessionAssumption
  <2>4. \A q \in Object \ {p} : object'[q] = object[q]
    BY <2>1, Zenon DEF ObjectTypes
  <2>5. Existing' = Existing \cup {p}
    BY <2>3, <2>4, Zenon DEF Existing
  <2>6. Owning' = Owning \cup {p}
    BY <1>a, <2>2, <2>3, <2>4, <2>5, Zenon DEF Owning
  <2>7. a \notin userStmts /\ heap'[a].sql = sql /\ \A b \in userStmts : heap'[b] = heap[b]
    BY <2>1, FreshStatement, Zenon DEF HeapInv, StatementsOwned
  <2>8. StepsOwnStatement'
    BY <1>n, <2>2, Zenon
  <2> QED
    BY <1>a, <2>1, <2>2, <2>3, <2>4, <2>5, <2>6, <2>7, <2>8, SMTT(30) DEF ObjectInv
<1>6. ASSUME NEW t \in Thread, runUser(t) PROVE ObjectInv'
  <2>1. PICK p \in Object : p \in Running[t] /\ pending[t].ps = p /\ pending[t].op = "run"
    BY <1>6, <1>a, Submissions, Zenon DEF runUser
  <2>2. UNCHANGED <<open, userStmts, object>> /\ \A b \in userStmts : heap'[b].sql = heap[b].sql
    BY <1>6, RunUserEffect, Zenon DEF runUser, HeapInv
  <2>3. CASE call' = NoCall /\ pending' = [pending EXCEPT ![t] = Idle]
    BY <1>n, <2>1, <2>2, <2>3, RunServed, Zenon
  <2>4. CASE /\ call' # NoCall /\ call'.st = object[p].st /\ call'.sql = object[p].sql
             /\ open /\ object[p].st \in userStmts /\ UNCHANGED pending
    <3>1. p \in Owning
      BY <2>1, <2>4, Zenon DEF ObjectInv, Owning
    <3>2. StepsOwnStatement'
      BY <2>2, <2>4, <3>1, ZenonT(30) DEF ObjectInv, StepsOwnStatement
    <3> QED
      BY <2>2, <2>4, <3>2, ObjectsAlone, Zenon
  <2> QED
    BY <1>6, <2>1, <2>3, <2>4, RunUserEffect, Zenon
<1>7. ASSUME NEW t \in Thread, finalizeUser(t) PROVE ObjectInv'
  <2>1. PICK p \in Object : p \in Finalizing[t] /\ pending[t].ps = p
    BY <1>7, <1>a, Submissions, Zenon DEF finalizeUser
  <2>2. /\ pending' = [pending EXCEPT ![t] = Idle] /\ UNCHANGED <<open, object>> /\ call' = NoCall
        /\ IF open /\ object[p].st \in userStmts
           THEN userStmts' = userStmts \ {object[p].st} /\ heap' = [heap EXCEPT ![object[p].st] = Free]
           ELSE UNCHANGED <<userStmts, heap>>
    BY <1>7, <2>1, Zenon DEF finalizeUser
  <2>3. \A q \in Finalizing[t] : q = p
    BY <2>1, Submissions, Zenon
  <2>4. /\ Running'[t] = {} /\ Finalizing'[t] = {}
        /\ \A u \in Thread \ {t} : Running'[u] = Running[u] /\ Finalizing'[u] = Finalizing[u]
    BY <2>2, Served, Zenon
  <2>5. Existing' = Existing
    BY <2>2, Zenon DEF Existing
  <2>6. p \in Owning /\ object[p].closed /\ \A u \in Thread \ {t} : p \notin Finalizing[u]
    BY <2>1, Zenon DEF ObjectInv, Owning
  <2>7. Owning' = Owning \ {p}
    BY <2>2, <2>3, <2>4, <2>5, <2>6, Zenon DEF Owning
  <2>8. open => \A q \in Owning \ {p} : object[q].st \in userStmts' /\ heap'[object[q].st] = heap[object[q].st]
    BY <2>2, <2>6, ZenonT(30) DEF ObjectInv, HeapInv
  <2>9. StepsOwnStatement'
    BY <1>n, <2>2, Zenon
  <2> QED
    BY <2>2, <2>4, <2>5, <2>7, <2>8, <2>9 DEF ObjectInv
<1>8. ASSUME NEW t \in Thread, NEW p \in Object, NEW params, execute(t, p, params) PROVE ObjectInv'
  <2>1. /\ pending' = [pending EXCEPT ![t] = [op |-> "run", ps |-> p, params |-> params]]
        /\ UNCHANGED <<open, heap, userStmts, object, call>>
        /\ p \in Existing /\ ~object[p].closed /\ pending[t] = Idle
    BY <1>8, Zenon DEF execute, Existing
  <2>2. \A u \in Thread : p \notin Running[u] /\ p \notin Finalizing[u]
    BY <1>0, <1>8, Submissions, Zenon DEF execute, inUse
  <2>3. /\ Running'[t] = {p} /\ Finalizing'[t] = {}
        /\ \A u \in Thread \ {t} : Running'[u] = Running[u] /\ Finalizing'[u] = Finalizing[u]
    BY <2>1, Submitted, Zenon
  <2>5. Existing' = Existing
    BY <2>1, Zenon DEF Existing
  <2>6. Finalizing[t] = {}
    BY <2>1, Submissions, Zenon
  <2>7. Owning' = Owning
    BY <2>1, <2>3, <2>5, <2>6, Zenon DEF Owning
  <2>8. StepsOwnStatement'
    BY <1>b, <2>1, Zenon
  <2> QED
    BY <2>1, <2>2, <2>3, <2>5, <2>6, <2>7, <2>8 DEF ObjectInv
<1>9. ASSUME NEW t \in Thread, NEW p \in Object, closeObject(t, p) PROVE ObjectInv'
  <2>1. /\ pending' = [pending EXCEPT ![t] = [op |-> "finalize", ps |-> p, params |-> << >>]]
        /\ object' = [object EXCEPT ![p].closed = TRUE]
        /\ UNCHANGED <<open, heap, userStmts, call>>
        /\ p \in Existing /\ ~object[p].closed /\ pending[t] = Idle
    BY <1>9, Zenon DEF closeObject, Existing
  <2>2. \A u \in Thread : p \notin Running[u] /\ p \notin Finalizing[u]
    BY <1>0, <1>9, Submissions, Zenon DEF closeObject, inUse
  <2>4. /\ Running'[t] = {} /\ Finalizing'[t] = {p}
        /\ \A u \in Thread \ {t} : Running'[u] = Running[u] /\ Finalizing'[u] = Finalizing[u]
    BY <2>1, Submitted, Zenon
  <2>5. \A q \in Object \ {p} : object'[q] = object[q]
    BY <2>1, Zenon DEF ObjectTypes
  <2>6. object'[p].closed /\ object'[p].st = object[p].st /\ object'[p].sql = object[p].sql /\ p \in Existing'
    <3>1. object'[p] = [object[p] EXCEPT !.closed = TRUE]
      BY <2>1, Zenon DEF ObjectTypes
    <3>2. object'[p].closed /\ object'[p].st = object[p].st /\ object'[p].sql = object[p].sql
      BY <1>a, <2>1, <3>1
    <3> QED
      BY <1>a, <2>1, <3>2 DEF Existing, NoObject, SessionAssumption
  <2>7. Existing' = Existing
    BY <2>1, <2>5, <2>6, Zenon DEF Existing
  <2>8. Running[t] = {} /\ Finalizing[t] = {}
    BY <2>1, Submissions, Zenon
  <2>9. Owning' = Owning
    BY <1>a, <2>1, <2>4, <2>5, <2>6, <2>7, <2>8, SMTT(30) DEF Owning
  <2>10. StepsOwnStatement'
    BY <1>b, <2>1, Zenon
  <2> QED
    BY <1>a, <2>1, <2>2, <2>4, <2>5, <2>6, <2>7, <2>8, <2>9, <2>10, SMTT(30) DEF ObjectInv
<1> QED
  BY <1>1, <1>2, <1>3, <1>r, <1>4, <1>5, <1>6, <1>7, <1>8, <1>9, Zenon DEF Next

\* The initial states satisfy the invariants.
LEMMA SessionInit == Init => HeapInv /\ CallInv /\ ObjectTypes /\ ObjectInv
<1> SUFFICES ASSUME Init PROVE HeapInv /\ CallInv /\ ObjectTypes /\ ObjectInv
  BY Zenon
<1>1. CacheInv /\ Cached = {}
  BY SessionAssumption, EmptySeq DEF Init, CacheInv, Cached, SessionAssumption
<1>2. Free \in Statement
  <2>1. Unbound \in [Position -> Value]
    BY SessionAssumption, Zenon DEF Unbound, SessionAssumption
  <2> QED
    BY <2>1, Zenon DEF Free, Fresh, Statement
<1>3. HeapInv /\ CallInv
  BY <1>1, <1>2, Zenon DEF Init, HeapInv, StatementsOwned, CallInv
<1>4. ObjectTypes
  BY Zenon DEF Init, ObjectTypes
<1>5. \A t \in Thread : Running[t] = {} /\ Finalizing[t] = {}
  BY <1>4, Submissions, Zenon DEF Init
<1>6. Existing = {} /\ Owning = {}
  BY Zenon DEF Init, Existing, Owning
<1> QED
  BY <1>3, <1>4, <1>5, <1>6, Zenon DEF Init, ObjectInv, StepsOwnStatement

\* The cache and the registry share no statement, and together own every one:
\* whatever is evicted, finalized or closed is finalized once, and nothing is
\* left when Session.close returns.
THEOREM StatementsHaveOneOwner == Spec => []StatementsOwned
<1>1. HeapInv /\ CallInv /\ ObjectTypes /\ [Next]_vars => HeapInv' /\ CallInv' /\ ObjectTypes'
  BY SessionAssumption, HeapStep, ObjectTypesStep, Zenon
<1>2. HeapInv => StatementsOwned
  BY Zenon DEF HeapInv
<1> QED
  BY SessionInit, <1>1, <1>2, PTL DEF Spec

\* Every execution, of a cached statement or of a user's, steps with the values
\* of its own call and NULL for the others, whatever the calls before it bound
\* and wherever their binding failed, for any number of parameters; also when
\* several threads use one object.
THEOREM NoValueLeaks == Spec => []StepsWithOwnValues
<1>1. HeapInv /\ CallInv /\ ObjectTypes /\ [Next]_vars => HeapInv' /\ CallInv' /\ ObjectTypes'
  BY SessionAssumption, HeapStep, ObjectTypesStep, Zenon
<1>2. CallInv => StepsWithOwnValues
  <2>1. \A params : given(params, Unbound) =
           [i \in Position |-> IF i \in DOMAIN params THEN params[i] ELSE Null]
    BY Zenon DEF given, Unbound
  <2> QED
    BY <2>1, Zenon DEF CallInv, StepsWithOwnValues
<1> QED
  BY SessionInit, <1>1, <1>2, PTL DEF Spec

\* The registry guards against a use after finalize when no object is used by
\* two threads at once: a closure never steps a statement that was prepared at
\* an address used again.
THEOREM NoUseAfterFinalize == ASSUME OwnObjects PROVE Spec => []StepsOwnStatement
<1>1. HeapInv /\ CallInv /\ ObjectTypes /\ ObjectInv /\ [Next]_vars
        => HeapInv' /\ CallInv' /\ ObjectTypes' /\ ObjectInv'
  BY SessionAssumption, HeapStep, ObjectTypesStep, ObjectStep, Zenon
<1>2. ObjectInv => StepsOwnStatement
  BY Zenon DEF ObjectInv
<1> QED
  BY SessionInit, <1>1, <1>2, PTL DEF Spec

-----------------------------------------------------------------------------
(* The retries of Session.run *)

\* The texts are not empty.
Texts == Text \subseteq Seq({"write", "begin", "commit", "rollback"}) \ {<< >>}

\* What holds of a call of text s at statement k in attempt m, with the counts c
\* and the state p: in an attempt that goes on, every statement before k was
\* executed once more than it needs to be for the order of the counts, and in a
\* text that is one transaction the BEGIN is not repeated, as it is still inside.
CallOf(p, s, m, k, c, tx) ==
    LET n == Len(s)
    IN  /\ s \in Seq({"write", "begin", "commit", "rollback"}) /\ n >= 1
        /\ m \in Nat /\ k \in 1 .. n /\ c \in [1 .. n -> Nat]
        /\ c[n] = IF p = "done" THEN 1 ELSE 0
        /\ \A i \in 1 .. n - 1 : c[i] >= c[i + 1]
        /\ c[1] <= m + 1
        /\ p \in {"try", "step"} => (k = 1 => c[1] <= m) /\ (k > 1 => c[k - 1] > c[k])
        /\ R!OneTransaction(s) => c[1] <= 1 /\ (p \in {"try", "step"} /\ c[1] = 1 => tx)
        /\ p = "step" => s[k] = "write"

RetryInv ==
    /\ pc \in [Writer -> {"idle", "try", "step", "done", "busy", "error"}]
    /\ text \in [Writer -> Seq({"write", "begin", "commit", "rollback"})]
    /\ DOMAIN tries = Writer /\ DOMAIN next = Writer /\ DOMAIN ran = Writer
    /\ inTx \in [Writer -> BOOLEAN]
    /\ \A w \in Writer : pc[w] # "idle" =>
          CallOf(pc[w], text[w], tries[w], next[w], ran[w], inTx[w])

\* The execution of statement k: its count is one more, and the text is done or
\* goes on.  A statement inside a text that is one transaction is a write, which
\* leaves the transaction as it is, and the BEGIN was executed outside of one.
LEMMA ExecutedOnce ==
    ASSUME NEW p \in {"try", "step"}, NEW s, NEW m, NEW k, NEW c, NEW tx \in BOOLEAN, NEW tx2 \in BOOLEAN,
           NEW p2, NEW k2, NEW c2,
           CallOf(p, s, m, k, c, tx),
           s[k] = "write" => tx2 = tx,
           s[k] = "begin" => ~tx /\ tx2,
           c2 = [c EXCEPT ![k] = c[k] + 1],
           IF k = Len(s) THEN p2 = "done" /\ k2 = k ELSE p2 = "try" /\ k2 = k + 1
    PROVE  CallOf(p2, s, m, k2, c2, tx2)
<1> DEFINE n == Len(s)
<1>1. /\ n \in Nat /\ n >= 1 /\ m \in Nat /\ k \in 1 .. n /\ c \in [1 .. n -> Nat]
      /\ s \in Seq({"write", "begin", "commit", "rollback"})
  BY DEF CallOf
<1>2. /\ c[n] = 0 /\ (\A i \in 1 .. n - 1 : c[i] >= c[i + 1]) /\ c[1] <= m + 1
      /\ (k = 1 => c[1] <= m) /\ (k > 1 => c[k - 1] > c[k])
  BY DEF CallOf
<1>3. R!OneTransaction(s) => c[1] <= 1 /\ (c[1] = 1 => tx)
  BY DEF CallOf
<1>4. IF k = n THEN p2 = "done" /\ k2 = k ELSE p2 = "try" /\ k2 = k + 1
  OBVIOUS
<1> HIDE DEF n
<1>5. c2 \in [1 .. n -> Nat] /\ c2[k] = c[k] + 1 /\ \A i \in 1 .. n : i # k => c2[i] = c[i]
  BY <1>1
<1>6. k2 \in 1 .. n /\ c2[n] = IF p2 = "done" THEN 1 ELSE 0
  BY <1>1, <1>2, <1>4, <1>5, SMTT(30)
<1>7. ASSUME NEW i \in 1 .. n - 1 PROVE c2[i] >= c2[i + 1]
  <2>1. i \in 1 .. n /\ i + 1 \in 1 .. n /\ c[i] >= c[i + 1] /\ c[i] \in Nat /\ c[i + 1] \in Nat
    BY <1>1, <1>2, SMTT(30)
  <2>2. CASE i = k
    BY <1>5, <2>1, <2>2
  <2>3. CASE i + 1 = k
    <3>1. k > 1 /\ k - 1 = i
      BY <1>1, <2>1, <2>3
    <3> QED
      BY <1>2, <1>5, <2>1, <2>3, <3>1
  <2>4. CASE i # k /\ i + 1 # k
    BY <1>5, <2>1, <2>4
  <2> QED
    BY <2>2, <2>3, <2>4
<1>8. c2[1] <= m + 1
  BY <1>1, <1>2, <1>5, SMTT(30)
<1>9. p2 \in {"try", "step"} => k2 > 1 /\ c2[k2 - 1] > c2[k2]
  <2>1. CASE k # n
    <3>1. k \in 1 .. n - 1 /\ k + 1 \in 1 .. n /\ c[k] >= c[k + 1] /\ c[k] \in Nat /\ c[k + 1] \in Nat
      BY <1>1, <1>2, <2>1
    <3>2. c2[k] > c2[k + 1] /\ k2 = k + 1 /\ k2 - 1 = k /\ k2 > 1
      BY <1>1, <1>4, <1>5, <2>1, <3>1, SMTT(30)
    <3> QED
      BY <3>2
  <2> QED
    BY <1>4, <2>1
<1>10. ASSUME R!OneTransaction(s) PROVE c2[1] <= 1 /\ (p2 \in {"try", "step"} /\ c2[1] = 1 => tx2)
  <2>1. s[1] = "begin" /\ \A i \in 2 .. n - 1 : s[i] = "write"
    BY <1>10 DEF R!OneTransaction, n
  <2>2. CASE k = 1
    <3>1. ~tx /\ tx2
      BY <2>1, <2>2
    <3>2. c[1] = 0
      BY <1>1, <1>3, <1>10, <3>1
    <3> QED
      BY <1>5, <2>2, <3>1, <3>2
  <2>3. CASE k > 1 /\ k # n
    <3>1. s[k] = "write"
      BY <1>1, <2>1, <2>3
    <3> QED
      BY <1>1, <1>3, <1>5, <1>10, <2>3, <3>1, SMTT(30)
  <2>4. CASE k > 1 /\ k = n
    BY <1>1, <1>3, <1>4, <1>5, <1>10, <2>4, SMTT(30)
  <2> QED
    BY <1>1, <2>2, <2>3, <2>4
<1>11. p2 # "step"
  BY <1>4
<1> QED
  BY <1>1, <1>5, <1>6, <1>7, <1>8, <1>9, <1>10, <1>11, SMTT(30) DEF CallOf, n

\* A BUSY or PROTOCOL: the attempts are one more, and it ends or begins again.
LEMMA Retried ==
    ASSUME NEW s, NEW m, NEW k, NEW c, NEW tx \in BOOLEAN, NEW p \in {"busy", "try"},
           CallOf("try", s, m, k, c, tx)
    PROVE  CallOf(p, s, m + 1, 1, c, tx)
<1>1. Len(s) \in Nat
  BY DEF CallOf
<1> QED
  BY <1>1 DEF CallOf

\* Every step of a call, and every call that begins, keeps RetryInv.
LEMMA RetryStep == ASSUME Texts, RetryInv, [R!Next]_R!vars PROVE RetryInv'
<1> DEFINE K == {"write", "begin", "commit", "rollback"}
           C(w) == CallOf(pc[w], text[w], tries[w], next[w], ran[w], inTx[w])
<1>1. CASE UNCHANGED R!vars
  BY <1>1, Zenon DEF R!vars, RetryInv
<1>2. ASSUME NEW w \in Writer, NEW s \in Text, R!run(w, s) PROVE RetryInv'
  <2>1. /\ pc'[w] = "try" /\ text'[w] = s /\ tries'[w] = 0 /\ next'[w] = 1
        /\ ran'[w] = [i \in 1 .. Len(s) |-> 0] /\ inTx' = inTx
        /\ \A v \in Writer \ {w} : /\ pc'[v] = pc[v] /\ text'[v] = text[v] /\ tries'[v] = tries[v]
                                   /\ next'[v] = next[v] /\ ran'[v] = ran[v]
    BY <1>2, Zenon DEF R!run, RetryInv
  <2>2. s \in Seq(K) /\ s # << >>
    BY Zenon DEF Texts
  <2>3. Len(s) \in Nat /\ Len(s) >= 1
    BY <2>2
  <2>4. CallOf("try", s, 0, 1, [i \in 1 .. Len(s) |-> 0], inTx[w])
    BY <2>2, <2>3 DEF CallOf
  <2>5. ASSUME NEW v \in Writer, pc'[v] # "idle" PROVE C(v)'
    <3>1. CASE v = w
      BY <2>1, <2>4, <3>1, Zenon
    <3>2. CASE v # w
      BY <2>1, <2>5, <3>2, Zenon DEF RetryInv
    <3> QED
      BY <3>1, <3>2, Zenon
  <2> QED
    BY <1>2, <2>2, <2>5, Zenon DEF R!run, RetryInv
<1>3. ASSUME NEW w \in Writer, R!executed(w), pc[w] \in {"try", "step"}, text' = text,
             inTx' \in [Writer -> BOOLEAN], \A v \in Writer \ {w} : inTx'[v] = inTx[v],
             text[w][next[w]] = "write" => inTx'[w] = inTx[w],
             text[w][next[w]] = "begin" => ~inTx[w] /\ inTx'[w]
      PROVE  RetryInv'
  <2>1. C(w) /\ inTx[w] \in BOOLEAN /\ inTx'[w] \in BOOLEAN
    BY <1>3, Zenon DEF RetryInv
  <2>2. /\ tries' = tries /\ DOMAIN pc' = Writer /\ DOMAIN next' = Writer /\ DOMAIN ran' = Writer
        /\ ran'[w] = [ran[w] EXCEPT ![next[w]] = ran[w][next[w]] + 1]
        /\ IF next[w] = Len(text[w]) THEN pc'[w] = "done" /\ next'[w] = next[w]
           ELSE pc'[w] = "try" /\ next'[w] = next[w] + 1
        /\ \A v \in Writer \ {w} : pc'[v] = pc[v] /\ next'[v] = next[v] /\ ran'[v] = ran[v]
    BY <1>3, ZenonT(30) DEF R!executed, RetryInv
  <2>3. CallOf(pc'[w], text[w], tries[w], next'[w], ran'[w], inTx'[w])
    BY <1>3, <2>1, <2>2, ExecutedOnce
  <2>4. \A v \in Writer : pc'[v] # "idle" => C(v)'
    BY <1>3, <2>2, <2>3, Zenon DEF RetryInv
  <2>5. pc' \in [Writer -> {"idle", "try", "step", "done", "busy", "error"}]
    BY <1>3, Zenon DEF R!executed, RetryInv
  <2> QED
    BY <1>3, <2>2, <2>4, <2>5, Zenon DEF RetryInv
<1>4. ASSUME NEW w \in Writer, R!sqlite3Step(w) PROVE RetryInv'
  <2>1. C(w) /\ pc[w] = "try" /\ text[w][next[w]] = "write"
    BY <1>4, Zenon DEF RetryInv, R!sqlite3Step, R!kind
  <2>2. CallOf("step", text[w], tries[w], next[w], ran[w], inTx[w])
    BY <2>1 DEF CallOf
  <2> QED
    BY <1>4, <2>2, Zenon DEF R!sqlite3Step, RetryInv
<1>5. ASSUME NEW w \in Writer, R!written(w) PROVE RetryInv'
  <2>1. C(w) /\ pc[w] = "step"
    BY <1>5, Zenon DEF RetryInv, R!written
  <2>2. text[w][next[w]] = "write"
    BY <2>1 DEF CallOf
  <2> QED
    BY <1>3, <1>5, <2>1, <2>2, Zenon DEF R!written, RetryInv
<1>e. ASSUME NEW w \in Writer, pc[w] \in {"try", "step"}, pc' = [pc EXCEPT ![w] = "error"],
             UNCHANGED <<text, tries, next, ran, inTx>>
      PROVE  RetryInv'
  <2>1. C(w)
    BY <1>e, Zenon DEF RetryInv
  <2>2. CallOf("error", text[w], tries[w], next[w], ran[w], inTx[w])
    BY <1>e, <2>1 DEF CallOf
  <2> QED
    BY <1>e, <2>2, Zenon DEF RetryInv
<1>6. ASSUME NEW w \in Writer, R!writeFails(w) PROVE RetryInv'
  BY <1>6, <1>e, Zenon DEF R!writeFails
<1>7. ASSUME NEW w \in Writer, R!control(w) PROVE RetryInv'
  <2>1. CASE (R!kind(w) = "begin") = inTx[w]
    BY <1>7, <1>e, <2>1, Zenon DEF R!control
  <2>2. CASE ~((R!kind(w) = "begin") = inTx[w])
    <3>1. /\ pc[w] = "try" /\ text[w][next[w]] # "write" /\ R!executed(w) /\ text' = text
          /\ inTx' = [inTx EXCEPT ![w] = ~inTx[w]]
      BY <1>7, <2>2, Zenon DEF R!control, R!kind
    <3>2. inTx' \in [Writer -> BOOLEAN] /\ inTx'[w] = ~inTx[w] /\ \A v \in Writer \ {w} : inTx'[v] = inTx[v]
      BY <3>1, Zenon DEF RetryInv
    <3>3. text[w][next[w]] = "begin" => ~inTx[w]
      BY <2>2, Zenon DEF RetryInv, R!kind
    <3> QED
      BY <1>3, <3>1, <3>2, <3>3, Zenon
  <2> QED
    BY <2>1, <2>2, Zenon
<1>8. ASSUME NEW w \in Writer, R!busy(w) PROVE RetryInv'
  <2>1. C(w) /\ pc[w] = "try"
    BY <1>8, Zenon DEF RetryInv, R!busy
  <2>2. PICK p \in {"busy", "try"} :
           /\ pc' = [pc EXCEPT ![w] = p] /\ tries' = [tries EXCEPT ![w] = tries[w] + 1]
           /\ next' = [next EXCEPT ![w] = 1] /\ UNCHANGED <<text, ran, inTx>>
    BY <1>8, Zenon DEF R!busy
  <2>3. CallOf(p, text[w], tries[w] + 1, 1, ran[w], inTx[w])
    <3>1. CallOf("try", text[w], tries[w], next[w], ran[w], inTx[w]) /\ inTx[w] \in BOOLEAN
      BY <2>1, Zenon DEF RetryInv
    <3> QED
      BY <3>1, Retried, Zenon
  <2>4. /\ pc'[w] = p /\ tries'[w] = tries[w] + 1 /\ next'[w] = 1
        /\ \A v \in Writer \ {w} : pc'[v] = pc[v] /\ tries'[v] = tries[v] /\ next'[v] = next[v]
    BY <2>2, Zenon DEF RetryInv
  <2>5. \A v \in Writer : pc'[v] # "idle" => C(v)'
    BY <2>2, <2>3, <2>4, Zenon DEF RetryInv
  <2> QED
    BY <2>2, <2>5, Zenon DEF RetryInv
<1> QED
  BY <1>1, <1>2, <1>4, <1>5, <1>6, <1>7, <1>8, Zenon DEF R!Next, R!goOn

\* "Both are failures before the start of a transaction, so that the retry is
\* safe" (Session.run), for any contention, any limit and any texts: this is so
\* of a text of one statement and of one that is a whole transaction; of any
\* other an attempt repeats a beginning, and never the last statement.
THEOREM RetryIsSafe == ASSUME Texts PROVE R!Spec => []RetryEffects
<1>1. R!Init => RetryInv
  BY EmptySeq DEF R!Init, RetryInv
<1>2. RetryInv /\ [R!Next]_R!vars => RetryInv'
  BY RetryStep, Zenon
<1>3. RetryInv => RetryEffects
  BY Zenon DEF RetryInv, RetryEffects, R!RetryEffects, CallOf
<1> QED
  BY <1>1, <1>2, <1>3, PTL DEF R!Spec
=============================================================================
