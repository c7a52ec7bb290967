------------------------------ MODULE ShmArena ------------------------------
(***************************************************************************)
(* ShmArena.kt: the wal-index bytes of every database file live in one     *)
(* block of the shared linear memory; a region is handed out the first     *)
(* time a writer asks for it and the same pointer is returned from then    *)
(* on.  Each operation runs under the arena's lock and is one step.        *)
(*                                                                         *)
(* A file name is a sequence of characters, because the registry is keyed  *)
(* by the string "name#region" and dropFile selects keys by their prefix.  *)
(***************************************************************************)
EXTENDS Naturals, Sequences

CONSTANTS base,         \* address of the arena (never 0: malloc succeeded)
          ARENA_BYTES,  \* its size
          WALINDEX_PGSZ \* bytes of one region, the szRegion sqlite3.c asks for

ASSUME ArenaAssumption ==
    base \in Nat \ {0} /\ ARENA_BYTES \in Nat /\ WALINDEX_PGSZ \in Nat \ {0}

VARIABLES cursor,       \* bytes handed out so far
          regions       \* the registry: key -> pointer

arenaVars == <<cursor, regions>>

ArenaInit == cursor = 0 /\ regions = [k \in {} |-> 0]

key(name, iRegion) == name \o <<"#", iRegion>>
startsWith(s, p) == Len(p) <= Len(s) /\ SubSeq(s, 1, Len(p)) = p

align16(n) == ((n + 15) \div 16) * 16

\* Each call hands out fresh bytes, registered or not.
mapAlwaysFresh(name, iRegion, bExtend, ptr) ==
    LET k == key(name, iRegion)
    IN  /\ bExtend
        /\ ptr = base + cursor
        /\ cursor' = cursor + align16(WALINDEX_PGSZ)
        /\ regions' = [x \in DOMAIN regions \cup {k} |-> IF x = k THEN ptr ELSE regions[x]]

\* Pointer 0 is the answer "no such region yet".
map(name, iRegion, bExtend, ptr) ==
    LET k == key(name, iRegion)
    IN  \/ /\ k \in DOMAIN regions /\ ptr = regions[k]
           /\ UNCHANGED arenaVars
        \/ /\ k \notin DOMAIN regions /\ ~bExtend /\ ptr = 0
           /\ UNCHANGED arenaVars
        \/ /\ k \notin DOMAIN regions /\ bExtend /\ ptr = base + cursor
           /\ cursor' = cursor + align16(WALINDEX_PGSZ)
           /\ regions' = [x \in DOMAIN regions \cup {k} |-> IF x = k THEN ptr ELSE regions[x]]

\* The space of a forgotten region is not reused.
dropFile(name) ==
    /\ regions' = [k \in {x \in DOMAIN regions : ~startsWith(x, name \o <<"#">>)} |-> regions[k]]
    /\ UNCHANGED cursor
=============================================================================
