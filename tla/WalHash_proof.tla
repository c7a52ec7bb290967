--------------------------- MODULE WalHash_proof ---------------------------
(***************************************************************************)
(* The frame index of the write-ahead log, for tables of any size, any set *)
(* of pages and a log of any length: every frame is found by probing, and  *)
(* a search beside the writer returns the newest frame of its snapshot.    *)
(***************************************************************************)
EXTENDS WalHash, FiniteSetTheorems, WellFoundedInduction, TLAPS

\* The entry of a frame in its table, and the slots a page is looked for in.
Loc(f) == f - iZero(walFramePage(f))
Key(p, n) == (walHash(p) + n) % HASHTABLE_NSLOT

\* The frames that have been entered in the tables.
Last == IF w.pc = "idle" THEN mxFrame ELSE w.end

\* Slot n of the chain of page p holds entry v, and the slots before it older ones.
Chained(i, p, n, v) ==
    /\ aHash[i][Key(p, n)] = v
    /\ \A m \in 0..(n - 1) : aHash[i][Key(p, m)] \in 1..(v - 1)

\* A frame is entered in aPgno[] and is reached over older frames of its table:
\* clearing the newer ones does not cut the chain.
Indexed(f) ==
    /\ aPgno[walFramePage(f)][Loc(f) - 1] = frames[f]
    /\ \E n \in Slots : Chained(walFramePage(f), frames[f], n, Loc(f))

\* From entry j on aPgno[] is zero.
ZerosFrom(i, j) == \A k \in 0..(NEntry(i) - 1) : k >= j => aPgno[i][k] = 0

HashTypes ==
    /\ HashTypeOK /\ Len(frames) <= MaxFrame
    /\ aPgno = [i \in Tables |-> aPgno[i]] /\ aHash = [i \in Tables |-> aHash[i]]

\* A table: no entry is in two slots, a slot holds only entries of aPgno[], and
\* the entries of aPgno[] have no gaps. What a writer that is gone has left lies
\* past the frames in use, and is seen at the first of its entries.
Row(h, g, n) ==
    /\ \A k, l \in Slots : h[k] = h[l] /\ h[k] # 0 => k = l
    /\ \A k \in Slots : h[k] # 0 => g[h[k] - 1] # 0
    /\ \A j, l \in 0..(n - 1) : g[j] = 0 /\ j <= l => g[l] = 0

TablesInv == \A i \in Tables : Row(aHash[i], aPgno[i], NEntry(i))

IndexedInv == \A f \in 1..Last : Indexed(f)

WriterTypes ==
    /\ w \in [pc : {"idle", "ready", "insert", "store", "cleanup"}, mx : Nat, end : Nat,
              slot : Slots, then : {"idle", "ready", "insert"}]
    /\ w.pc = "idle" => w = Writer0 /\ Len(frames) = mxFrame
    /\ w.pc # "idle" => mxFrame <= w.mx /\ w.mx <= w.end
    /\ w.pc = "ready" => Len(frames) = w.end
    /\ w.pc \in {"insert", "store"} => Len(frames) = w.end + 1

\* The table of the next frame has nothing past the frames entered, once the
\* writer has entered one or has looked at what is there.
AppendInv ==
    /\ w.pc = "ready" /\ w.end > w.mx => ZerosFrom(walFramePage(w.end), Loc(w.end))
    /\ w.pc = "insert" => ZerosFrom(walFramePage(w.end + 1), Loc(w.end + 1) - 1)
    /\ w.pc = "store" =>
        LET i == walFramePage(w.end + 1)
            idx == Loc(w.end + 1)
            p == frames[w.end + 1]
        IN  /\ ZerosFrom(i, idx) /\ aPgno[i][idx - 1] = p
            /\ \A k \in Slots : aHash[i][k] < idx
            /\ aHash[i][w.slot] = 0
            /\ \E n \in Slots : /\ w.slot = Key(p, n)
                                /\ \A m \in 0..(n - 1) : aHash[i][Key(p, m)] # 0

CleanupInv ==
    w.pc = "cleanup" =>
        /\ w.mx > 0 /\ w.end = w.mx
        /\ Len(frames) = (IF w.then = "insert" THEN w.end + 1 ELSE w.end)
        /\ w.then = "insert" => walFramePage(w.end + 1) = walFramePage(w.mx)
        /\ w.then = "idle" => w.mx = mxFrame

\* The frames the reader looks for, and the slots of the table it has passed.
Sought(f) == f \in r.minFrame..r.iLast /\ frames[f] = r.pgno
Passed == HASHTABLE_NSLOT - r.nCollide

ReaderTypes ==
    /\ r \in [pc : {"load", "match", "found", "SQLITE_CORRUPT"}, iLast : 1..mxFrame,
              minFrame : Nat \ {0}, pgno : Page, iHash : Tables, iKey : Slots,
              nCollide : 0..HASHTABLE_NSLOT, iH : Nat, iRead : Nat, undone : BOOLEAN]
    /\ r.minFrame <= r.iLast
    /\ walFramePage(r.minFrame) <= r.iHash /\ r.iHash <= walFramePage(r.iLast)
    /\ r.iKey = Key(r.pgno, Passed)

\* A search has seen every later table to its end, and of its table the slots it
\* has passed; iRead is the newest frame seen. Unless the writer has cleared a
\* slot since, the slots it has passed are in use.
SearchInv ==
    /\ \A f \in 1..mxFrame : Sought(f) => walFramePage(f) <= r.iHash
    /\ r.iRead # 0 => Sought(r.iRead) /\ walFramePage(r.iRead) = r.iHash
    /\ \A f \in 1..mxFrame, n \in 0..(Passed - 1) :
          Sought(f) /\ walFramePage(f) = r.iHash /\ aHash[r.iHash][Key(r.pgno, n)] = Loc(f)
          => f <= r.iRead
    /\ ~r.undone => \A n \in 0..(Passed - 1) : aHash[r.iHash][Key(r.pgno, n)] # 0

\* Of the entry at hand the snapshot's part is as it was loaded.
MatchInv ==
    /\ r.iH \in 1..NEntry(r.iHash)
    /\ \A v \in Nat \ {0} : v <= r.iLast - iZero(r.iHash)
          => (aHash[r.iHash][r.iKey] = v <=> r.iH = v)
    /\ ~r.undone => aHash[r.iHash][r.iKey] # 0

ReaderInv ==
    r.pc # "idle" =>
        /\ ReaderTypes
        /\ r.pc \in {"load", "match"} => SearchInv
        /\ r.pc = "match" => MatchInv
        /\ FindsSnapshotFrame

HashInv ==
    /\ HashTypes /\ TablesInv /\ IndexedInv
    /\ WriterTypes /\ AppendInv /\ CleanupInv
    /\ r.pc = "idle" => r = Reader0
    /\ ReaderInv

-----------------------------------------------------------------------------
(* The arithmetic of the tables and of the slots. *)

\* The sizes of the tables.
LEMMA Sizes ==
    /\ HASHTABLE_NPAGE \in Nat /\ HASHTABLE_NPAGE > 0
    /\ HASHTABLE_NPAGE_ONE \in Nat /\ HASHTABLE_NPAGE_ONE > 0 /\ HASHTABLE_NPAGE_ONE <= HASHTABLE_NPAGE
    /\ HASHTABLE_NSLOT \in Nat /\ HASHTABLE_NSLOT = 2 * HASHTABLE_NPAGE
    /\ \A p \in Page : p \in Nat /\ p # 0
    /\ MaxFrame \in Nat
BY HashAssumption DEF HASHTABLE_NSLOT

\* Each table begins where the one before it ends.
LEMMA TableBounds ==
    ASSUME NEW i \in Nat
    PROVE  /\ iZero(i) \in Nat /\ NEntry(i) \in 1..HASHTABLE_NPAGE
           /\ iZero(i + 1) = iZero(i) + NEntry(i)
<1>1. i * HASHTABLE_NPAGE \in Nat
  BY Sizes
<1>2. CASE i = 0
  BY <1>2, Sizes DEF iZero, NEntry
<1>3. CASE i # 0
  <2>1. (i - 1) * HASHTABLE_NPAGE = i * HASHTABLE_NPAGE - HASHTABLE_NPAGE
    BY <1>3, Sizes
  <2>2. (i - 1) * HASHTABLE_NPAGE \in Nat
    BY <1>3, Sizes
  <2>3. iZero(i) = HASHTABLE_NPAGE_ONE + (i - 1) * HASHTABLE_NPAGE /\ NEntry(i) = HASHTABLE_NPAGE
    BY <1>3 DEF iZero, NEntry
  <2>4. iZero(i + 1) = HASHTABLE_NPAGE_ONE + i * HASHTABLE_NPAGE
    BY <1>3 DEF iZero
  <2> QED
    BY <1>1, <2>1, <2>2, <2>3, <2>4, Sizes
<1> QED
  BY <1>2, <1>3

\* A later table begins past the end of an earlier one.
LEMMA TableOrder ==
    ASSUME NEW i \in Nat, NEW j \in Nat, i < j
    PROVE  iZero(i) + NEntry(i) <= iZero(j)
<1> DEFINE d == j - 1 - i
<1>1. d \in Nat /\ j - 1 = i + d
  OBVIOUS
<1>2. (j - 1) * HASHTABLE_NPAGE = i * HASHTABLE_NPAGE + d * HASHTABLE_NPAGE
  BY <1>1, Sizes
<1>3. d * HASHTABLE_NPAGE >= 0 /\ d * HASHTABLE_NPAGE \in Int /\ i * HASHTABLE_NPAGE \in Int
  BY <1>1, Sizes
<1>4. iZero(j) = HASHTABLE_NPAGE_ONE + (j - 1) * HASHTABLE_NPAGE
  BY DEF iZero
<1>5. iZero(i + 1) = HASHTABLE_NPAGE_ONE + i * HASHTABLE_NPAGE
  BY DEF iZero
<1>6. iZero(i + 1) = iZero(i) + NEntry(i)
  BY TableBounds, Zenon
<1> QED
  BY <1>2, <1>3, <1>4, <1>5, <1>6, Sizes

\* walFramePage gives the table that holds a frame.
LEMMA TableOfFrame ==
    ASSUME NEW f \in Nat, f > 0
    PROVE  /\ walFramePage(f) \in Nat
           /\ iZero(walFramePage(f)) < f
           /\ f <= iZero(walFramePage(f)) + NEntry(walFramePage(f))
<1> DEFINE a == f + HASHTABLE_NPAGE - HASHTABLE_NPAGE_ONE - 1
           i == a \div HASHTABLE_NPAGE
<1>1. a \in Nat
  BY Sizes
<1>2. i \in Int /\ i * HASHTABLE_NPAGE <= a /\ a < i * HASHTABLE_NPAGE + HASHTABLE_NPAGE
  BY <1>1, Sizes
<1>3. i \in Nat
  BY <1>1, <1>2, Sizes
<1>4. walFramePage(f) = i
  BY DEF walFramePage
<1> HIDE DEF i
<1>5. CASE i = 0
  <2>1. i * HASHTABLE_NPAGE = 0
    BY <1>5, Sizes
  <2> QED
    BY <1>2, <1>4, <1>5, <2>1, Sizes DEF iZero, NEntry
<1>6. CASE i # 0
  <2>1. (i - 1) * HASHTABLE_NPAGE = i * HASHTABLE_NPAGE - HASHTABLE_NPAGE
    BY <1>3, <1>6, Sizes
  <2>2. i * HASHTABLE_NPAGE \in Int
    BY <1>3, Sizes
  <2>3. iZero(i) = HASHTABLE_NPAGE_ONE + (i - 1) * HASHTABLE_NPAGE /\ NEntry(i) = HASHTABLE_NPAGE
    BY <1>6 DEF iZero, NEntry
  <2> QED
    BY <1>2, <1>3, <1>4, <2>1, <2>2, <2>3, Sizes
<1> QED
  BY <1>5, <1>6

\* No other table holds it.
LEMMA TableUnique ==
    ASSUME NEW f \in Nat, NEW i \in Nat, iZero(i) < f, f <= iZero(i) + NEntry(i)
    PROVE  walFramePage(f) = i
<1>0. f > 0 /\ iZero(i) \in Nat /\ NEntry(i) \in Nat
  BY TableBounds
<1> DEFINE j == walFramePage(f)
<1>1. j \in Nat /\ iZero(j) < f /\ f <= iZero(j) + NEntry(j)
  BY <1>0, TableOfFrame
<1>2. iZero(j) \in Nat /\ NEntry(j) \in Nat
  BY <1>1, TableBounds
<1> HIDE DEF j
<1>3. ~(i < j)
  BY <1>0, <1>1, <1>2, TableOrder
<1>4. ~(j < i)
  BY <1>0, <1>1, <1>2, TableOrder
<1>5. j = i
  BY <1>1, <1>3, <1>4
<1> QED
  BY <1>5 DEF j

\* Later frames are not in earlier tables.
LEMMA TableMonotone ==
    ASSUME NEW f \in Nat, NEW g \in Nat, f > 0, f <= g
    PROVE  walFramePage(f) <= walFramePage(g)
<1> DEFINE i == walFramePage(f)
           j == walFramePage(g)
<1>1. i \in Nat /\ j \in Nat /\ iZero(i) < f /\ g <= iZero(j) + NEntry(j)
  BY TableOfFrame
<1>2. iZero(i) \in Nat /\ NEntry(j) \in Nat /\ iZero(j) \in Nat
  BY <1>1, TableBounds
<1> HIDE DEF i, j
<1>3. ~(j < i)
  BY <1>1, <1>2, TableOrder
<1>4. i <= j
  BY <1>1, <1>3
<1> QED
  BY <1>4 DEF i, j

\* The entry of a frame is one of its table's, and the frames of one table are
\* entered in their order.
LEMMA LocBounds ==
    ASSUME NEW f \in Nat, f > 0
    PROVE  /\ walFramePage(f) \in Nat /\ Loc(f) \in 1..NEntry(walFramePage(f))
           /\ NEntry(walFramePage(f)) \in 1..HASHTABLE_NPAGE
           /\ iZero(walFramePage(f)) \in Nat /\ f = Loc(f) + iZero(walFramePage(f))
           /\ f <= MaxFrame => walFramePage(f) \in Tables
<1>1. walFramePage(f) \in Nat /\ iZero(walFramePage(f)) < f
      /\ f <= iZero(walFramePage(f)) + NEntry(walFramePage(f))
  BY TableOfFrame
<1>2. iZero(walFramePage(f)) \in Nat /\ NEntry(walFramePage(f)) \in 1..HASHTABLE_NPAGE
  BY <1>1, TableBounds
<1>3. f <= MaxFrame => walFramePage(f) \in Tables
  <2> HAVE f <= MaxFrame
  <2>1. walFramePage(f) <= walFramePage(MaxFrame) /\ MaxFrame > 0 /\ MaxFrame \in Nat
    BY Sizes, TableMonotone
  <2>2. walFramePage(MaxFrame) \in Nat
    BY <2>1, TableOfFrame
  <2> QED
    BY <1>1, <2>1, <2>2 DEF Tables
<1> QED
  BY <1>1, <1>2, <1>3, Sizes DEF Loc

\* A frame past the first of its table follows a frame of the same table.
LEMMA NextEntry ==
    ASSUME NEW f \in Nat, Loc(f + 1) # 1
    PROVE  f > 0 /\ walFramePage(f + 1) = walFramePage(f) /\ Loc(f + 1) = Loc(f) + 1
<1> DEFINE i == walFramePage(f + 1)
<1>1. i \in Nat /\ Loc(f + 1) \in 1..NEntry(i) /\ iZero(i) \in Nat /\ f + 1 = Loc(f + 1) + iZero(i)
      /\ NEntry(i) \in Nat
  BY LocBounds, Sizes
<1>2. iZero(i) < f /\ f <= iZero(i) + NEntry(i) /\ f > 0
  BY <1>1
<1>3. walFramePage(f) = i
  BY <1>1, <1>2, TableUnique
<1> QED
  BY <1>1, <1>2, <1>3 DEF Loc

\* The first frame of a table is in a later one than the frames before it.
LEMMA FirstEntry ==
    ASSUME NEW f \in Nat, NEW g \in Nat, g > 0, g <= f, Loc(f + 1) = 1
    PROVE  walFramePage(g) < walFramePage(f + 1)
<1> DEFINE i == walFramePage(f + 1)
<1>1. i \in Nat /\ f = iZero(i)
  <2>1. f + 1 \in Nat /\ f + 1 > 0
    OBVIOUS
  <2>2. i \in Nat /\ iZero(i) \in Nat /\ f + 1 = Loc(f + 1) + iZero(i)
    BY <2>1, LocBounds, Zenon
  <2> HIDE DEF i
  <2> QED
    BY <2>2
<1>2. walFramePage(g) <= i /\ walFramePage(g) \in Nat /\ iZero(walFramePage(g)) < g
  BY TableMonotone, TableOfFrame
<1> QED
  BY <1>1, <1>2

\* Frames of one table are apart in it as they are in the log.
LEMMA LocOrder ==
    ASSUME NEW f \in Nat, NEW g \in Nat, f > 0, g > 0, walFramePage(f) = walFramePage(g)
    PROVE  /\ Loc(f) = Loc(g) => f = g
           /\ Loc(f) < Loc(g) => f < g
           /\ f < g => Loc(f) < Loc(g)
BY LocBounds, Sizes

\* What % does with a sum of two slots.
LEMMA Wrap ==
    ASSUME NEW N \in Nat, N > 0, NEW x \in 0..(2 * N)
    PROVE  x % N = IF x < N THEN x ELSE IF x < 2 * N THEN x - N ELSE 0
<1> DEFINE q == x \div N
           y == x % N
<1>1. y \in 0..(N - 1) /\ q \in Int /\ x = q * N + y
  OBVIOUS
<1> HIDE DEF q, y
<1>2. CASE q < 0
  <2>1. q * N <= -N
    <3>1. (-1 - q) * N >= 0 /\ (-1 - q) * N = -N - q * N
      BY <1>1, <1>2
    <3> QED
      BY <1>1, <3>1
  <2> QED
    BY <1>1, <2>1
<1>3. CASE q > 2
  <2>1. q * N >= 3 * N
    <3>1. (q - 3) * N >= 0 /\ (q - 3) * N = q * N - 3 * N
      BY <1>1, <1>3
    <3> QED
      BY <1>1, <3>1
  <2> QED
    BY <1>1, <2>1
<1>4. CASE q \in {0, 1, 2}
  <2>1. x = y \/ x = N + y \/ x = 2 * N + y
    BY <1>1, <1>4
  <2>2. y = IF x < N THEN x ELSE IF x < 2 * N THEN x - N ELSE 0
    BY <1>1, <2>1
  <2> QED
    BY <2>2 DEF y
<1> QED
  BY <1>1, <1>2, <1>3, <1>4

\* The probes of a page are slots, each one the next after the one before it, and
\* the first HASHTABLE_NSLOT of them differ.
LEMMA Probes ==
    ASSUME NEW p \in Page
    PROVE  /\ walHash(p) \in Slots /\ Key(p, 0) = walHash(p)
           /\ \A n \in 0..HASHTABLE_NSLOT : Key(p, n) \in Slots
           /\ \A n \in 0..(HASHTABLE_NSLOT - 1) : walNextHash(Key(p, n)) = Key(p, n + 1)
           /\ \A m, n \in Slots : Key(p, m) = Key(p, n) => m = n
<1> DEFINE N == HASHTABLE_NSLOT
           h == walHash(p)
<1>1. N \in Nat /\ N > 1
  BY Sizes
<1>2. h \in 0..(N - 1)
  <2>1. p * HASHTABLE_HASH_1 \in Nat
    BY Sizes DEF HASHTABLE_HASH_1
  <2> QED
    BY <1>1, <2>1 DEF walHash
<1>3. Slots = 0..(N - 1)
  BY DEF Slots
<1>4. \A n \in 0..N : Key(p, n) = (h + n) % N
  BY DEF Key
<1>5. \A x \in Nat : walNextHash(x) = (x + 1) % N
  BY DEF walNextHash
<1> HIDE DEF h, N
<1>6. \A x \in 0..(2 * N) : x % N = IF x < N THEN x ELSE IF x < 2 * N THEN x - N ELSE 0
  BY <1>1, Wrap
<1>7. \A n \in 0..N : Key(p, n) = IF h + n < N THEN h + n ELSE h + n - N
  <2> TAKE n \in 0..N
  <2>1. h + n \in 0..(2 * N) /\ h + n < 2 * N
    BY <1>1, <1>2
  <2>2. (h + n) % N = IF h + n < N THEN h + n ELSE h + n - N
    <3> DEFINE x == h + n
    <3>1. x \in 0..(2 * N) /\ x < 2 * N
      BY <2>1
    <3> HIDE DEF x
    <3>2. x % N = IF x < N THEN x ELSE x - N
      BY <1>6, <3>1
    <3> QED
      BY <1>1, <1>2, <3>2 DEF x
  <2> QED
    BY <1>1, <1>2, <1>4, <2>2
<1>8. \A n \in 0..N : Key(p, n) \in 0..(N - 1)
  BY <1>1, <1>2, <1>7
<1>9. \A n \in 0..(N - 1) : walNextHash(Key(p, n)) = Key(p, n + 1)
  <2> TAKE n \in 0..(N - 1)
  <2>1. walNextHash(Key(p, n)) = (Key(p, n) + 1) % N
    BY <1>1, <1>5, <1>8
  <2>2. Key(p, n) + 1 \in 0..(2 * N)
    BY <1>1, <1>8
  <2> QED
    BY <1>1, <1>2, <1>6, <1>7, <2>1, <2>2
<1>10. \A m, n \in 0..(N - 1) : Key(p, m) = Key(p, n) => m = n
  BY <1>1, <1>2, <1>7
<1>11. Key(p, 0) = h
  BY <1>1, <1>2, <1>7
<1> QED
  BY <1>2, <1>3, <1>8, <1>9, <1>10, <1>11 DEF N, h

\* An entry's place in aPgno[] is within HASHTABLE_NPAGE.
LEMMA EntryMask ==
    ASSUME NEW j \in 0..(HASHTABLE_NPAGE - 1)
    PROVE  j % HASHTABLE_NPAGE = j
BY Sizes, Wrap

-----------------------------------------------------------------------------
(* Tables. *)

\* A set of naturals has a least element.
LEMMA LeastElement ==
    ASSUME NEW S \in SUBSET Nat, S # {}
    PROVE  \E x \in S : \A y \in S : x <= y
<1>1. PICK x \in S : \A y \in S : ~(<<y, x>> \in OpToRel(<, Nat))
  BY NatLessThanWellFounded, WFMin, Zenon
<1>2. \A y \in S : ~(y < x)
  BY <1>1, Zenon DEF OpToRel
<1> QED
  BY <1>2

\* The probes of a page meet an empty slot before they have passed more slots
\* than there are entries.
LEMMA FreeSlot ==
    ASSUME NEW h \in [Slots -> Nat], NEW p \in Page, NEW v \in Nat, v < HASHTABLE_NSLOT,
           \A k, l \in Slots : h[k] = h[l] /\ h[k] # 0 => k = l,
           \A n \in 0..v : h[Key(p, n)] <= v
    PROVE  \E n \in 0..v : h[Key(p, n)] = 0
<1> SUFFICES ASSUME \A n \in 0..v : h[Key(p, n)] # 0
             PROVE  FALSE
  OBVIOUS
<1> DEFINE f == [n \in 0..v |-> h[Key(p, n)]]
<1>1. \A n \in 0..v : Key(p, n) \in Slots /\ n \in Slots
  <2>1. \A n \in 0..v : n \in 0..HASHTABLE_NSLOT /\ n \in Slots
    BY Sizes DEF Slots
  <2> QED
    BY <2>1, Probes, Zenon
<1>2. f \in [0..v -> 1..v]
  BY <1>1
<1>3. IsFiniteSet(0..v) /\ Cardinality(0..v) = v + 1
  BY FS_Interval
<1>4. IsFiniteSet(1..v) /\ Cardinality(1..v) = v
  BY FS_Interval
<1>5. Cardinality(1..v) < Cardinality(0..v)
  BY <1>3, <1>4
<1> HIDE DEF f
<1>6. PICK x, y \in 0..v : x # y /\ f[x] = f[y]
  <2> DEFINE S == 0..v
             T == 1..v
  <2>1. f \in [S -> T] /\ IsFiniteSet(S) /\ IsFiniteSet(T) /\ Cardinality(T) < Cardinality(S)
    BY <1>2, <1>3, <1>4, <1>5, SMTT(30)
  <2> HIDE DEF S, T
  <2>2. \E x, y \in S : x # y /\ f[x] = f[y]
    BY <2>1, FS_PigeonHole
  <2> QED
    BY <2>2 DEF S
<1>7. h[Key(p, x)] = h[Key(p, y)]
  BY <1>6 DEF f
<1>8. Key(p, x) = Key(p, y)
  BY <1>1, <1>7
<1> QED
  BY <1>1, <1>6, <1>8, Probes

\* A cleared table is a table.
LEMMA RowEmpty == ASSUME NEW i \in Nat PROVE Row(NoSlots, NoPages(i), NEntry(i))
BY DEF Row, NoSlots, NoPages

\* The next entry of aPgno[] leaves no gap.
LEMMA RowPage ==
    ASSUME NEW n \in Nat, NEW h \in [Slots -> 0..n], NEW g \in [0..(n - 1) -> Nat],
           NEW j \in 0..(n - 1), NEW p \in Nat \ {0}, Row(h, g, n),
           \A k \in 0..(n - 1) : k < j => g[k] # 0
    PROVE  Row(h, [g EXCEPT ![j] = p], n)
<1> DEFINE e == [g EXCEPT ![j] = p]
<1>1. \A k \in 0..(n - 1) : e[k] = IF k = j THEN p ELSE g[k]
  OBVIOUS
<1> HIDE DEF e
<1>2. \A k \in Slots : h[k] # 0 => e[h[k] - 1] # 0
  <2> TAKE k \in Slots
  <2> HAVE h[k] # 0
  <2>1. h[k] - 1 \in 0..(n - 1) /\ g[h[k] - 1] # 0
    BY DEF Row
  <2> QED
    BY <1>1, <2>1
<1>3. \A l, m \in 0..(n - 1) : e[l] = 0 /\ l <= m => e[m] = 0
  BY <1>1 DEF Row
<1>4. Row(h, e, n)
  BY <1>2, <1>3 DEF Row
<1> QED
  BY <1>4 DEF e

\* An entry newer than all others in an empty slot.
LEMMA RowStore ==
    ASSUME NEW n \in Nat, NEW h \in [Slots -> 0..n], NEW g, NEW s \in Slots, NEW v \in 1..n,
           Row(h, g, n), \A k \in Slots : h[k] < v, g[v - 1] # 0
    PROVE  Row([h EXCEPT ![s] = v], g, n)
<1> DEFINE e == [h EXCEPT ![s] = v]
<1>1. \A k \in Slots : e[k] = IF k = s THEN v ELSE h[k]
  OBVIOUS
<1> HIDE DEF e
<1>2. Row(h, g, n) /\ \A k \in Slots : h[k] \in Nat /\ h[k] # v
  OBVIOUS
<1>3. Row(e, g, n)
  BY <1>1, <1>2 DEF Row
<1> QED
  BY <1>3 DEF e

\* A slot is cleared.
LEMMA RowClear ==
    ASSUME NEW n, NEW h, DOMAIN h = Slots, h = [k \in Slots |-> h[k]], NEW g, NEW s \in Slots, Row(h, g, n)
    PROVE  Row([h EXCEPT ![s] = 0], g, n)
<1> DEFINE e == [h EXCEPT ![s] = 0]
<1>1. \A k \in Slots : e[k] = IF k = s THEN 0 ELSE h[k]
  OBVIOUS
<1> HIDE DEF e
<1>3. Row(e, g, n)
  BY <1>1 DEF Row
<1> QED
  BY <1>3 DEF e

\* The end of aPgno[] is cleared when no slot holds an entry there.
LEMMA RowCut ==
    ASSUME NEW n \in Nat, NEW h \in [Slots -> 0..n], NEW g \in [0..(n - 1) -> Nat], NEW m \in Nat,
           Row(h, g, n), \A k \in Slots : h[k] <= m
    PROVE  Row(h, [j \in DOMAIN g |-> IF j >= m THEN 0 ELSE g[j]], n)
<1> DEFINE e == [j \in DOMAIN g |-> IF j >= m THEN 0 ELSE g[j]]
<1>1. \A j \in 0..(n - 1) : e[j] = IF j >= m THEN 0 ELSE g[j]
  OBVIOUS
<1> HIDE DEF e
<1>2. \A k \in Slots : h[k] # 0 => e[h[k] - 1] # 0
  <2> TAKE k \in Slots
  <2> HAVE h[k] # 0
  <2>1. h[k] - 1 \in 0..(n - 1) /\ g[h[k] - 1] # 0 /\ ~(h[k] - 1 >= m)
    BY DEF Row
  <2> QED
    BY <1>1, <2>1
<1>3. \A l, q \in 0..(n - 1) : e[l] = 0 /\ l <= q => e[q] = 0
  BY <1>1 DEF Row
<1>4. Row(h, e, n)
  BY <1>2, <1>3 DEF Row
<1> QED
  BY <1>4 DEF e

-----------------------------------------------------------------------------
(* What a step keeps. *)

\* Of the frames up to last, the entries in the slots and in aPgno[] stay.
SlotsKept(last) ==
    \A i \in Tables, k \in Slots, v \in Nat \ {0} :
        v + iZero(i) <= last => (aHash[i][k] = v <=> aHash'[i][k] = v)
PagesKept(last) ==
    \A i \in Tables : \A j \in 0..(NEntry(i) - 1) :
        j + 1 + iZero(i) <= last => aPgno'[i][j] = aPgno[i][j]
FramesKept(last) == \A f \in 1..last : frames'[f] = frames[f]

\* The types of a table.
LEMMA TableTypes ==
    ASSUME HashTypes, NEW i \in Tables
    PROVE  /\ i \in Nat /\ NEntry(i) \in 1..HASHTABLE_NPAGE /\ NEntry(i) \in Nat /\ iZero(i) \in Nat
           /\ aPgno[i] \in [0..(NEntry(i) - 1) -> Nat]
           /\ aPgno[i] \in [0..(NEntry(i) - 1) -> Page \cup {0}]
           /\ aHash[i] \in [Slots -> 0..NEntry(i)] /\ aHash[i] \in [Slots -> Nat]
<1>1. i \in Nat
  BY DEF Tables
<1>2. NEntry(i) \in 1..HASHTABLE_NPAGE /\ iZero(i) \in Nat
  BY <1>1, TableBounds
<1>3. NEntry(i) \in Nat
  BY <1>2, Sizes
<1>4. aPgno[i] \in [0..(NEntry(i) - 1) -> Page \cup {0}] /\ aHash[i] \in [Slots -> 0..NEntry(i)]
  BY DEF HashTypes, HashTypeOK
<1>5. Page \cup {0} \subseteq Nat
  BY Sizes
<1>6. aPgno[i] \in [0..(NEntry(i) - 1) -> Nat]
  BY <1>4, <1>5
<1>7. aHash[i] \in [Slots -> Nat]
  BY <1>3, <1>4
<1> QED
  BY <1>1, <1>2, <1>3, <1>4, <1>6, <1>7

\* The frames that have been entered are frames of the log.
LEMMA LastBounds ==
    HashTypes /\ WriterTypes /\ CleanupInv =>
        /\ Last \in Nat /\ mxFrame \in Nat /\ mxFrame <= Last /\ Last <= Len(frames)
        /\ Len(frames) \in Nat /\ Len(frames) <= MaxFrame
        /\ \A f \in 1..Len(frames) : frames[f] \in Page
<1> SUFFICES ASSUME HashTypes, WriterTypes, CleanupInv
             PROVE  /\ Last \in Nat /\ mxFrame \in Nat /\ mxFrame <= Last /\ Last <= Len(frames)
                    /\ Len(frames) \in Nat /\ Len(frames) <= MaxFrame
                    /\ \A f \in 1..Len(frames) : frames[f] \in Page
  OBVIOUS
<1>1. frames \in Seq(Page) /\ mxFrame \in 0..Len(frames) /\ Len(frames) <= MaxFrame
  BY DEF HashTypes, HashTypeOK
<1>2. Len(frames) \in Nat /\ \A f \in 1..Len(frames) : frames[f] \in Page
  BY <1>1
<1>3. w.pc \in {"idle", "ready", "insert", "store", "cleanup"} /\ w.mx \in Nat /\ w.end \in Nat
  BY DEF WriterTypes
<1>4. w.pc = "idle" => Last = mxFrame
  BY DEF Last
<1>5. w.pc # "idle" => Last = w.end /\ mxFrame <= w.end /\ w.end <= Len(frames)
  BY <1>1, <1>2, <1>3 DEF Last, WriterTypes, CleanupInv
<1> QED
  BY <1>1, <1>2, <1>3, <1>4, <1>5

\* A frame stays indexed when its entry and the older ones stay.
LEMMA IndexedKept ==
    ASSUME HashTypes, NEW f \in 1..MaxFrame, Indexed(f), frames[f] \in Page,
           SlotsKept(f), PagesKept(f), frames'[f] = frames[f]
    PROVE  Indexed(f)'
<1> DEFINE i == walFramePage(f)
<1>1. f \in Nat /\ f > 0 /\ f <= MaxFrame
  BY Sizes
<1>2. i \in Tables /\ Loc(f) \in 1..NEntry(i) /\ f = Loc(f) + iZero(i) /\ iZero(i) \in Nat
      /\ NEntry(i) \in Nat
  BY <1>1, LocBounds, Sizes
<1>3. aPgno'[i][Loc(f) - 1] = aPgno[i][Loc(f) - 1]
  BY <1>2 DEF PagesKept
<1>4. PICK n \in Slots : Chained(i, frames[f], n, Loc(f))
  BY DEF Indexed
<1>5. \A m \in 0..n : Key(frames[f], m) \in Slots
  <2>1. n \in 0..(HASHTABLE_NSLOT - 1)
    BY DEF Slots
  <2>2. \A m \in 0..n : m \in 0..HASHTABLE_NSLOT
    BY <2>1, Sizes
  <2> QED
    BY <2>2, Probes, Zenon
<1>6. \A k \in Slots, v \in 1..Loc(f) : aHash[i][k] = v <=> aHash'[i][k] = v
  BY <1>2 DEF SlotsKept
<1>7. aHash'[i][Key(frames[f], n)] = Loc(f)
  <2>1. Key(frames[f], n) \in Slots /\ Loc(f) \in 1..Loc(f) /\ aHash[i][Key(frames[f], n)] = Loc(f)
    BY <1>2, <1>4, <1>5 DEF Chained, Slots
  <2> QED
    BY <1>6, <2>1, Zenon
<1>8. \A m \in 0..(n - 1) : aHash'[i][Key(frames[f], m)] \in 1..(Loc(f) - 1)
  <2> TAKE m \in 0..(n - 1)
  <2>1. Key(frames[f], m) \in Slots
    BY <1>5 DEF Slots
  <2>2. aHash[i][Key(frames[f], m)] \in 1..(Loc(f) - 1)
    BY <1>4 DEF Chained
  <2>3. aHash[i][Key(frames[f], m)] \in 1..Loc(f)
    BY <1>2, <2>2
  <2>4. aHash'[i][Key(frames[f], m)] = aHash[i][Key(frames[f], m)]
    BY <1>6, <2>1, <2>3
  <2> QED
    BY <2>2, <2>4
<1>9. Chained(i, frames[f], n, Loc(f))'
  BY <1>7, <1>8 DEF Chained
<1> QED
  BY <1>3, <1>9 DEF Indexed

\* A later bound keeps what an earlier one does.
LEMMA KeptBelow ==
    ASSUME NEW last \in Nat, NEW f \in Nat, f <= last, SlotsKept(last), PagesKept(last)
    PROVE  SlotsKept(f) /\ PagesKept(f)
<1>1. \A i \in Tables : iZero(i) \in Nat
  BY TableBounds DEF Tables
<1>2. SlotsKept(f)
  BY <1>1 DEF SlotsKept
<1>3. PagesKept(f)
  BY <1>1 DEF PagesKept
<1> QED
  BY <1>2, <1>3

\* The frames entered stay indexed when no frame is entered by the step.
LEMMA AllIndexedKept ==
    ASSUME HashTypes, WriterTypes, CleanupInv, IndexedInv, NEW last \in Nat, last <= Last,
           SlotsKept(last), PagesKept(last), FramesKept(last)
    PROVE  \A f \in 1..last : Indexed(f)'
<1> TAKE f \in 1..last
<1>1. f \in 1..Last /\ f \in 1..MaxFrame /\ f \in Nat /\ f <= last /\ frames[f] \in Page
  BY LastBounds, Sizes
<1>2. SlotsKept(f) /\ PagesKept(f)
  BY <1>1, KeptBelow
<1>3. frames'[f] = frames[f]
  BY DEF FramesKept
<1> QED
  BY <1>1, <1>2, <1>3, IndexedKept DEF IndexedInv

\* A search goes on as it was when the writer keeps the entries of the frames the
\* header counts, and notes when a slot has been cleared.
LEMMA ReaderKept ==
    ASSUME HashTypes, mxFrame \in Nat, mxFrame' \in Nat, mxFrame <= mxFrame', ReaderInv, r.pc # "idle",
           SlotsKept(mxFrame), FramesKept(mxFrame),
           NEW u \in BOOLEAN, r' = [r EXCEPT !.undone = u], r.undone => u,
           ~u => \A k \in Slots : aHash[r.iHash][k] # 0 => aHash'[r.iHash][k] # 0
    PROVE  ReaderInv'
<1>1. ReaderTypes /\ FindsSnapshotFrame
  BY DEF ReaderInv
<1>2. /\ r.iLast \in 1..mxFrame /\ r.minFrame \in Nat \ {0} /\ r.pgno \in Page /\ r.iHash \in Tables
      /\ r.iKey \in Slots /\ r.nCollide \in 0..HASHTABLE_NSLOT /\ r.undone \in BOOLEAN
      /\ r.pc \in {"load", "match", "found", "SQLITE_CORRUPT"}
      /\ r.iRead \in Nat /\ r.iH \in Nat
  BY <1>1 DEF ReaderTypes
<1>3. /\ r'.pc = r.pc /\ r'.iLast = r.iLast /\ r'.minFrame = r.minFrame /\ r'.pgno = r.pgno
      /\ r'.iHash = r.iHash /\ r'.iKey = r.iKey /\ r'.nCollide = r.nCollide /\ r'.iH = r.iH
      /\ r'.iRead = r.iRead /\ r'.undone = u
  BY <1>1 DEF ReaderTypes
<1>4. Passed' = Passed /\ Passed \in 0..HASHTABLE_NSLOT
  BY <1>2, <1>3, Sizes DEF Passed
<1>5. \A f : Sought(f)' <=> Sought(f)
  BY <1>2, <1>3 DEF Sought, FramesKept
<1>6. \A f : Sought(f) => f \in 1..mxFrame /\ f \in Nat /\ f > 0
  BY <1>2 DEF Sought
<1>7. \A n \in 0..(Passed - 1) : Key(r.pgno, n) \in Slots
  <2>1. \A n \in 0..(Passed - 1) : n \in 0..HASHTABLE_NSLOT
    BY <1>4, Sizes
  <2> QED
    BY <1>2, <2>1, Probes, Zenon
<1>8. ReaderTypes'
  <2>1. r' \in [pc : {"load", "match", "found", "SQLITE_CORRUPT"}, iLast : 1..mxFrame',
              minFrame : Nat \ {0}, pgno : Page, iHash : Tables, iKey : Slots,
              nCollide : 0..HASHTABLE_NSLOT, iH : Nat, iRead : Nat, undone : BOOLEAN]
    BY <1>1 DEF ReaderTypes
  <2> QED
    BY <1>1, <1>3, <1>4, <2>1, Zenon DEF ReaderTypes
<1>9. r.pc \in {"load", "match"} => SearchInv'
  <2> HAVE r.pc \in {"load", "match"}
  <2>1. SearchInv
    BY DEF ReaderInv
  <2>2. \A f \in 1..mxFrame' : Sought(f)' => walFramePage(f) <= r'.iHash
    BY <1>3, <1>5, <1>6, <2>1, Zenon DEF SearchInv
  <2>3. (r.iRead # 0 => Sought(r.iRead) /\ walFramePage(r.iRead) = r.iHash)'
    <3>1. r.iRead # 0 => Sought(r.iRead) /\ walFramePage(r.iRead) = r.iHash
      BY <2>1 DEF SearchInv
    <3> QED
      BY <1>2, <1>3, <3>1 DEF Sought, FramesKept
  <2>4. ASSUME NEW f \in 1..mxFrame', NEW n \in 0..(Passed - 1), Sought(f)', walFramePage(f) = r.iHash,
               aHash'[r.iHash][Key(r.pgno, n)] = Loc(f)
        PROVE  f <= r.iRead
    <3>1. f \in 1..mxFrame /\ f \in Nat /\ f > 0 /\ Sought(f)
      BY <1>5, <1>6, <2>4, Zenon
    <3>2. Loc(f) \in Nat \ {0} /\ f = Loc(f) + iZero(r.iHash)
      BY <2>4, <3>1, LocBounds
    <3>3. Loc(f) + iZero(r.iHash) <= mxFrame
      BY <3>1, <3>2
    <3>4. aHash[r.iHash][Key(r.pgno, n)] = Loc(f)
      BY <1>2, <1>7, <2>4, <3>2, <3>3, SMTT(30) DEF SlotsKept
    <3> QED
      BY <2>1, <2>4, <3>1, <3>4, Zenon DEF SearchInv
  <2>5. ~u => \A n \in 0..(Passed - 1) : aHash'[r.iHash][Key(r.pgno, n)] # 0
    BY <1>7, <2>1 DEF SearchInv
  <2> QED
    BY <1>3, <1>4, <2>2, <2>3, <2>4, <2>5, Zenon DEF SearchInv
<1>10. r.pc = "match" => MatchInv'
  <2> HAVE r.pc = "match"
  <2>1. MatchInv
    BY DEF ReaderInv
  <2>2. iZero(r.iHash) \in Nat
    BY <1>2, TableTypes, SMTT(30)
  <2>3. ASSUME NEW v \in Nat \ {0}, v <= r.iLast - iZero(r.iHash)
        PROVE  aHash'[r.iHash][r.iKey] = v <=> r.iH = v
    <3>1. v + iZero(r.iHash) <= mxFrame
      BY <1>2, <2>2, <2>3, SMTT(30)
    <3>2. aHash[r.iHash][r.iKey] = v <=> aHash'[r.iHash][r.iKey] = v
      BY <1>2, <2>3, <3>1 DEF SlotsKept
    <3> QED
      BY <2>1, <2>3, <3>2, Zenon DEF MatchInv
  <2>4. ~u => aHash'[r.iHash][r.iKey] # 0
    BY <1>2, <2>1, Zenon DEF MatchInv
  <2>5. r.iH \in 1..NEntry(r.iHash)
    BY <2>1 DEF MatchInv
  <2> QED
    BY <1>3, <2>3, <2>4, <2>5, Zenon DEF MatchInv
<1>11. FindsSnapshotFrame'
  <2>1. {f \in r.minFrame..r.iLast : frames[f] = r.pgno} = {f \in r.minFrame..r.iLast : frames'[f] = r.pgno}
    BY <1>2 DEF FramesKept
  <2>2. LastFrameOf(r.pgno, r.minFrame, r.iLast)' = LastFrameOf(r.pgno, r.minFrame, r.iLast)
    BY <1>3, <2>1, Zenon DEF LastFrameOf
  <2> QED
    BY <1>1, <1>3, <2>2 DEF FindsSnapshotFrame
<1> QED
  BY <1>3, <1>8, <1>9, <1>10, <1>11, Zenon DEF ReaderInv

\* The same when the step leaves the search alone.
LEMMA ReaderUnchanged ==
    ASSUME HashTypes, mxFrame \in Nat, mxFrame' \in Nat, mxFrame <= mxFrame', ReaderInv,
           r.pc = "idle" => r = Reader0, UNCHANGED r,
           SlotsKept(mxFrame), FramesKept(mxFrame),
           \A i \in Tables, k \in Slots : aHash[i][k] # 0 => aHash'[i][k] # 0
    PROVE  ReaderInv' /\ (r'.pc = "idle" => r' = Reader0)
<1>1. CASE r.pc = "idle"
  BY <1>1, ZenonT(30) DEF ReaderInv
<1>2. CASE r.pc # "idle"
  <2>1. ReaderTypes
    BY <1>2 DEF ReaderInv
  <2>2. r.iHash \in Tables /\ r.undone \in BOOLEAN /\ r' = [r EXCEPT !.undone = r.undone]
    BY <2>1 DEF ReaderTypes
  <2> QED
    BY <1>2, <2>2, ReaderKept, Zenon
<1> QED
  BY <1>1, <1>2

-----------------------------------------------------------------------------
(* The steps of the reader. *)

ReaderStep ==
    \/ \E p \in Page, minFrame \in 1..MaxFrame : findStart(p, minFrame)
    \/ findLoad \/ findMatch \/ endRead

\* A greatest element is what Max chooses.
LEMMA MaxIs ==
    ASSUME NEW S \in SUBSET Nat, NEW x \in S, \A y \in S : y <= x
    PROVE  Max(S) = x
<1>1. \E z \in S : \A y \in S : z >= y
  OBVIOUS
<1>2. Max(S) \in S /\ \A y \in S : Max(S) >= y
  BY <1>1, Zenon DEF Max
<1>3. Max(S) \in Nat /\ x \in Nat /\ Max(S) >= x /\ Max(S) <= x
  BY <1>2, Zenon
<1> QED
  BY <1>3

\* A search begins in the table of the snapshot's last frame.
LEMMA StartStep ==
    ASSUME HashInv, NEW p \in Page, NEW minFrame \in 1..MaxFrame, findStart(p, minFrame)
    PROVE  ReaderInv' /\ r'.pc # "idle"
<1>1. /\ r'.pc = "load" /\ r'.iLast = mxFrame /\ r'.minFrame = minFrame /\ r'.pgno = p
      /\ r'.iHash = walFramePage(mxFrame) /\ r'.iKey = walHash(p) /\ r'.nCollide = HASHTABLE_NSLOT
      /\ r'.iH = 0 /\ r'.iRead = 0 /\ r'.undone = FALSE
      /\ UNCHANGED <<frames, mxFrame, aPgno, aHash, w>>
      /\ mxFrame > 0 /\ minFrame \in 1..mxFrame
  BY DEF findStart, Reader0
<1>2. mxFrame \in Nat /\ mxFrame <= MaxFrame
  BY LastBounds, Sizes DEF HashInv
<1>3. walFramePage(mxFrame) \in Tables /\ walFramePage(minFrame) <= walFramePage(mxFrame)
      /\ \A f \in 1..mxFrame : walFramePage(f) <= walFramePage(mxFrame)
  <2>1. walFramePage(mxFrame) \in Tables
    BY <1>1, <1>2, LocBounds
  <2>2. \A f \in 1..mxFrame : walFramePage(f) <= walFramePage(mxFrame)
    BY <1>1, <1>2, TableMonotone, SMTT(30)
  <2> QED
    BY <1>1, <2>1, <2>2
<1>4. Passed' = 0 /\ walHash(p) \in Slots /\ Key(p, 0) = walHash(p)
  BY <1>1, Probes, Sizes, SMTT(30) DEF Passed
<1>5. ReaderTypes'
  <2>1. r' \in [pc : {"load", "match", "found", "SQLITE_CORRUPT"}, iLast : 1..mxFrame',
              minFrame : Nat \ {0}, pgno : Page, iHash : Tables, iKey : Slots,
              nCollide : 0..HASHTABLE_NSLOT, iH : Nat, iRead : Nat, undone : BOOLEAN]
    <3>1. r' = [pc |-> "load", iLast |-> mxFrame, minFrame |-> minFrame, pgno |-> p,
                iHash |-> walFramePage(mxFrame), iKey |-> walHash(p), nCollide |-> HASHTABLE_NSLOT,
                iH |-> 0, iRead |-> 0, undone |-> FALSE]
      BY Zenon DEF findStart, Reader0
    <3>2. mxFrame \in 1..mxFrame' /\ minFrame \in Nat \ {0} /\ HASHTABLE_NSLOT \in 0..HASHTABLE_NSLOT
      BY <1>1, <1>2, Sizes, SMTT(30)
    <3> QED
      BY <1>3, <1>4, <3>1, <3>2
  <2> QED
    BY <1>1, <1>2, <1>3, <1>4, <2>1, SMTT(30) DEF ReaderTypes
<1>6. SearchInv'
  BY <1>1, <1>2, <1>3, <1>4 DEF SearchInv
<1> QED
  BY <1>1, <1>5, <1>6 DEF ReaderInv, FindsSnapshotFrame

\* At the end of a chain every frame sought in the table has been seen.
LEMMA ChainSeen ==
    ASSUME HashInv, r.pc = "load", aHash[r.iHash][r.iKey] = 0,
           NEW f, Sought(f), walFramePage(f) = r.iHash
    PROVE  f <= r.iRead
<1>1. ReaderTypes /\ SearchInv
  BY DEF HashInv, ReaderInv
<1>2. r.iLast \in 1..mxFrame /\ r.minFrame \in Nat \ {0} /\ r.pgno \in Page /\ r.iHash \in Tables
      /\ r.nCollide \in 0..HASHTABLE_NSLOT /\ r.iKey = Key(r.pgno, Passed)
  BY <1>1 DEF ReaderTypes
<1>3. mxFrame \in Nat /\ mxFrame <= Last /\ Last \in Nat
  BY LastBounds DEF HashInv
<1>4. f \in 1..mxFrame /\ f \in 1..Last /\ f \in Nat /\ f > 0 /\ frames[f] = r.pgno
  BY <1>2, <1>3 DEF Sought
<1>5. PICK n \in Slots : Chained(r.iHash, r.pgno, n, Loc(f))
  BY <1>4 DEF HashInv, IndexedInv, Indexed
<1>6. n \in Nat /\ n < HASHTABLE_NSLOT /\ Passed \in Nat /\ Passed <= HASHTABLE_NSLOT
  BY <1>2, Sizes DEF Slots, Passed
<1>7. Loc(f) # 0
  BY <1>4, LocBounds
<1>8. n # Passed
  BY <1>2, <1>5, <1>7 DEF Chained
<1>9. ~(Passed < n)
  <2> SUFFICES ASSUME Passed < n PROVE FALSE
    OBVIOUS
  <2>1. Passed \in 0..(n - 1)
    BY <1>6
  <2>2. aHash[r.iHash][Key(r.pgno, Passed)] \in 1..(Loc(f) - 1)
    BY <1>5, <2>1, Zenon DEF Chained
  <2> QED
    BY <1>2, <2>2
<1>10. n \in 0..(Passed - 1)
  BY <1>6, <1>8, <1>9, SMTT(30)
<1>11. aHash[r.iHash][Key(r.pgno, n)] = Loc(f)
  BY <1>5 DEF Chained
<1> QED
  BY <1>1, <1>4, <1>10, <1>11, Zenon DEF SearchInv

\* A load goes to the entry, to the table before, or ends the search.
LEMMA LoadStep ==
    ASSUME HashInv, findLoad
    PROVE  ReaderInv' /\ r'.pc # "idle"
<1>0. r.pc = "load" /\ UNCHANGED <<frames, mxFrame, aPgno, aHash, w>>
  BY DEF findLoad
<1>1. ReaderTypes /\ SearchInv
  BY <1>0 DEF HashInv, ReaderInv
<1>2. /\ r.iLast \in 1..mxFrame /\ r.minFrame \in Nat \ {0} /\ r.pgno \in Page /\ r.iHash \in Tables
      /\ r.iKey \in Slots /\ r.nCollide \in 0..HASHTABLE_NSLOT /\ r.undone \in BOOLEAN
      /\ r.iRead \in Nat /\ r.iH \in Nat /\ r.minFrame <= r.iLast
      /\ walFramePage(r.minFrame) <= r.iHash /\ r.iHash <= walFramePage(r.iLast)
  BY <1>1 DEF ReaderTypes
<1>3. mxFrame \in Nat /\ mxFrame <= MaxFrame
  BY LastBounds, Sizes DEF HashInv
<1>4. \A f : Sought(f) => f \in 1..mxFrame /\ f \in Nat /\ f > 0 /\ f >= r.minFrame
  BY <1>2, <1>3 DEF Sought
<1>5. CASE aHash[r.iHash][r.iKey] # 0
  <2>1. r' = [r EXCEPT !.pc = "match", !.iH = aHash[r.iHash][r.iKey]]
    BY <1>5 DEF findLoad
  <2>2. aHash[r.iHash][r.iKey] \in 1..NEntry(r.iHash) /\ NEntry(r.iHash) \in Nat
    BY <1>2, <1>5, TableTypes DEF HashInv
  <2>3. ReaderTypes' /\ Passed' = Passed
    <3>1. aHash[r.iHash][r.iKey] \in Nat
      BY <2>2
    <3>2. r \in [pc : {"load", "match", "found", "SQLITE_CORRUPT"}, iLast : 1..mxFrame,
                 minFrame : Nat \ {0}, pgno : Page, iHash : Tables, iKey : Slots,
                 nCollide : 0..HASHTABLE_NSLOT, iH : Nat, iRead : Nat, undone : BOOLEAN]
      BY <1>1 DEF ReaderTypes
    <3>3. r' \in [pc : {"load", "match", "found", "SQLITE_CORRUPT"}, iLast : 1..mxFrame',
                  minFrame : Nat \ {0}, pgno : Page, iHash : Tables, iKey : Slots,
                  nCollide : 0..HASHTABLE_NSLOT, iH : Nat, iRead : Nat, undone : BOOLEAN]
      BY <1>0, <2>1, <3>1, <3>2, Zenon
    <3>4. /\ r'.iLast = r.iLast /\ r'.minFrame = r.minFrame /\ r'.pgno = r.pgno
          /\ r'.iHash = r.iHash /\ r'.iKey = r.iKey /\ r'.nCollide = r.nCollide
      BY <2>1, <3>2
    <3> QED
      BY <1>1, <3>3, <3>4 DEF ReaderTypes, Passed
  <2>4. /\ r'.pc = "match" /\ r'.iLast = r.iLast /\ r'.minFrame = r.minFrame /\ r'.pgno = r.pgno
        /\ r'.iHash = r.iHash /\ r'.iKey = r.iKey /\ r'.iH = aHash[r.iHash][r.iKey]
        /\ r'.iRead = r.iRead /\ r'.undone = r.undone
    BY <1>1, <2>1, SMTT(30) DEF ReaderTypes
  <2>5. SearchInv'
    BY <1>0, <1>1, <2>3, <2>4, SMTT(30) DEF SearchInv, Sought
  <2>6. MatchInv'
    BY <1>0, <1>5, <2>2, <2>4 DEF MatchInv
  <2> QED
    BY <2>3, <2>4, <2>5, <2>6 DEF ReaderInv, FindsSnapshotFrame
<1>6. CASE aHash[r.iHash][r.iKey] = 0
  <2>1. \A f : Sought(f) /\ walFramePage(f) = r.iHash => f <= r.iRead
    BY <1>0, <1>6, ChainSeen
  <2>2. CASE r.iRead # 0 \/ r.iHash = walFramePage(r.minFrame)
    <3>1. r' = [r EXCEPT !.pc = "found"]
      BY <1>6, <2>2 DEF findLoad
    <3>2. ReaderTypes'
      BY <1>0, <1>1, <3>1 DEF ReaderTypes, Passed
    <3>3. /\ r'.pc = "found" /\ r'.iLast = r.iLast /\ r'.minFrame = r.minFrame /\ r'.pgno = r.pgno
          /\ r'.iRead = r.iRead
      BY <1>1, <3>1 DEF ReaderTypes
    <3> DEFINE S == {f \in r.minFrame..r.iLast : frames[f] = r.pgno}
    <3>4. \A f : f \in S <=> Sought(f)
      BY DEF Sought
    <3>5. {0} \cup S \in SUBSET Nat
      BY <1>4, <3>4
    <3>6. r.iRead \in {0} \cup S
      BY <1>1, <3>4, Zenon DEF SearchInv
    <3>7. ASSUME NEW f \in S PROVE f <= r.iRead
      <4>1. f \in 1..mxFrame /\ f \in Nat /\ f > 0 /\ f >= r.minFrame /\ Sought(f)
        BY <1>4, <3>4, <3>7
      <4>2. walFramePage(f) <= r.iHash
        BY <1>1, <4>1 DEF SearchInv
      <4>3. walFramePage(f) \in Nat /\ r.iHash \in Nat
        BY <1>2, <4>1, TableOfFrame DEF Tables
      <4>4. CASE r.iRead # 0
        <5>1. walFramePage(r.iRead) = r.iHash
          BY <1>1, <4>4 DEF SearchInv
        <5>2. r.iRead < f => walFramePage(r.iRead) <= walFramePage(f)
          BY <1>2, <4>1, <4>4, TableMonotone
        <5> QED
          BY <1>2, <2>1, <4>1, <4>2, <4>3, <5>1, <5>2, SMTT(30)
      <4>5. CASE r.iRead = 0
        <5>1. walFramePage(r.minFrame) <= walFramePage(f)
          BY <1>2, <4>1, TableMonotone
        <5> QED
          BY <2>1, <2>2, <4>1, <4>2, <4>3, <4>5, <5>1, SMTT(30)
      <4> QED
        BY <4>4, <4>5
    <3>8. \A y \in {0} \cup S : y <= r.iRead
      BY <1>2, <3>7
    <3> HIDE DEF S
    <3>9. Max({0} \cup S) = r.iRead
      BY <3>5, <3>6, <3>8, MaxIs
    <3>10. LastFrameOf(r.pgno, r.minFrame, r.iLast)' = r.iRead
      BY <1>0, <3>3, <3>9 DEF LastFrameOf, S
    <3> QED
      BY <3>2, <3>3, <3>10 DEF ReaderInv, FindsSnapshotFrame
  <2>3. CASE ~(r.iRead # 0 \/ r.iHash = walFramePage(r.minFrame))
    <3>1. r' = [r EXCEPT !.iHash = @ - 1, !.iKey = walHash(r.pgno), !.nCollide = HASHTABLE_NSLOT]
      BY <1>6, <2>3 DEF findLoad
    <3>2. /\ r'.pc = "load" /\ r'.iLast = r.iLast /\ r'.minFrame = r.minFrame /\ r'.pgno = r.pgno
          /\ r'.iHash = r.iHash - 1 /\ r'.iKey = walHash(r.pgno) /\ r'.nCollide = HASHTABLE_NSLOT
          /\ r'.iRead = 0 /\ r'.undone = r.undone
      BY <1>0, <1>1, <2>3, <3>1 DEF ReaderTypes
    <3>3. Passed' = 0 /\ walHash(r.pgno) \in Slots /\ Key(r.pgno, 0) = walHash(r.pgno)
      BY <1>2, <3>2, Probes, Sizes DEF Passed
    <3>4. walFramePage(r.minFrame) \in Nat /\ r.iHash \in Nat /\ walFramePage(r.iLast) \in Nat
          /\ walFramePage(MaxFrame) \in Int
      <4>1. r.iLast \in Nat /\ r.iLast > 0 /\ MaxFrame \in Nat /\ MaxFrame > 0
        BY <1>2, <1>3, Sizes
      <4> QED
        BY <1>2, <4>1, TableOfFrame DEF Tables
    <3>5. r.iHash - 1 \in Tables /\ walFramePage(r.minFrame) <= r.iHash - 1
          /\ r.iHash - 1 <= walFramePage(r.iLast)
      BY <1>2, <2>3, <3>4 DEF Tables
    <3>6. ReaderTypes'
      <4>1. r' \in [pc : {"load", "match", "found", "SQLITE_CORRUPT"}, iLast : 1..mxFrame',
                    minFrame : Nat \ {0}, pgno : Page, iHash : Tables, iKey : Slots,
                    nCollide : 0..HASHTABLE_NSLOT, iH : Nat, iRead : Nat, undone : BOOLEAN]
        <5>1. HASHTABLE_NSLOT \in 0..HASHTABLE_NSLOT
          BY Sizes
        <5>2. r \in [pc : {"load", "match", "found", "SQLITE_CORRUPT"}, iLast : 1..mxFrame,
                     minFrame : Nat \ {0}, pgno : Page, iHash : Tables, iKey : Slots,
                     nCollide : 0..HASHTABLE_NSLOT, iH : Nat, iRead : Nat, undone : BOOLEAN]
          BY <1>1 DEF ReaderTypes
        <5> QED
          BY <1>0, <3>1, <3>3, <3>5, <5>1, <5>2, Zenon
      <4> QED
        BY <1>2, <3>2, <3>3, <3>5, <4>1 DEF ReaderTypes
    <3>7. \A f \in 1..mxFrame' : Sought(f)' => walFramePage(f) <= r'.iHash
      <4> TAKE f \in 1..mxFrame'
      <4> HAVE Sought(f)'
      <4>1. Sought(f)
        BY <1>0, <3>2 DEF Sought
      <4>2. f \in 1..mxFrame /\ f \in Nat /\ f > 0
        BY <1>4, <4>1, SMTT(30)
      <4>3. walFramePage(f) <= r.iHash /\ walFramePage(f) # r.iHash /\ walFramePage(f) \in Nat
        BY <1>1, <2>1, <2>3, <4>1, <4>2, TableOfFrame, SMTT(30) DEF SearchInv
      <4> QED
        BY <3>2, <3>4, <4>3
    <3>8. SearchInv'
      BY <3>2, <3>3, <3>7 DEF SearchInv
    <3> QED
      BY <3>2, <3>6, <3>8 DEF ReaderInv, FindsSnapshotFrame
  <2> QED
    BY <2>2, <2>3
<1> QED
  BY <1>5, <1>6

\* A match moves iRead to a newer frame of the snapshot, and a search passes
\* HASHTABLE_NSLOT slots only if one of them has been cleared behind it.
LEMMA MatchStep ==
    ASSUME HashInv, findMatch
    PROVE  ReaderInv' /\ r'.pc # "idle"
<1>0. r.pc = "match" /\ UNCHANGED <<frames, mxFrame, aPgno, aHash, w>>
  BY DEF findMatch
<1>1. ReaderTypes /\ SearchInv /\ MatchInv
  BY <1>0 DEF HashInv, ReaderInv
<1> DEFINE Readers(n) ==
        [pc : {"load", "match", "found", "SQLITE_CORRUPT"}, iLast : 1..n,
         minFrame : Nat \ {0}, pgno : Page, iHash : Tables, iKey : Slots,
         nCollide : 0..HASHTABLE_NSLOT, iH : Nat, iRead : Nat, undone : BOOLEAN]
<1>r. r \in Readers(mxFrame)
  BY <1>1, SMTT(30) DEF ReaderTypes
<1>2. /\ r.iLast \in 1..mxFrame /\ r.minFrame \in Nat \ {0} /\ r.pgno \in Page /\ r.iHash \in Tables
      /\ r.iKey \in Slots /\ r.nCollide \in 0..HASHTABLE_NSLOT /\ r.undone \in BOOLEAN
      /\ r.iRead \in Nat /\ r.iH \in 1..NEntry(r.iHash) /\ r.minFrame <= r.iLast
      /\ walFramePage(r.minFrame) <= r.iHash /\ r.iHash <= walFramePage(r.iLast)
      /\ r.iKey = Key(r.pgno, Passed)
  BY <1>1 DEF ReaderTypes, MatchInv
<1>3. mxFrame \in Nat /\ mxFrame <= Last /\ Last \in Nat
  BY LastBounds, SMTT(30) DEF HashInv
<1>4. /\ r.iHash \in Nat /\ NEntry(r.iHash) \in 1..HASHTABLE_NPAGE /\ NEntry(r.iHash) \in Nat
      /\ iZero(r.iHash) \in Nat /\ aHash[r.iHash] \in [Slots -> 0..NEntry(r.iHash)]
      /\ aHash[r.iHash] \in [Slots -> Nat]
  BY <1>2, TableTypes, SMTT(30) DEF HashInv
<1>5. \A k, l \in Slots : aHash[r.iHash][k] = aHash[r.iHash][l] /\ aHash[r.iHash][k] # 0 => k = l
  BY <1>2 DEF HashInv, TablesInv, Row
<1>6. CASE r.nCollide = 0
  <2>1. r' = [r EXCEPT !.pc = "SQLITE_CORRUPT"]
    BY <1>6 DEF findMatch
  <2>2. /\ r'.iLast = r.iLast /\ r'.minFrame = r.minFrame /\ r'.pgno = r.pgno /\ r'.pc = "SQLITE_CORRUPT"
        /\ r'.iHash = r.iHash /\ r'.iKey = r.iKey /\ r'.nCollide = r.nCollide /\ r'.undone = r.undone
    BY <1>r, <2>1
  <2>3. r' \in Readers(mxFrame)
    BY <1>r, <2>1
  <2>4. ReaderTypes'
    BY <1>0, <1>1, <2>2, <2>3, SMTT(30) DEF ReaderTypes, Passed
  <2>5. r.undone
    <3> SUFFICES ASSUME ~r.undone PROVE FALSE
      OBVIOUS
    <3> DEFINE v == NEntry(r.iHash)
    <3>1. v < HASHTABLE_NSLOT /\ Passed = HASHTABLE_NSLOT /\ v \in Nat
      BY <1>4, <1>6, Sizes, SMTT(30) DEF Passed
    <3>2. \A n \in 0..v : n \in 0..(Passed - 1) /\ n \in 0..HASHTABLE_NSLOT
      BY <3>1, Sizes, SMTT(30)
    <3>3. \A n \in 0..v : aHash[r.iHash][Key(r.pgno, n)] # 0
      BY <1>1, <3>2 DEF SearchInv
    <3>4. \A n \in 0..v : Key(r.pgno, n) \in Slots
      BY <1>2, <3>2, Probes, Zenon
    <3>5. \A n \in 0..v : aHash[r.iHash][Key(r.pgno, n)] <= v
      BY <1>4, <3>4, SMTT(30)
    <3> HIDE DEF v
    <3>6. \E n \in 0..v : aHash[r.iHash][Key(r.pgno, n)] = 0
      BY <1>2, <1>4, <1>5, <3>1, <3>5, FreeSlot, SMTT(30)
    <3> QED
      BY <3>3, <3>6
  <2> QED
    BY <2>2, <2>4, <2>5 DEF ReaderInv, FindsSnapshotFrame
<1>7. CASE r.nCollide # 0
  <2> DEFINE iFrame == r.iH + iZero(r.iHash)
             hit == /\ iFrame <= r.iLast /\ iFrame >= r.minFrame
                    /\ aPgno[r.iHash][(r.iH - 1) % HASHTABLE_NPAGE] = r.pgno
             iRead == IF hit THEN iFrame ELSE r.iRead
  <2>1. r' = [r EXCEPT !.pc = "load", !.iRead = iRead, !.iKey = walNextHash(r.iKey),
                       !.nCollide = r.nCollide - 1, !.iH = 0]
    BY <1>7, <1>r, SMTT(30) DEF findMatch
  <2>2. iFrame \in Nat /\ iFrame > 0 /\ iRead \in Nat
    BY <1>2, <1>4
  <2>3. walFramePage(iFrame) = r.iHash /\ Loc(iFrame) = r.iH
    <3>1. iZero(r.iHash) < iFrame /\ iFrame <= iZero(r.iHash) + NEntry(r.iHash)
      BY <1>2, <1>4
    <3>2. walFramePage(iFrame) = r.iHash
      BY <1>4, <2>2, <3>1, TableUnique, Zenon
    <3> QED
      BY <1>2, <1>4, <3>2, SMTT(30) DEF Loc
  <2>4. (r.iH - 1) % HASHTABLE_NPAGE = r.iH - 1
    <3>1. r.iH - 1 \in 0..(HASHTABLE_NPAGE - 1)
      BY <1>2, <1>4, Sizes
    <3> QED
      BY <3>1, EntryMask
  <2>5. \A f \in 1..mxFrame : Indexed(f)
    BY <1>3 DEF HashInv, IndexedInv
  <2>6. Passed \in 0..(HASHTABLE_NSLOT - 1) /\ Passed' = Passed + 1 /\ Passed \in Slots
    <3>1. r'.nCollide = r.nCollide - 1
      BY <1>r, <2>1
    <3> QED
      BY <1>2, <1>7, <3>1, Sizes, SMTT(30) DEF Passed, Slots
  <2>7. walNextHash(r.iKey) = Key(r.pgno, Passed + 1) /\ Key(r.pgno, Passed + 1) \in Slots
    <3>1. Passed + 1 \in 0..HASHTABLE_NSLOT
      BY <2>6, Sizes, SMTT(30)
    <3> QED
      BY <1>2, <2>6, <3>1, Probes, Zenon
  <2>8. hit => Sought(iFrame)
    <3> HAVE hit
    <3>1. iFrame \in 1..mxFrame /\ iFrame \in r.minFrame..r.iLast
      BY <1>2, <1>3, <2>2, SMTT(30)
    <3>2. aPgno[r.iHash][r.iH - 1] = frames[iFrame]
      BY <2>3, <2>5, <3>1, SMTT(30) DEF Indexed
    <3> QED
      BY <2>4, <3>1, <3>2, SMTT(30) DEF Sought
  <2>9. ASSUME NEW f, Sought(f), walFramePage(f) = r.iHash, aHash[r.iHash][r.iKey] = Loc(f)
        PROVE  hit /\ iFrame = f
    <3>1. f \in 1..mxFrame /\ f \in Nat /\ f > 0 /\ frames[f] = r.pgno /\ f <= r.iLast /\ f >= r.minFrame
      BY <1>2, <1>3, <2>9, SMTT(30) DEF Sought
    <3>2. Loc(f) \in Nat \ {0} /\ f = Loc(f) + iZero(r.iHash)
      BY <2>9, <3>1, LocBounds, SMTT(30)
    <3>3. Loc(f) <= r.iLast - iZero(r.iHash)
      BY <1>2, <1>4, <3>1, <3>2, SMTT(30)
    <3>4. r.iH = Loc(f)
      BY <1>1, <2>9, <3>2, <3>3, SMTT(30) DEF MatchInv
    <3>5. aPgno[r.iHash][r.iH - 1] = frames[f]
      BY <2>5, <2>9, <3>1, <3>4, SMTT(30) DEF Indexed
    <3> QED
      BY <2>4, <3>1, <3>2, <3>4, <3>5, SMTT(30)
  <2>10. ASSUME hit, NEW f, Sought(f), walFramePage(f) = r.iHash, NEW n \in 0..(Passed - 1),
                aHash[r.iHash][Key(r.pgno, n)] = Loc(f)
         PROVE  f <= iFrame
    <3>1. iFrame \in 1..mxFrame /\ frames[iFrame] = r.pgno /\ iFrame <= r.iLast
      BY <1>2, <1>3, <2>2, <2>8, <2>10, SMTT(30) DEF Sought
    <3>2. PICK m \in Slots : Chained(r.iHash, r.pgno, m, r.iH)
      BY <2>3, <2>5, <3>1, SMTT(30) DEF Indexed
    <3>3. aHash[r.iHash][r.iKey] = r.iH
      <4>1. r.iH \in Nat \ {0} /\ r.iH <= r.iLast - iZero(r.iHash)
        BY <1>2, <1>4, <3>1, SMTT(30)
      <4> QED
        BY <1>1, <4>1, SMTT(30) DEF MatchInv
    <3>4. Key(r.pgno, m) \in Slots /\ m \in 0..HASHTABLE_NSLOT
      <4>1. m \in 0..HASHTABLE_NSLOT
        BY Sizes DEF Slots
      <4> QED
        BY <1>2, <4>1, Probes, Zenon
    <3>5. Key(r.pgno, m) = r.iKey
      <4>1. aHash[r.iHash][Key(r.pgno, m)] = r.iH /\ r.iH # 0
        BY <1>2, <3>2 DEF Chained
      <4> QED
        BY <1>2, <1>5, <3>3, <3>4, <4>1, Zenon
    <3>6. m = Passed
      BY <1>2, <2>6, <3>5, Probes, ZenonT(30)
    <3>7. aHash[r.iHash][Key(r.pgno, n)] \in 1..(r.iH - 1)
      BY <2>10, <3>2, <3>6, Zenon DEF Chained
    <3>8. f \in Nat /\ f > 0
      BY <1>2, <2>10, SMTT(30) DEF Sought
    <3>9. Loc(f) < Loc(iFrame)
      BY <1>2, <1>4, <2>3, <2>10, <3>7, SMTT(30)
    <3>10. f < iFrame
      BY <2>2, <2>3, <2>10, <3>8, <3>9, LocOrder, SMTT(30)
    <3> QED
      BY <2>2, <3>8, <3>10, SMTT(30)
  <2> HIDE DEF hit, iFrame
  <2>11. r' \in Readers(mxFrame)
    <3>1. walNextHash(r.iKey) \in Slots /\ r.nCollide - 1 \in 0..HASHTABLE_NSLOT
      BY <1>2, <1>7, <2>7, Sizes
    <3> HIDE DEF iRead
    <3> QED
      BY <1>r, <2>1, <2>2, <3>1, Zenon
  <2>12. /\ r'.pc = "load" /\ r'.iLast = r.iLast /\ r'.minFrame = r.minFrame /\ r'.pgno = r.pgno
         /\ r'.iHash = r.iHash /\ r'.iKey = walNextHash(r.iKey) /\ r'.undone = r.undone /\ r'.iRead = iRead
    <3> HIDE DEF iRead
    <3> QED
      BY <1>r, <2>1, SMTT(30)
  <2>13. ReaderTypes'
    BY <1>0, <1>2, <2>6, <2>7, <2>11, <2>12, SMTT(30) DEF ReaderTypes
  <2>14. \A f : Sought(f)' <=> Sought(f)
    BY <1>0, <2>12, SMTT(30) DEF Sought
  <2>15. \A f : Sought(f) => f \in 1..mxFrame /\ f \in Nat
    BY <1>2, <1>3, SMTT(30) DEF Sought
  <2>16. (r.iRead # 0 => Sought(r.iRead) /\ walFramePage(r.iRead) = r.iHash)'
    <3>1. iRead # 0 => Sought(iRead) /\ walFramePage(iRead) = r.iHash
      BY <1>1, <2>3, <2>8, SMTT(30) DEF SearchInv
    <3> QED
      BY <1>0, <2>12, <3>1, SMTT(30) DEF Sought
  <2>17. ASSUME NEW f \in 1..mxFrame, NEW n \in 0..Passed, Sought(f), walFramePage(f) = r.iHash,
                aHash[r.iHash][Key(r.pgno, n)] = Loc(f)
         PROVE  f <= iRead
    <3>1. CASE n = Passed
      <4>1. hit /\ iFrame = f
        BY <1>2, <2>9, <2>17, <3>1, SMTT(30)
      <4> QED
        BY <2>2, <4>1, SMTT(30)
    <3>2. CASE n \in 0..(Passed - 1)
      <4>1. f <= r.iRead
        BY <1>1, <2>17, <3>2, SMTT(30) DEF SearchInv
      <4>2. hit => f <= iFrame
        BY <2>10, <2>17, <3>2, SMTT(30)
      <4> QED
        BY <4>1, <4>2, SMTT(30)
    <3> QED
      BY <2>6, <3>1, <3>2, SMTT(30)
  <2>18. ~r.undone => \A n \in 0..Passed : aHash[r.iHash][Key(r.pgno, n)] # 0
    <3> HAVE ~r.undone
    <3> TAKE n \in 0..Passed
    <3>1. CASE n = Passed
      BY <1>1, <1>2, <3>1, SMTT(30) DEF MatchInv
    <3>2. CASE n \in 0..(Passed - 1)
      BY <1>1, <3>2 DEF SearchInv
    <3> QED
      BY <2>6, <3>1, <3>2
  <2>19. 0..(Passed' - 1) = 0..Passed
    BY <2>6, SMTT(30)
  <2>20. \A f \in 1..mxFrame : Sought(f) => walFramePage(f) <= r.iHash
    BY <1>1 DEF SearchInv
  <2> HIDE DEF iRead
  <2>21. SearchInv'
    BY <1>0, <2>12, <2>14, <2>16, <2>17, <2>18, <2>19, <2>20, ZenonT(30) DEF SearchInv
  <2> QED
    BY <2>12, <2>13, <2>21 DEF ReaderInv, FindsSnapshotFrame
<1> QED
  BY <1>6, <1>7

\* Every step of the reader.
LEMMA ReaderSteps ==
    ASSUME HashInv, ReaderStep
    PROVE  /\ UNCHANGED <<frames, mxFrame, aPgno, aHash, w>>
           /\ ReaderInv' /\ (r'.pc = "idle" => r' = Reader0)
<1>1. CASE \E p \in Page, minFrame \in 1..MaxFrame : findStart(p, minFrame)
  BY <1>1, StartStep, Zenon DEF findStart
<1>2. CASE findLoad
  BY <1>2, LoadStep, Zenon DEF findLoad
<1>3. CASE findMatch
  BY <1>3, MatchStep, Zenon DEF findMatch
<1>4. CASE endRead
  BY <1>4, SMTT(30) DEF endRead, ReaderInv, Reader0
<1> QED
  BY <1>1, <1>2, <1>3, <1>4, Zenon DEF ReaderStep

-----------------------------------------------------------------------------
(* The steps of the writer. *)

WriterRecord ==
    [pc : {"idle", "ready", "insert", "store", "cleanup"}, mx : Nat, end : Nat,
     slot : Slots, then : {"idle", "ready", "insert"}]

\* The writer's fields.
LEMMA WriterFields ==
    ASSUME HashInv
    PROVE  /\ w \in WriterRecord
           /\ w.pc \in {"idle", "ready", "insert", "store", "cleanup"}
           /\ w.mx \in Nat /\ w.end \in Nat /\ w.slot \in Slots /\ w.then \in {"idle", "ready", "insert"}
           /\ w.pc # "idle" => mxFrame <= w.mx /\ w.mx <= w.end /\ Last = w.end
           /\ w.pc = "idle" => Last = mxFrame
           /\ Last \in Nat /\ mxFrame \in Nat /\ mxFrame <= Last /\ Last <= Len(frames)
           /\ Len(frames) \in Nat /\ Len(frames) <= MaxFrame /\ frames \in Seq(Page)
           /\ \A f \in 1..Len(frames) : frames[f] \in Page
<1>1. w \in WriterRecord /\ (w.pc # "idle" => mxFrame <= w.mx /\ w.mx <= w.end)
  BY DEF HashInv, WriterTypes, WriterRecord
<1>2. /\ w.pc \in {"idle", "ready", "insert", "store", "cleanup"}
      /\ w.mx \in Nat /\ w.end \in Nat /\ w.slot \in Slots /\ w.then \in {"idle", "ready", "insert"}
  BY <1>1 DEF WriterRecord
<1>3. frames \in Seq(Page)
  BY DEF HashInv, HashTypes, HashTypeOK
<1> QED
  BY <1>1, <1>2, <1>3, LastBounds DEF HashInv, Last

\* One table changes.
LEMMA RowStep ==
    ASSUME HashTypes, TablesInv, NEW i \in Tables,
           NEW h \in [Slots -> 0..NEntry(i)], NEW g \in [0..(NEntry(i) - 1) -> Page \cup {0}],
           Row(h, g, NEntry(i)),
           aHash' = [aHash EXCEPT ![i] = h], aPgno' = [aPgno EXCEPT ![i] = g],
           frames' \in Seq(Page), mxFrame' \in 0..Len(frames'), Len(frames') <= MaxFrame
    PROVE  /\ HashTypes' /\ TablesInv' /\ aHash'[i] = h /\ aPgno'[i] = g
           /\ \A l \in Tables : l # i => aHash'[l] = aHash[l] /\ aPgno'[l] = aPgno[l]
<1>1. aPgno = [l \in Tables |-> aPgno[l]] /\ aHash = [l \in Tables |-> aHash[l]]
  BY DEF HashTypes
<1>2. aHash'[i] = h /\ aPgno'[i] = g
      /\ \A l \in Tables : l # i => aHash'[l] = aHash[l] /\ aPgno'[l] = aPgno[l]
  BY <1>1
<1>3. aPgno' = [l \in Tables |-> aPgno'[l]] /\ aHash' = [l \in Tables |-> aHash'[l]]
  BY <1>1, Zenon
<1>4. \A l \in Tables : aPgno'[l] \in [0..(NEntry(l) - 1) -> Page \cup {0}] /\ aHash'[l] \in [Slots -> 0..NEntry(l)]
  BY <1>2, Zenon DEF HashTypes, HashTypeOK
<1>5. HashTypes'
  BY <1>3, <1>4, Zenon DEF HashTypes, HashTypeOK
<1>6. TablesInv'
  <2>1. \A l \in Tables : Row(aHash'[l], aPgno'[l], NEntry(l))
    BY <1>2, Zenon DEF TablesInv
  <2> QED
    BY <2>1 DEF TablesInv
<1> QED
  BY <1>2, <1>5, <1>6, SMTT(30)

\* A step of the writer that leaves the tables alone.
LEMMA TablesUnchanged ==
    ASSUME HashInv, UNCHANGED <<aPgno, aHash, r>>,
           frames' \in Seq(Page), mxFrame' \in 0..Len(frames'), Len(frames') <= MaxFrame,
           Last' \in Nat, Last' <= Last, FramesKept(Last'),
           r.pc = "idle" \/ (mxFrame <= mxFrame' /\ FramesKept(mxFrame))
    PROVE  HashTypes' /\ TablesInv' /\ IndexedInv' /\ ReaderInv' /\ (r'.pc = "idle" => r' = Reader0)
<1>1. HashTypes'
  BY DEF HashInv, HashTypes, HashTypeOK
<1>2. TablesInv'
  BY DEF HashInv, TablesInv
<1>3. \A n : SlotsKept(n) /\ PagesKept(n)
  BY DEF SlotsKept, PagesKept
<1>4. IndexedInv'
  <2> DEFINE last == Last'
  <2>1. last \in Nat /\ last <= Last /\ FramesKept(last)
    OBVIOUS
  <2> HIDE DEF last
  <2>2. \A f \in 1..last : Indexed(f)'
    BY <1>3, <2>1, AllIndexedKept, SMTT(30) DEF HashInv
  <2> QED
    BY <2>2 DEF IndexedInv, last
<1>5. CASE r.pc = "idle"
  BY <1>1, <1>2, <1>4, <1>5, SMTT(30) DEF HashInv, ReaderInv
<1>6. CASE mxFrame <= mxFrame' /\ FramesKept(mxFrame)
  <2>1. mxFrame' \in Nat /\ mxFrame \in Nat
    BY <1>1, WriterFields DEF HashTypes, HashTypeOK
  <2>2. \A i \in Tables, k \in Slots : aHash[i][k] # 0 => aHash'[i][k] # 0
    OBVIOUS
  <2> QED
    BY <1>1, <1>2, <1>3, <1>4, <1>6, <2>1, <2>2, ReaderUnchanged, SMTT(30) DEF HashInv
<1> QED
  BY <1>5, <1>6, SMTT(30)

\* A write transaction begins.
LEMMA BeginStep == ASSUME HashInv, beginWrite PROVE HashInv'
<1> USE WriterFields
<1>1. w' = [Writer0 EXCEPT !.pc = "ready", !.mx = mxFrame, !.end = mxFrame]
      /\ UNCHANGED <<frames, mxFrame, aPgno, aHash, r>> /\ w.pc = "idle"
  BY DEF beginWrite
<1>2. w' = [pc |-> "ready", mx |-> mxFrame, end |-> mxFrame, slot |-> 0, then |-> "idle"]
  BY <1>1, Zenon DEF Writer0
<1>3. Len(frames) = mxFrame /\ Last = mxFrame /\ Last' = mxFrame
  BY <1>1, <1>2 DEF HashInv, WriterTypes, Last
<1>4. FramesKept(Last') /\ FramesKept(mxFrame)
  BY <1>1 DEF FramesKept
<1>5. HashTypes' /\ TablesInv' /\ IndexedInv' /\ ReaderInv' /\ (r'.pc = "idle" => r' = Reader0)
  <2>1. mxFrame' \in 0..Len(frames') /\ Last' \in Nat /\ Last' <= Last /\ mxFrame <= mxFrame'
    BY <1>1, <1>3
  <2> QED
    BY <1>1, <1>4, <2>1, TablesUnchanged, SMTT(30)
<1>6. WriterTypes'
  <2>1. 0 \in Slots
    BY Sizes, SMTT(30) DEF Slots
  <2> QED
    BY <1>1, <1>2, <1>3, <2>1, SMTT(30) DEF WriterTypes
<1>7. AppendInv' /\ CleanupInv'
  BY <1>2, SMTT(30) DEF AppendInv, CleanupInv
<1> QED
  BY <1>5, <1>6, <1>7, SMTT(30) DEF HashInv

\* The log is restarted with no reader on it.
LEMMA RestartStep == ASSUME HashInv, restartLog PROVE HashInv'
<1> USE WriterFields
<1>1. w.pc = "ready" /\ r.pc = "idle" /\ mxFrame' = 0 /\ w' = [w EXCEPT !.mx = 0, !.end = 0]
      /\ frames' = <<>> /\ UNCHANGED <<aPgno, aHash, r>>
  BY DEF restartLog
<1>2. w' \in WriterRecord /\ w'.pc = "ready" /\ w'.mx = 0 /\ w'.end = 0
  BY <1>1, ZenonT(30) DEF WriterRecord
<1>3. Last' = 0 /\ frames' \in Seq(Page) /\ Len(frames') = 0
  BY <1>1, <1>2, SMTT(30) DEF Last
<1>4. FramesKept(Last')
  BY <1>3 DEF FramesKept
<1>5. HashTypes' /\ TablesInv' /\ IndexedInv' /\ ReaderInv' /\ (r'.pc = "idle" => r' = Reader0)
  <2>1. mxFrame' \in 0..Len(frames') /\ Last' \in Nat /\ Last' <= Last /\ Len(frames') <= MaxFrame
    BY <1>1, <1>3, Sizes
  <2> QED
    BY <1>1, <1>3, <1>4, <2>1, TablesUnchanged, SMTT(30)
<1>6. WriterTypes'
  BY <1>1, <1>2, <1>3, SMTT(30) DEF WriterTypes, WriterRecord
<1>7. AppendInv' /\ CleanupInv'
  BY <1>2, SMTT(30) DEF AppendInv, CleanupInv
<1> QED
  BY <1>5, <1>6, <1>7, SMTT(30) DEF HashInv

\* The frames appended become the writer's, or everyone's.
LEMMA EndStep == ASSUME HashInv, NEW commit \in BOOLEAN, walFramesEnd(commit) PROVE HashInv'
<1> USE WriterFields
<1>1. /\ w.pc = "ready" /\ w.end > w.mx /\ UNCHANGED <<frames, aPgno, aHash, r>>
      /\ mxFrame' = IF commit THEN w.end ELSE mxFrame
      /\ w' = IF commit THEN Writer0 ELSE [w EXCEPT !.mx = w.end]
  BY DEF walFramesEnd
<1>2. Len(frames) = w.end /\ Last = w.end
  BY <1>1 DEF HashInv, WriterTypes
<1>3. FramesKept(Last') /\ FramesKept(mxFrame)
  BY <1>1 DEF FramesKept
<1>4. Last' = w.end /\ WriterTypes' /\ AppendInv' /\ CleanupInv'
  <2>1. CASE commit
    <3>1. w' = Writer0 /\ mxFrame' = w.end
      BY <1>1, <2>1, SMTT(30)
    <3>2. 0 \in Slots
      BY Sizes, SMTT(30) DEF Slots
    <3> QED
      BY <1>1, <1>2, <3>1, <3>2, SMTT(30) DEF Writer0, WriterTypes, AppendInv, CleanupInv, Last
  <2>2. CASE ~commit
    <3>1. w' \in WriterRecord /\ w'.pc = "ready" /\ w'.mx = w.end /\ w'.end = w.end /\ mxFrame' = mxFrame
      BY <1>1, <2>2, SMTT(30) DEF WriterRecord
    <3>2. WriterTypes'
      BY <1>1, <1>2, <3>1, SMTT(30) DEF WriterTypes, WriterRecord
    <3> QED
      BY <1>1, <1>2, <3>1, <3>2, SMTT(30) DEF AppendInv, CleanupInv, Last
  <2> QED
    BY <2>1, <2>2, SMTT(30)
<1>5. HashTypes' /\ TablesInv' /\ IndexedInv' /\ ReaderInv' /\ (r'.pc = "idle" => r' = Reader0)
  <2>1. mxFrame' \in 0..Len(frames') /\ Last' \in Nat /\ Last' <= Last /\ mxFrame <= mxFrame'
    BY <1>1, <1>2, <1>4, SMTT(30)
  <2> QED
    BY <1>1, <1>3, <2>1, TablesUnchanged, SMTT(30)
<1> QED
  BY <1>4, <1>5, SMTT(30) DEF HashInv

\* hdr.mxFrame goes back, and what lies past it waits for the cleanup.
LEMMA UndoStep ==
    ASSUME HashInv, NEW mx, NEW then \in {"idle", "ready"}, undoTo(mx, then), then = "idle" => mx = mxFrame
    PROVE  HashInv'
<1> USE WriterFields
<1>1. /\ w.pc = "ready" /\ w.end = w.mx /\ mx \in mxFrame..(w.mx - 1)
      /\ w' = IF mx > 0 THEN [w EXCEPT !.pc = "cleanup", !.mx = mx, !.end = mx, !.then = then]
              ELSE [Writer0 EXCEPT !.pc = then]
      /\ frames' = SubSeq(frames, 1, mx) /\ UNCHANGED <<mxFrame, aPgno, aHash, r>>
  BY DEF undoTo
<1>2. Len(frames) = w.end /\ Last = w.end /\ mx \in Nat /\ mx < w.end /\ mxFrame <= mx
  BY <1>1 DEF HashInv, WriterTypes
<1>3. frames' \in Seq(Page) /\ Len(frames') = mx /\ \A f \in 1..mx : frames'[f] = frames[f]
  BY <1>1, <1>2, SMTT(30)
<1>4. FramesKept(mx) /\ FramesKept(mxFrame)
  BY <1>2, <1>3 DEF FramesKept
<1>5. Last' = mx /\ WriterTypes' /\ AppendInv' /\ CleanupInv'
  <2>1. CASE mx > 0
    <3>1. w' \in WriterRecord /\ w'.pc = "cleanup" /\ w'.mx = mx /\ w'.end = mx /\ w'.then = then
      BY <1>1, <1>2, <2>1, Zenon DEF WriterRecord
    <3>2. WriterTypes'
      BY <1>1, <1>2, <3>1, SMTT(30) DEF WriterTypes, WriterRecord
    <3> QED
      BY <1>1, <1>2, <1>3, <2>1, <3>1, <3>2, SMTT(30) DEF AppendInv, CleanupInv, Last
  <2>2. CASE ~(mx > 0)
    <3>1. w' = [pc |-> then, mx |-> 0, end |-> 0, slot |-> 0, then |-> "idle"] /\ mx = 0 /\ mxFrame' = 0
      BY <1>1, <1>2, <2>2, SMTT(30) DEF Writer0
    <3>2. 0 \in Slots
      BY Sizes DEF Slots
    <3>3. then = "idle" => w' = Writer0
      BY <3>1 DEF Writer0
    <3> QED
      BY <1>3, <3>1, <3>2, <3>3, SMTT(30) DEF WriterTypes, AppendInv, CleanupInv, Last
  <2> QED
    BY <2>1, <2>2, SMTT(30)
<1>6. HashTypes' /\ TablesInv' /\ IndexedInv' /\ ReaderInv' /\ (r'.pc = "idle" => r' = Reader0)
  <2>1. mxFrame' \in 0..Len(frames') /\ Last' \in Nat /\ Last' <= Last /\ mxFrame <= mxFrame'
        /\ Len(frames') <= MaxFrame /\ FramesKept(Last')
    BY <1>1, <1>2, <1>3, <1>4, <1>5, Sizes, SMTT(30)
  <2> QED
    BY <1>1, <1>3, <1>4, <2>1, TablesUnchanged, SMTT(30)
<1> QED
  BY <1>5, <1>6, SMTT(30) DEF HashInv

\* The writer is gone, and what it has entered stays in the tables.
LEMMA GoneStep == ASSUME HashInv, writerGone PROVE HashInv'
<1> USE WriterFields
<1>1. w' = Writer0 /\ frames' = SubSeq(frames, 1, mxFrame) /\ UNCHANGED <<mxFrame, aPgno, aHash, r>>
  BY DEF writerGone
<1>2. frames' \in Seq(Page) /\ Len(frames') = mxFrame /\ \A f \in 1..mxFrame : frames'[f] = frames[f]
  BY <1>1, SMTT(30)
<1>3. Last' = mxFrame /\ WriterTypes' /\ AppendInv' /\ CleanupInv'
  <2>1. 0 \in Slots
    BY Sizes, SMTT(30) DEF Slots
  <2> QED
    BY <1>1, <1>2, <2>1, SMTT(30) DEF Writer0, WriterTypes, AppendInv, CleanupInv, Last
<1>4. FramesKept(Last') /\ FramesKept(mxFrame)
  BY <1>2, <1>3, SMTT(30) DEF FramesKept
<1>5. HashTypes' /\ TablesInv' /\ IndexedInv' /\ ReaderInv' /\ (r'.pc = "idle" => r' = Reader0)
  <2>1. mxFrame' \in 0..Len(frames') /\ Last' \in Nat /\ Last' <= Last /\ mxFrame <= mxFrame'
        /\ Len(frames') <= MaxFrame
    BY <1>1, <1>2, <1>3, Sizes, SMTT(30)
  <2> QED
    BY <1>1, <1>2, <1>4, <2>1, TablesUnchanged, SMTT(30)
<1> QED
  BY <1>3, <1>5 DEF HashInv

\* The place of the next frame, and what the table of frame end holds.
LEMMA NextFrame ==
    ASSUME HashInv, w.pc # "idle", w.end + 1 <= MaxFrame
    PROVE  LET i == walFramePage(w.end + 1)
               idx == Loc(w.end + 1)
           IN  /\ i \in Tables /\ i \in Nat /\ idx \in 1..NEntry(i) /\ w.end + 1 = idx + iZero(i)
               /\ iZero(i) \in Nat /\ NEntry(i) \in Nat /\ NEntry(i) <= HASHTABLE_NPAGE
               /\ aPgno[i] \in [0..(NEntry(i) - 1) -> Page \cup {0}]
               /\ aPgno[i] \in [0..(NEntry(i) - 1) -> Nat]
               /\ aHash[i] \in [Slots -> 0..NEntry(i)] /\ aHash[i] \in [Slots -> Nat]
               /\ Row(aHash[i], aPgno[i], NEntry(i))
<1> DEFINE i == walFramePage(w.end + 1)
           idx == Loc(w.end + 1)
<1>1. w.end + 1 \in Nat /\ w.end + 1 > 0
  BY WriterFields
<1>2. /\ i \in Tables /\ i \in Nat /\ idx \in 1..NEntry(i) /\ w.end + 1 = idx + iZero(i)
      /\ iZero(i) \in Nat
  BY <1>1, LocBounds, SMTT(30)
<1>3. /\ NEntry(i) \in 1..HASHTABLE_NPAGE /\ NEntry(i) \in Nat
      /\ aPgno[i] \in [0..(NEntry(i) - 1) -> Page \cup {0}]
      /\ aPgno[i] \in [0..(NEntry(i) - 1) -> Nat]
      /\ aHash[i] \in [Slots -> 0..NEntry(i)] /\ aHash[i] \in [Slots -> Nat]
  BY <1>2, TableTypes, SMTT(30) DEF HashInv
<1>4. Row(aHash[i], aPgno[i], NEntry(i))
  BY <1>2, SMTT(30) DEF HashInv, TablesInv
<1>5. NEntry(i) <= HASHTABLE_NPAGE
  BY <1>3, Sizes, SMTT(30)
<1> QED
  BY <1>2, <1>3, <1>4, <1>5, Zenon

\* The first look at the next entry: the table is cleared, the entry is free, or
\* a writer that is gone has left it, and then nothing has been appended since.
LEMMA AppendStep == ASSUME HashInv, NEW p \in Page, walIndexAppend(p) PROVE HashInv'
<1> DEFINE i == walFramePage(w.end + 1)
           idx == Loc(w.end + 1)
           pages == IF idx = 1 THEN NoPages(i) ELSE aPgno[i]
           slots == IF idx = 1 THEN NoSlots ELSE aHash[i]
<1>1. /\ w.pc = "ready" /\ w.end + 1 <= MaxFrame /\ frames' = Append(frames, p)
      /\ aPgno' = [aPgno EXCEPT ![i] = pages]
      /\ aHash' = [aHash EXCEPT ![i] = slots]
      /\ w' = IF pages[idx - 1] # 0 /\ w.mx > 0
              THEN [w EXCEPT !.pc = "cleanup", !.then = "insert"]
              ELSE [w EXCEPT !.pc = "insert"]
      /\ UNCHANGED <<mxFrame, r>>
  BY DEF walIndexAppend, Loc
<1>2. Len(frames) = w.end /\ Last = w.end /\ w.end \in Nat /\ w.mx \in Nat /\ frames \in Seq(Page)
      /\ mxFrame \in Nat /\ mxFrame <= w.mx /\ w.mx <= w.end /\ w \in WriterRecord
  BY <1>1, WriterFields, SMTT(30) DEF HashInv, WriterTypes
<1>3. /\ i \in Tables /\ i \in Nat /\ idx \in 1..NEntry(i) /\ w.end + 1 = idx + iZero(i)
      /\ iZero(i) \in Nat /\ NEntry(i) \in Nat
      /\ aPgno[i] \in [0..(NEntry(i) - 1) -> Page \cup {0}] /\ aPgno[i] \in [0..(NEntry(i) - 1) -> Nat]
      /\ aHash[i] \in [Slots -> 0..NEntry(i)] /\ Row(aHash[i], aPgno[i], NEntry(i))
  BY <1>1, NextFrame, SMTT(30)
<1>4. frames' \in Seq(Page) /\ Len(frames') = w.end + 1 /\ FramesKept(w.end)
  BY <1>1, <1>2, SMTT(30) DEF FramesKept
<1>5. slots \in [Slots -> 0..NEntry(i)] /\ pages \in [0..(NEntry(i) - 1) -> Page \cup {0}]
      /\ Row(slots, pages, NEntry(i))
  <2>1. CASE idx = 1
    <3>1. NoSlots \in [Slots -> 0..NEntry(i)] /\ NoPages(i) \in [0..(NEntry(i) - 1) -> Page \cup {0}]
      BY <1>3, SMTT(30) DEF NoSlots, NoPages
    <3> QED
      BY <1>3, <2>1, <3>1, RowEmpty, SMTT(30)
  <2>2. CASE idx # 1
    BY <1>3, <2>2, SMTT(30)
  <2> QED
    BY <2>1, <2>2, SMTT(30)
<1>6. idx # 1 => slots = aHash[i] /\ pages = aPgno[i]
  BY SMTT(30)
<1>7. idx = 1 => pages[idx - 1] = 0
  BY <1>3 DEF NoPages
<1>8. idx # 1 => w.end > 0 /\ i = walFramePage(w.end) /\ idx = Loc(w.end) + 1
  BY <1>2, NextEntry, SMTT(30)
<1>9. idx # 1 /\ w.end > w.mx => pages[idx - 1] = 0
  <2> HAVE idx # 1 /\ w.end > w.mx
  <2>1. ZerosFrom(i, Loc(w.end))
    BY <1>1, <1>8, Zenon DEF HashInv, AppendInv
  <2>2. Loc(w.end) = idx - 1
    <3>0. w.end \in Nat /\ w.end > 0
      BY <1>2, <1>8, Zenon
    <3>1. Loc(w.end) \in Int
      BY <3>0, LocBounds, SMTT(30)
    <3> QED
      BY <1>3, <1>8, <3>1
  <2>3. idx - 1 \in 0..(NEntry(i) - 1)
    BY <1>3
  <2> QED
    BY <1>3, <1>6, <2>1, <2>2, <2>3, SMTT(30) DEF ZerosFrom
<1> HIDE DEF slots, pages, idx, i
<1>10. /\ HashTypes' /\ TablesInv' /\ aHash'[i] = slots /\ aPgno'[i] = pages
       /\ \A l \in Tables : l # i => aHash'[l] = aHash[l] /\ aPgno'[l] = aPgno[l]
  <2>1. mxFrame' \in 0..Len(frames') /\ Len(frames') <= MaxFrame
    BY <1>1, <1>2, <1>4
  <2> QED
    BY <1>1, <1>3, <1>4, <1>5, <2>1, RowStep, Zenon DEF HashInv
<1>11. SlotsKept(w.end) /\ PagesKept(w.end)
  <2>1. CASE idx # 1
    BY <1>6, <1>10, <2>1, SMTT(30) DEF SlotsKept, PagesKept
  <2>2. CASE idx = 1
    <3>1. w.end = iZero(i) /\ iZero(i) \in Nat
      BY <1>2, <1>3, <2>2
    <3>2. \A v \in Nat \ {0} : ~(v + iZero(i) <= w.end)
      BY <3>1
    <3>3. \A j \in 0..(NEntry(i) - 1) : ~(j + 1 + iZero(i) <= w.end)
      BY <3>1
    <3> QED
      BY <1>10, <3>2, <3>3, SMTT(30) DEF SlotsKept, PagesKept
  <2> QED
    BY <2>1, <2>2, SMTT(30)
<1>12. \A f \in 1..w.end : Indexed(f)'
  BY <1>2, <1>4, <1>11, AllIndexedKept, SMTT(30) DEF HashInv
<1>13. ReaderInv' /\ (r'.pc = "idle" => r' = Reader0)
  <2>1. CASE r.pc = "idle"
    BY <1>1, <2>1 DEF HashInv, ReaderInv
  <2>2. CASE r.pc # "idle"
    <3>1. ReaderTypes
      BY <2>2 DEF HashInv, ReaderInv
    <3>2. r.iHash \in Tables /\ r.iHash <= walFramePage(r.iLast) /\ r.iLast \in 1..mxFrame
          /\ r.undone \in BOOLEAN /\ r' = [r EXCEPT !.undone = r.undone]
      BY <1>1, <3>1 DEF ReaderTypes
    <3>3. idx = 1 => r.iHash # i
      <4> HAVE idx = 1
      <4>1. r.iLast \in Nat /\ r.iLast > 0 /\ r.iLast <= w.end
        BY <1>2, <3>2, SMTT(30)
      <4>2. walFramePage(r.iLast) < i
        BY <1>2, <4>1, FirstEntry DEF i, idx
      <4>3. walFramePage(r.iLast) \in Nat /\ r.iHash \in Nat
        BY <3>2, <4>1, TableOfFrame, SMTT(30) DEF Tables
      <4> QED
        BY <1>3, <3>2, <4>2, <4>3, SMTT(30)
    <3>4. aHash'[r.iHash] = aHash[r.iHash]
      BY <1>6, <1>10, <3>2, <3>3, SMTT(30)
    <3>5. SlotsKept(mxFrame) /\ FramesKept(mxFrame)
      <4>1. mxFrame <= w.end
        BY <1>2, SMTT(30)
      <4>2. SlotsKept(mxFrame)
        BY <1>2, <1>11, <4>1, KeptBelow, SMTT(30)
      <4> QED
        BY <1>2, <1>4, <4>1, <4>2, SMTT(30) DEF FramesKept
    <3>6. mxFrame' \in Nat /\ mxFrame <= mxFrame'
      BY <1>1, <1>2, SMTT(30)
    <3>7. ReaderInv'
      BY <1>2, <2>2, <3>2, <3>4, <3>5, <3>6, ReaderKept, SMTT(30) DEF HashInv
    <3> QED
      BY <1>1, <2>2, <3>7
  <2> QED
    BY <2>1, <2>2
<1>14. Last' = w.end /\ WriterTypes' /\ AppendInv' /\ CleanupInv'
  <2>1. CASE pages[idx - 1] # 0 /\ w.mx > 0
    <3>1. w' \in WriterRecord /\ w'.pc = "cleanup" /\ w'.then = "insert" /\ w'.mx = w.mx /\ w'.end = w.end
      BY <1>1, <1>2, <2>1, ZenonT(30) DEF WriterRecord
    <3>2. idx # 1 /\ w.end = w.mx
      BY <1>2, <1>7, <1>9, <2>1, SMTT(30)
    <3>3. walFramePage(w.end + 1) = walFramePage(w.mx)
      BY <1>8, <3>2 DEF i
    <3>4. WriterTypes'
      BY <1>1, <1>2, <3>1, SMTT(30) DEF WriterTypes, WriterRecord
    <3> QED
      BY <1>4, <2>1, <3>1, <3>2, <3>3, <3>4, SMTT(30) DEF AppendInv, CleanupInv, Last
  <2>2. CASE ~(pages[idx - 1] # 0 /\ w.mx > 0)
    <3>1. w' \in WriterRecord /\ w'.pc = "insert" /\ w'.mx = w.mx /\ w'.end = w.end
      BY <1>1, <1>2, <2>2, Zenon DEF WriterRecord
    <3>2. pages[idx - 1] = 0
      BY <1>2, <1>7, <1>8, <1>9, <2>2, SMTT(30)
    <3>3. \A k \in 0..(NEntry(i) - 1) : k >= idx - 1 => pages[k] = 0
      BY <1>3, <1>5, <3>2, SMTT(30) DEF Row
    <3>4. \A k \in 0..(NEntry(i) - 1) : k >= idx - 1 => aPgno'[i][k] = 0
      BY <1>10, <3>3, Zenon
    <3>5. WriterTypes'
      BY <1>1, <1>2, <1>4, <3>1, SMTT(30) DEF WriterTypes, WriterRecord
    <3>6. AppendInv'
      BY <3>1, <3>4, SMTT(30) DEF AppendInv, ZerosFrom, i, idx
    <3> QED
      BY <3>1, <3>5, <3>6 DEF CleanupInv, Last
  <2> QED
    BY <2>1, <2>2, SMTT(30)
<1>15. IndexedInv'
  BY <1>12, <1>14, SMTT(30) DEF IndexedInv
<1> QED
  BY <1>10, <1>13, <1>14, <1>15, SMTT(30) DEF HashInv

\* Below the next frame a table is full.
LEMMA EntriesFull ==
    ASSUME HashInv, w.pc # "idle", w.end + 1 <= MaxFrame,
           NEW k \in Nat, k < Loc(w.end + 1) - 1
    PROVE  aPgno[walFramePage(w.end + 1)][k] \in Page
<1> DEFINE i == walFramePage(w.end + 1)
           f == k + 1 + iZero(i)
<1>1. /\ i \in Nat /\ Loc(w.end + 1) \in 1..NEntry(i) /\ w.end + 1 = Loc(w.end + 1) + iZero(i)
      /\ iZero(i) \in Nat /\ NEntry(i) \in Nat
  BY NextFrame, SMTT(30)
<1>2. w.end \in Nat /\ Last = w.end /\ w.end <= Len(frames) /\ \A g \in 1..Len(frames) : frames[g] \in Page
  BY WriterFields
<1>3. f \in Nat /\ f \in 1..w.end /\ iZero(i) < f /\ f <= iZero(i) + NEntry(i)
  <2> DEFINE l == Loc(w.end + 1)
  <2>1. /\ l \in Nat /\ k < l - 1 /\ l <= NEntry(i) /\ w.end + 1 = l + iZero(i)
        /\ iZero(i) \in Nat /\ NEntry(i) \in Nat
    BY <1>1
  <2>2. w.end \in Nat
    BY <1>2
  <2> HIDE DEF i, l
  <2> QED
    BY <2>1, <2>2, SMTT(30)
<1>4. walFramePage(f) = i
  BY <1>1, <1>3, TableUnique, Zenon
<1>5. Loc(f) - 1 = k
  BY <1>1, <1>4, SMTT(30) DEF Loc
<1>6. aPgno[i][k] = frames[f]
  BY <1>2, <1>3, <1>4, <1>5, SMTT(30) DEF HashInv, IndexedInv, Indexed
<1>7. f \in 1..Len(frames)
  BY <1>2, <1>3, WriterFields, SMTT(30)
<1> QED
  BY <1>2, <1>6, <1>7, SMTT(30)

\* A step of the writer that keeps the frames of the log and the slots in use is
\* not seen by the reader.
LEMMA ReaderUndisturbed ==
    ASSUME HashInv, UNCHANGED <<frames, mxFrame, r>>, SlotsKept(Last), PagesKept(Last),
           \A i \in Tables, k \in Slots : aHash[i][k] # 0 => aHash'[i][k] # 0
    PROVE  ReaderInv' /\ (r'.pc = "idle" => r' = Reader0)
<1>1. mxFrame \in Nat /\ Last \in Nat /\ mxFrame <= Last
  BY WriterFields
<1>2. SlotsKept(mxFrame)
  BY <1>1, KeptBelow, SMTT(30)
<1>3. FramesKept(mxFrame) /\ mxFrame' \in Nat /\ mxFrame <= mxFrame'
  BY <1>1, SMTT(30) DEF FramesKept
<1> QED
  BY <1>1, <1>2, <1>3, ReaderUnchanged, SMTT(30) DEF HashInv

\* A free slot is found, and aPgno[] gets its next entry.
LEMMA InsertStep == ASSUME HashInv, insertPgno PROVE HashInv'
<1> DEFINE i == walFramePage(w.end + 1)
           idx == Loc(w.end + 1)
           p == frames[w.end + 1]
           free == {n \in 0..idx : aHash[i][Key(p, n)] = 0}
           first == CHOOSE n \in free : \A m \in free : n <= m
<1>1. w.pc = "insert" /\ UNCHANGED <<frames, mxFrame, aHash, r>>
  BY Zenon DEF insertPgno
<1>2. Len(frames) = w.end + 1 /\ Last = w.end /\ w.end \in Nat /\ w.mx \in Nat /\ frames \in Seq(Page)
      /\ mxFrame \in Nat /\ mxFrame <= w.mx /\ w.mx <= w.end /\ w \in WriterRecord
      /\ w.end + 1 <= MaxFrame /\ p \in Page
  BY <1>1, WriterFields, SMTT(30) DEF HashInv, WriterTypes
<1>3. /\ i \in Tables /\ i \in Nat /\ idx \in 1..NEntry(i) /\ w.end + 1 = idx + iZero(i)
      /\ iZero(i) \in Nat /\ NEntry(i) \in Nat /\ NEntry(i) <= HASHTABLE_NPAGE
      /\ aPgno[i] \in [0..(NEntry(i) - 1) -> Page \cup {0}] /\ aPgno[i] \in [0..(NEntry(i) - 1) -> Nat]
      /\ aHash[i] \in [Slots -> 0..NEntry(i)] /\ aHash[i] \in [Slots -> Nat]
      /\ Row(aHash[i], aPgno[i], NEntry(i))
  BY <1>1, <1>2, NextFrame, ZenonT(30)
<1>4. idx \in Nat /\ idx > 0 /\ idx <= NEntry(i) /\ idx < HASHTABLE_NSLOT /\ idx - 1 \in 0..(NEntry(i) - 1)
      /\ idx - 1 \in 0..(HASHTABLE_NPAGE - 1)
  <2>1. idx \in 1..NEntry(i) /\ NEntry(i) \in Nat /\ NEntry(i) <= HASHTABLE_NPAGE
    BY <1>3, Zenon
  <2> HIDE DEF i, idx
  <2> QED
    BY <2>1, Sizes
<1>5. \A k \in Slots : aHash[i][k] < idx
  <2> TAKE k \in Slots
  <2>1. CASE aHash[i][k] = 0
    BY <1>4, <2>1, SMTT(30)
  <2>2. CASE aHash[i][k] # 0
    <3>1. aPgno[i][aHash[i][k] - 1] # 0 /\ aHash[i][k] - 1 \in 0..(NEntry(i) - 1)
      BY <1>3, <2>2, SMTT(30) DEF Row
    <3>2. ZerosFrom(i, idx - 1)
      BY <1>1 DEF HashInv, AppendInv
    <3>3. ~(aHash[i][k] - 1 >= idx - 1)
      BY <3>1, <3>2, ZenonT(30) DEF ZerosFrom
    <3>4. aHash[i][k] \in Nat
      BY <1>3
    <3> QED
      BY <1>4, <3>3, <3>4, SMTT(30)
  <2> QED
    BY <2>1, <2>2, SMTT(30)
<1>6. \A n \in 0..idx : n \in Slots /\ Key(p, n) \in Slots
  <2>1. \A n \in 0..idx : n \in Slots /\ n \in 0..HASHTABLE_NSLOT
    BY <1>4, Sizes, SMTT(30) DEF Slots
  <2> QED
    BY <1>2, <2>1, Probes, Zenon
<1> HIDE DEF i, idx, p
<1>7. free # {}
  <2>1. \A n \in 0..idx : aHash[i][Key(p, n)] <= idx
    <3>1. \A k \in Slots : aHash[i][k] <= idx
      BY <1>3, <1>4, <1>5, SMTT(30)
    <3> QED
      BY <1>6, <3>1, Zenon
  <2>2. \A k, l \in Slots : aHash[i][k] = aHash[i][l] /\ aHash[i][k] # 0 => k = l
    BY <1>3, SMTT(30) DEF Row
  <2>3. \E n \in 0..idx : aHash[i][Key(p, n)] = 0
    BY <1>2, <1>3, <1>4, <2>1, <2>2, FreeSlot, ZenonT(30)
  <2> QED
    BY <2>3
<1>8. first \in free /\ \A m \in free : first <= m
  <2>1. free \in SUBSET Nat
    BY <1>4
  <2>2. \E n \in free : \A m \in free : n <= m
    BY <1>7, <2>1, LeastElement, Zenon
  <2> HIDE DEF free
  <2> QED
    BY <2>2
<1>9. /\ aPgno' = [aPgno EXCEPT ![i][idx - 1] = p]
      /\ w' = [w EXCEPT !.pc = "store", !.slot = Key(p, first)]
  <2> DEFINE probe == [n \in 0..idx |-> (walHash(p) + n) % HASHTABLE_NSLOT]
             open == {n \in DOMAIN probe : aHash[i][probe[n]] = 0}
  <2>1. \A n \in 0..idx : probe[n] = Key(p, n)
    BY DEF Key
  <2>2. open = free
    BY <2>1
  <2>3. (idx - 1) % HASHTABLE_NPAGE = idx - 1
    BY <1>4, EntryMask
  <2>4. /\ aPgno' = [aPgno EXCEPT ![i][(idx - 1) % HASHTABLE_NPAGE] = p]
        /\ w' = [w EXCEPT !.pc = "store", !.slot = probe[CHOOSE n \in open : \A m \in open : n <= m]]
    BY <1>7, <2>2, Zenon DEF insertPgno, i, idx, p, Loc
  <2>5. probe[first] = Key(p, first)
    BY <1>8, <2>1, SMTT(30)
  <2> HIDE DEF probe, open, free
  <2> QED
    BY <2>2, <2>3, <2>4, <2>5, Zenon
<1>10. first \in 0..idx /\ aHash[i][Key(p, first)] = 0 /\ first \in Slots /\ Key(p, first) \in Slots
  BY <1>6, <1>8, SMTT(30)
<1>11. \A m \in 0..(first - 1) : aHash[i][Key(p, m)] # 0
  <2> TAKE m \in 0..(first - 1)
  <2>1. m \in 0..idx /\ ~(first <= m)
    BY <1>4, <1>10
  <2>2. m \notin free
    BY <1>8, <2>1, Zenon
  <2> QED
    BY <2>1, <2>2, SMTT(30)
<1> HIDE DEF first, free
<1> DEFINE g == [aPgno[i] EXCEPT ![idx - 1] = p]
<1>12. /\ HashTypes' /\ TablesInv' /\ aHash'[i] = aHash[i] /\ aPgno'[i] = g
       /\ \A l \in Tables : l # i => aHash'[l] = aHash[l] /\ aPgno'[l] = aPgno[l]
  <2>1. aPgno' = [aPgno EXCEPT ![i] = g] /\ aHash' = [aHash EXCEPT ![i] = aHash[i]]
    <3>1. aHash = [l \in Tables |-> aHash[l]]
      BY SMTT(30) DEF HashInv, HashTypes
    <3> QED
      BY <1>1, <1>9, <3>1, SMTT(30)
  <2>2. g \in [0..(NEntry(i) - 1) -> Page \cup {0}]
    BY <1>2, <1>3, <1>4, SMTT(30)
  <2>3. \A k \in 0..(NEntry(i) - 1) : k < idx - 1 => aPgno[i][k] # 0
    <3> TAKE k \in 0..(NEntry(i) - 1)
    <3> HAVE k < idx - 1
    <3>1. aPgno[i][k] \in Page
      BY <1>1, <1>2, EntriesFull, SMTT(30) DEF i, idx
    <3> QED
      BY <3>1, Sizes, SMTT(30)
  <2>4. p \in Nat \ {0}
    BY <1>2, Sizes, SMTT(30)
  <2>5. Row(aHash[i], g, NEntry(i))
    BY <1>3, <1>4, <2>3, <2>4, RowPage, ZenonT(30)
  <2>6. mxFrame' \in 0..Len(frames') /\ Len(frames') <= MaxFrame /\ frames' \in Seq(Page)
    BY <1>1, <1>2, SMTT(30)
  <2> HIDE DEF g
  <2> QED
    BY <1>3, <2>1, <2>2, <2>5, <2>6, RowStep, ZenonT(30) DEF HashInv
<1>13. \A k \in 0..(NEntry(i) - 1) : g[k] = IF k = idx - 1 THEN p ELSE aPgno[i][k]
  BY <1>3
<1> HIDE DEF g
<1>14. SlotsKept(w.end) /\ PagesKept(w.end)
  <2>1. SlotsKept(w.end)
    BY <1>1, SMTT(30) DEF SlotsKept
  <2>2. \A j \in 0..(NEntry(i) - 1) : j + 1 + iZero(i) <= w.end => j # idx - 1
    BY <1>2, <1>3, <1>4, SMTT(30)
  <2>3. PagesKept(w.end)
    BY <1>12, <1>13, <2>2, SMTT(30) DEF PagesKept
  <2> QED
    BY <2>1, <2>3, SMTT(30)
<1>15. \A f \in 1..w.end : Indexed(f)'
  <2>1. FramesKept(w.end)
    BY <1>1, SMTT(30) DEF FramesKept
  <2> QED
    BY <1>2, <1>14, <2>1, AllIndexedKept, SMTT(30) DEF HashInv
<1>16. ReaderInv' /\ (r'.pc = "idle" => r' = Reader0)
  BY <1>1, <1>2, <1>14, ReaderUndisturbed, SMTT(30)
<1>17. w' \in WriterRecord /\ w'.pc = "store" /\ w'.mx = w.mx /\ w'.end = w.end /\ w'.slot = Key(p, first)
  BY <1>2, <1>9, <1>10, ZenonT(30) DEF WriterRecord
<1>18. WriterTypes' /\ CleanupInv' /\ Last' = w.end
  BY <1>1, <1>2, <1>17 DEF WriterTypes, WriterRecord, CleanupInv, Last
<1>19. AppendInv'
  <2>1. \A k \in 0..(NEntry(i) - 1) : k >= idx => aPgno'[i][k] = 0
    <3>1. ZerosFrom(i, idx - 1)
      BY <1>1, SMTT(30) DEF HashInv, AppendInv, i, idx
    <3> QED
      BY <1>4, <1>12, <1>13, <3>1, SMTT(30) DEF ZerosFrom
  <2>2. aPgno'[i][idx - 1] = p
    BY <1>4, <1>12, <1>13, SMTT(30)
  <2>3. \A k \in Slots : aHash'[i][k] < idx
    BY <1>5, <1>12, SMTT(30)
  <2>4. aHash'[i][w'.slot] = 0 /\ \A m \in 0..(first - 1) : aHash'[i][Key(p, m)] # 0
    BY <1>10, <1>11, <1>12, <1>17, SMTT(30)
  <2>5. \E n \in Slots : w'.slot = Key(p, n) /\ \A m \in 0..(n - 1) : aHash'[i][Key(p, m)] # 0
    BY <1>10, <1>17, <2>4, Zenon
  <2>6. w'.end = w.end /\ frames' = frames /\ w'.pc = "store"
    BY <1>1, <1>17, SMTT(30)
  <2> QED
    BY <2>1, <2>2, <2>3, <2>4, <2>5, <2>6, ZenonT(30) DEF AppendInv, ZerosFrom, i, idx, p
<1>20. IndexedInv'
  BY <1>15, <1>18, SMTT(30) DEF IndexedInv
<1> QED
  BY <1>12, <1>16, <1>18, <1>19, <1>20, SMTT(30) DEF HashInv

\* The store into the slot makes the new frame reachable.
LEMMA StoreStep == ASSUME HashInv, insertHash PROVE HashInv'
<1> DEFINE i == walFramePage(w.end + 1)
           idx == Loc(w.end + 1)
           p == frames[w.end + 1]
           h == [aHash[i] EXCEPT ![w.slot] = idx]
<1>1. /\ w.pc = "store" /\ UNCHANGED <<frames, mxFrame, aPgno, r>>
      /\ aHash' = [aHash EXCEPT ![i][w.slot] = idx]
      /\ w' = [w EXCEPT !.pc = "ready", !.end = w.end + 1, !.slot = 0]
  BY DEF insertHash, Loc
<1>2. Len(frames) = w.end + 1 /\ Last = w.end /\ w.end \in Nat /\ w.mx \in Nat /\ frames \in Seq(Page)
      /\ mxFrame \in Nat /\ mxFrame <= w.mx /\ w.mx <= w.end /\ w \in WriterRecord
      /\ w.end + 1 <= MaxFrame /\ p \in Page /\ w.slot \in Slots
  BY <1>1, WriterFields, SMTT(30) DEF HashInv, WriterTypes
<1>3. /\ i \in Tables /\ i \in Nat /\ idx \in 1..NEntry(i) /\ w.end + 1 = idx + iZero(i)
      /\ iZero(i) \in Nat /\ NEntry(i) \in Nat
      /\ aPgno[i] \in [0..(NEntry(i) - 1) -> Page \cup {0}]
      /\ aHash[i] \in [Slots -> 0..NEntry(i)] /\ aHash[i] \in [Slots -> Nat]
      /\ Row(aHash[i], aPgno[i], NEntry(i))
  BY <1>1, <1>2, NextFrame, SMTT(30)
<1>4. /\ ZerosFrom(i, idx) /\ aPgno[i][idx - 1] = p
      /\ \A k \in Slots : aHash[i][k] < idx
      /\ aHash[i][w.slot] = 0
      /\ \E n \in Slots : w.slot = Key(p, n) /\ \A m \in 0..(n - 1) : aHash[i][Key(p, m)] # 0
  BY <1>1, SMTT(30) DEF HashInv, AppendInv
<1> HIDE DEF i, idx, p
<1>5. p # 0 /\ idx # 0 /\ idx \in Nat
  BY <1>2, <1>3, Sizes, SMTT(30)
<1>6. /\ HashTypes' /\ TablesInv' /\ aHash'[i] = h /\ aPgno'[i] = aPgno[i]
      /\ \A l \in Tables : l # i => aHash'[l] = aHash[l] /\ aPgno'[l] = aPgno[l]
  <2>1. aHash' = [aHash EXCEPT ![i] = h] /\ aPgno' = [aPgno EXCEPT ![i] = aPgno[i]]
    <3>1. aPgno = [l \in Tables |-> aPgno[l]]
      BY DEF HashInv, HashTypes
    <3> QED
      BY <1>1, <3>1
  <2>2. h \in [Slots -> 0..NEntry(i)]
    BY <1>2, <1>3, <1>5
  <2>3. Row(h, aPgno[i], NEntry(i))
    BY <1>2, <1>3, <1>4, <1>5, RowStore, Zenon
  <2>4. mxFrame' \in 0..Len(frames') /\ Len(frames') <= MaxFrame /\ frames' \in Seq(Page)
    BY <1>1, <1>2, SMTT(30)
  <2> HIDE DEF h
  <2> QED
    BY <1>3, <2>1, <2>2, <2>3, <2>4, RowStep, Zenon DEF HashInv
<1>7. \A k \in Slots : h[k] = IF k = w.slot THEN idx ELSE aHash[i][k]
  BY <1>2, <1>3, SMTT(30)
<1> HIDE DEF h
<1>8. SlotsKept(w.end) /\ PagesKept(w.end)
  <2>1. \A v \in Nat \ {0} : v + iZero(i) <= w.end => v # idx
    BY <1>2, <1>3, <1>5, SMTT(30)
  <2>2. SlotsKept(w.end)
    <3>1. ASSUME NEW l \in Tables, NEW k \in Slots, NEW v \in Nat \ {0}, v + iZero(l) <= w.end
          PROVE  aHash[l][k] = v <=> aHash'[l][k] = v
      <4>1. CASE l # i
        BY <1>6, <4>1, SMTT(30)
      <4>2. CASE l = i /\ k # w.slot
        BY <1>6, <1>7, <4>2, SMTT(30)
      <4>3. CASE l = i /\ k = w.slot
        BY <1>4, <1>6, <1>7, <2>1, <3>1, <4>3, SMTT(30)
      <4> QED
        BY <4>1, <4>2, <4>3, SMTT(30)
    <3> QED
      BY <3>1, SMTT(30) DEF SlotsKept
  <2>3. PagesKept(w.end)
    BY <1>1 DEF PagesKept
  <2> QED
    BY <2>2, <2>3, SMTT(30)
<1>9. \A f \in 1..w.end : Indexed(f)'
  <2>1. FramesKept(w.end)
    BY <1>1, SMTT(30) DEF FramesKept
  <2> QED
    BY <1>2, <1>8, <2>1, AllIndexedKept, SMTT(30) DEF HashInv
<1>11. PICK n \in Slots : w.slot = Key(p, n) /\ \A m \in 0..(n - 1) : aHash[i][Key(p, m)] # 0
  BY <1>4, SMTT(30)
<1>12. aHash'[i][Key(p, n)] = idx
  BY <1>2, <1>6, <1>7, <1>11, SMTT(30)
<1>13. \A m \in 0..(n - 1) : aHash'[i][Key(p, m)] \in 1..(idx - 1)
  <2> TAKE m \in 0..(n - 1)
  <2>1. m \in Slots /\ m # n /\ m \in 0..HASHTABLE_NSLOT
    BY Sizes DEF Slots
  <2>2. Key(p, m) \in Slots /\ Key(p, m) # w.slot
    <3>1. Key(p, m) \in Slots /\ (Key(p, m) = Key(p, n) => m = n)
      BY <1>2, <2>1, Probes, SMTT(30)
    <3> QED
      BY <1>11, <2>1, <3>1, ZenonT(30)
  <2>3. aHash'[i][Key(p, m)] = aHash[i][Key(p, m)]
    BY <1>6, <1>7, <2>2, SMTT(30)
  <2>4. aHash[i][Key(p, m)] \in Nat /\ aHash[i][Key(p, m)] < idx /\ aHash[i][Key(p, m)] # 0
    BY <1>3, <1>4, <1>11, <2>2, SMTT(30)
  <2> QED
    BY <1>5, <2>3, <2>4, SMTT(30)
<1>14. w' \in WriterRecord /\ w'.pc = "ready" /\ w'.mx = w.mx /\ w'.end = w.end + 1
  <2>1. 0 \in Slots
    BY Sizes DEF Slots
  <2> QED
    <3>1. w.end + 1 \in Nat
      BY <1>2, SMTT(30)
    <3> QED
      BY <1>1, <1>2, <2>1, <3>1, Zenon DEF WriterRecord
<1>15. IndexedInv'
  <2>1. Last' = w.end + 1
    BY <1>14, SMTT(30) DEF Last
  <2>2. ASSUME NEW f \in 1..(w.end + 1) PROVE Indexed(f)'
    <3>1. CASE f = w.end + 1
      <4>1. walFramePage(f) = i /\ Loc(f) = idx /\ frames'[f] = p
        BY <1>1, <3>1, SMTT(30) DEF i, idx, p
      <4>2. aPgno'[i][idx - 1] = p
        BY <1>4, <1>6, SMTT(30)
      <4> QED
        BY <1>11, <1>12, <1>13, <4>1, <4>2, SMTT(30) DEF Indexed, Chained
    <3>2. CASE f \in 1..w.end
      BY <1>9, <3>2, SMTT(30)
    <3> QED
      BY <1>2, <3>1, <3>2, SMTT(30)
  <2> QED
    BY <2>1, <2>2, SMTT(30) DEF IndexedInv
<1>16. ReaderInv' /\ (r'.pc = "idle" => r' = Reader0)
  <2>1. \A l \in Tables, k \in Slots : aHash[l][k] # 0 => aHash'[l][k] # 0
    BY <1>5, <1>6, <1>7, SMTT(30)
  <2> QED
    BY <1>1, <1>2, <1>8, <2>1, ReaderUndisturbed, SMTT(30)
<1>17. WriterTypes' /\ CleanupInv'
  BY <1>1, <1>2, <1>14, SMTT(30) DEF WriterTypes, WriterRecord, CleanupInv
<1>18. AppendInv'
  <2>1. \A k \in 0..(NEntry(i) - 1) : k >= idx => aPgno'[i][k] = 0
    BY <1>4, <1>6, SMTT(30) DEF ZerosFrom
  <2> QED
    BY <1>14, <2>1, SMTT(30) DEF AppendInv, ZerosFrom, i, idx
<1> QED
  BY <1>6, <1>15, <1>16, <1>17, <1>18, SMTT(30) DEF HashInv

\* walCleanupHash takes newer entries out of the slots, then out of aPgno[].
LEMMA CleanupStep == ASSUME HashInv, walCleanupHash PROVE HashInv'
<1> DEFINE i == walFramePage(w.mx)
           iLimit == Loc(w.mx)
           stale == {k \in Slots : aHash[i][k] > iLimit}
<1>1. w.pc = "cleanup" /\ UNCHANGED <<frames, mxFrame>>
  BY SMTT(30) DEF walCleanupHash
<1>2. /\ Last = w.end /\ w.end = w.mx /\ w.mx \in Nat /\ w.mx > 0 /\ frames \in Seq(Page)
      /\ mxFrame \in Nat /\ mxFrame <= w.mx /\ w \in WriterRecord /\ w.mx <= MaxFrame
      /\ Len(frames) \in Nat /\ mxFrame <= Len(frames) /\ Len(frames) <= MaxFrame
      /\ w.then \in {"idle", "ready", "insert"}
  BY <1>1, WriterFields, Sizes, SMTT(30) DEF HashInv, CleanupInv
<1>3. /\ i \in Tables /\ i \in Nat /\ iLimit \in 1..NEntry(i) /\ w.mx = iLimit + iZero(i) /\ iZero(i) \in Nat
  BY <1>2, LocBounds, ZenonT(30)
<1>4. /\ NEntry(i) \in Nat
      /\ aPgno[i] \in [0..(NEntry(i) - 1) -> Page \cup {0}] /\ aPgno[i] \in [0..(NEntry(i) - 1) -> Nat]
      /\ aHash[i] \in [Slots -> 0..NEntry(i)] /\ aHash[i] \in [Slots -> Nat]
  BY <1>3, TableTypes, SMTT(30) DEF HashInv
<1>5. Row(aHash[i], aPgno[i], NEntry(i))
  BY <1>3 DEF HashInv, TablesInv
<1>6. mxFrame' \in 0..Len(frames') /\ Len(frames') <= MaxFrame /\ frames' \in Seq(Page)
      /\ FramesKept(w.mx) /\ FramesKept(mxFrame) /\ mxFrame' \in Nat /\ mxFrame <= mxFrame'
  BY <1>1, <1>2, SMTT(30) DEF FramesKept
<1>7. aPgno = [l \in Tables |-> aPgno[l]] /\ aHash = [l \in Tables |-> aHash[l]]
  BY SMTT(30) DEF HashInv, HashTypes
<1>8. CASE stale # {}
  <2> DEFINE s == Min(stale)
             h == [aHash[i] EXCEPT ![s] = 0]
  <2>1. /\ aHash' = [aHash EXCEPT ![i][s] = 0] /\ r' = [r EXCEPT !.undone = r.pc # "idle"]
        /\ UNCHANGED <<aPgno, w>>
    BY <1>8, Zenon DEF walCleanupHash, Loc
  <2>2. s \in stale
    <3>1. stale \in SUBSET Nat
      BY Sizes, SMTT(30) DEF Slots
    <3>2. \E x \in stale : \A y \in stale : x <= y
      BY <1>8, <3>1, LeastElement, Zenon
    <3> HIDE DEF stale
    <3> QED
      BY <3>2 DEF Min
  <2>3. s \in Slots /\ aHash[i][s] > iLimit
    BY <2>2
  <2> HIDE DEF s, stale, i, iLimit
  <2>4. aHash' = [aHash EXCEPT ![i] = h] /\ aPgno' = [aPgno EXCEPT ![i] = aPgno[i]]
    BY <1>7, <2>1, Zenon
  <2>5. h \in [Slots -> 0..NEntry(i)] /\ Row(h, aPgno[i], NEntry(i))
    <3>1. h \in [Slots -> 0..NEntry(i)]
      BY <1>4, <2>3, SMTT(30)
    <3>2. DOMAIN aHash[i] = Slots /\ aHash[i] = [k \in Slots |-> aHash[i][k]]
      BY <1>4, SMTT(30)
    <3> QED
      BY <1>5, <2>3, <3>1, <3>2, RowClear, SMTT(30)
  <2>6. \A k \in Slots : h[k] = IF k = s THEN 0 ELSE aHash[i][k]
    BY <1>4, <2>3, SMTT(30)
  <2> HIDE DEF h
  <2>7. /\ HashTypes' /\ TablesInv' /\ aHash'[i] = h /\ aPgno'[i] = aPgno[i]
        /\ \A l \in Tables : l # i => aHash'[l] = aHash[l] /\ aPgno'[l] = aPgno[l]
    BY <1>3, <1>4, <1>6, <2>4, <2>5, RowStep, ZenonT(30) DEF HashInv
  <2>8. SlotsKept(w.mx) /\ PagesKept(w.mx)
    <3>1. ASSUME NEW l \in Tables, NEW k \in Slots, NEW v \in Nat \ {0}, v + iZero(l) <= w.mx
          PROVE  aHash[l][k] = v <=> aHash'[l][k] = v
      <4>1. CASE l # i
        BY <2>7, <4>1, SMTT(30)
      <4>2. CASE l = i /\ k # s
        BY <2>6, <2>7, <4>2, SMTT(30)
      <4>3. CASE l = i /\ k = s
        <5>1. v <= iLimit
          BY <1>2, <1>3, <3>1, <4>3, SMTT(30)
        <5>2. aHash[i][s] \in Nat /\ aHash[i][s] # v
          BY <1>3, <1>4, <2>3, <5>1, SMTT(30)
        <5> QED
          BY <2>6, <2>7, <4>3, <5>2, SMTT(30)
      <4> QED
        BY <4>1, <4>2, <4>3, SMTT(30)
    <3>2. PagesKept(w.mx)
      BY <2>1 DEF PagesKept
    <3> QED
      BY <3>1, <3>2, SMTT(30) DEF SlotsKept
  <2>9. \A f \in 1..w.mx : Indexed(f)'
    BY <1>2, <1>6, <2>8, AllIndexedKept, SMTT(30) DEF HashInv
  <2>10. Last' = w.mx /\ WriterTypes' /\ AppendInv' /\ CleanupInv'
    <3>1. w' = w /\ mxFrame' = mxFrame /\ frames' = frames
      BY <1>1, <2>1
    <3> QED
      BY <1>1, <1>2, <3>1, Zenon DEF HashInv, WriterTypes, AppendInv, CleanupInv, Last
  <2>11. ReaderInv' /\ (r'.pc = "idle" => r' = Reader0)
    <3>1. CASE r.pc = "idle"
      <4>1. r = Reader0 /\ r' = [r EXCEPT !.undone = FALSE]
        BY <2>1, <3>1, Zenon DEF HashInv
      <4>2. r' = Reader0 /\ r'.pc = "idle"
        BY <4>1, Zenon DEF Reader0
      <4> QED
        BY <4>2 DEF ReaderInv
    <3>2. CASE r.pc # "idle"
      <4>1. r' = [r EXCEPT !.undone = TRUE]
        BY <2>1, <3>2, Zenon
      <4>2. SlotsKept(mxFrame)
        BY <1>2, <2>8, KeptBelow
      <4>3. ReaderInv'
        BY <1>2, <1>6, <3>2, <4>1, <4>2, ReaderKept, ZenonT(30) DEF HashInv
      <4>4. ReaderTypes
        BY <3>2 DEF HashInv, ReaderInv
      <4>5. r'.pc = r.pc
        BY <4>1, <4>4, SMTT(30) DEF ReaderTypes
      <4> QED
        BY <3>2, <4>3, <4>5
    <3> QED
      BY <3>1, <3>2
  <2> QED
    BY <2>7, <2>9, <2>10, <2>11, SMTT(30) DEF HashInv, IndexedInv
<1>9. CASE stale = {}
  <2> DEFINE g == [j \in DOMAIN aPgno[i] |-> IF j >= iLimit THEN 0 ELSE aPgno[i][j]]
  <2>1. /\ aPgno' = [aPgno EXCEPT ![i] = g] /\ UNCHANGED <<aHash, r>>
        /\ w' = IF w.then = "idle" THEN Writer0 ELSE [w EXCEPT !.pc = w.then]
    BY <1>9, SMTT(30) DEF walCleanupHash, Loc
  <2>2. \A k \in Slots : aHash[i][k] <= iLimit
    BY <1>3, <1>4, <1>9, SMTT(30)
  <2> HIDE DEF stale, i, iLimit
  <2>3. \A j \in 0..(NEntry(i) - 1) : g[j] = IF j >= iLimit THEN 0 ELSE aPgno[i][j]
    BY <1>4, SMTT(30)
  <2>4. g \in [0..(NEntry(i) - 1) -> Page \cup {0}] /\ Row(aHash[i], g, NEntry(i))
    <3>1. g \in [0..(NEntry(i) - 1) -> Page \cup {0}]
      BY <1>4
    <3>2. iLimit \in Nat
      BY <1>3
    <3> QED
      BY <1>4, <1>5, <2>2, <3>1, <3>2, RowCut, Zenon
  <2> HIDE DEF g
  <2>5. aHash' = [aHash EXCEPT ![i] = aHash[i]]
    BY <1>7, <2>1
  <2>6. /\ HashTypes' /\ TablesInv' /\ aHash'[i] = aHash[i] /\ aPgno'[i] = g
        /\ \A l \in Tables : l # i => aHash'[l] = aHash[l] /\ aPgno'[l] = aPgno[l]
    BY <1>3, <1>4, <1>6, <2>1, <2>4, <2>5, RowStep, Zenon DEF HashInv
  <2>7. SlotsKept(w.mx) /\ PagesKept(w.mx)
    <3>1. \A j \in 0..(NEntry(i) - 1) : j + 1 + iZero(i) <= w.mx => ~(j >= iLimit)
      BY <1>2, <1>3, SMTT(30)
    <3> QED
      BY <2>1, <2>3, <2>6, <3>1, SMTT(30) DEF SlotsKept, PagesKept
  <2>8. \A f \in 1..w.mx : Indexed(f)'
    BY <1>2, <1>6, <2>7, AllIndexedKept, SMTT(30) DEF HashInv
  <2>9. Last' = w.mx /\ WriterTypes' /\ AppendInv' /\ CleanupInv'
    <3>1. Len(frames) = (IF w.then = "insert" THEN w.end + 1 ELSE w.end)
          /\ (w.then = "insert" => walFramePage(w.end + 1) = walFramePage(w.mx))
          /\ (w.then = "idle" => w.mx = mxFrame)
      BY <1>1, SMTT(30) DEF HashInv, CleanupInv
    <3>2. CASE w.then = "idle"
      <4>1. w' = Writer0 /\ 0 \in Slots
        BY <2>1, <3>2, Sizes, SMTT(30) DEF Slots
      <4> QED
        BY <1>1, <1>2, <3>1, <3>2, <4>1, SMTT(30) DEF Writer0, WriterTypes, AppendInv, CleanupInv, Last
    <3>3. CASE w.then = "ready"
      <4>1. w' \in WriterRecord /\ w'.pc = "ready" /\ w'.mx = w.mx /\ w'.end = w.end
        BY <1>2, <2>1, <3>3, SMTT(30) DEF WriterRecord
      <4>2. WriterTypes'
        BY <1>1, <1>2, <3>1, <3>3, <4>1, SMTT(30) DEF WriterTypes, WriterRecord
      <4>3. ~(w'.end > w'.mx) /\ w'.end = w.mx
        BY <1>2, <4>1
      <4>4. AppendInv' /\ CleanupInv' /\ Last' = w.mx
        BY <4>1, <4>3, Zenon DEF AppendInv, CleanupInv, Last
      <4> QED
        BY <4>2, <4>4, Zenon
    <3>4. CASE w.then = "insert"
      <4>1. w' \in WriterRecord /\ w'.pc = "insert" /\ w'.mx = w.mx /\ w'.end = w.end
        BY <1>2, <2>1, <3>4, SMTT(30) DEF WriterRecord
      <4>2. WriterTypes'
        BY <1>1, <1>2, <3>1, <3>4, <4>1, SMTT(30) DEF WriterTypes, WriterRecord
      <4>3. walFramePage(w.end + 1) = i /\ Loc(w.end + 1) - 1 = iLimit
        BY <1>2, <1>3, <3>1, <3>4, SMTT(30) DEF Loc, i, iLimit
      <4>4. \A k \in 0..(NEntry(i) - 1) : k >= iLimit => aPgno'[i][k] = 0
        BY <2>3, <2>6, SMTT(30)
      <4>5. AppendInv'
        BY <4>1, <4>3, <4>4 DEF AppendInv, ZerosFrom
      <4> QED
        BY <1>2, <4>1, <4>2, <4>5, SMTT(30) DEF CleanupInv, Last
    <3> QED
      BY <1>2, <3>2, <3>3, <3>4, SMTT(30)
  <2>10. ReaderInv' /\ (r'.pc = "idle" => r' = Reader0)
    <3>1. \A l \in Tables, k \in Slots : aHash[l][k] # 0 => aHash'[l][k] # 0
      BY <2>1, SMTT(30)
    <3> QED
      BY <1>1, <1>2, <2>1, <2>7, <3>1, ReaderUndisturbed, SMTT(30)
  <2> QED
    BY <2>6, <2>8, <2>9, <2>10, SMTT(30) DEF HashInv, IndexedInv
<1> QED
  BY <1>8, <1>9

-----------------------------------------------------------------------------
(* The theorems. *)

\* An empty index.
LEMMA HashInit == Init => HashInv
<1> SUFFICES ASSUME Init PROVE HashInv
  OBVIOUS
<1>1. frames = <<>> /\ mxFrame = 0 /\ w = Writer0 /\ r = Reader0
      /\ aPgno = [i \in Tables |-> NoPages(i)] /\ aHash = [i \in Tables |-> NoSlots]
  BY DEF Init
<1>2. \A i \in Tables : i \in Nat /\ NEntry(i) \in Nat
  BY TableBounds, Sizes, SMTT(30) DEF Tables
<1>3. HashTypes
  <2>1. \A i \in Tables : NoPages(i) \in [0..(NEntry(i) - 1) -> Page \cup {0}] /\ NoSlots \in [Slots -> 0..NEntry(i)]
    BY <1>2 DEF NoPages, NoSlots
  <2>2. frames \in Seq(Page) /\ Len(frames) = 0 /\ mxFrame \in 0..Len(frames) /\ Len(frames) <= MaxFrame
    BY <1>1, Sizes
  <2> QED
    BY <1>1, <2>1, <2>2 DEF HashTypes, HashTypeOK
<1>4. TablesInv
  <2> SUFFICES ASSUME NEW i \in Tables PROVE Row(aHash[i], aPgno[i], NEntry(i))
    BY DEF TablesInv
  <2>1. aHash[i] = NoSlots /\ aPgno[i] = NoPages(i)
    BY <1>1, SMTT(30)
  <2> QED
    BY <1>2, <2>1, RowEmpty, SMTT(30)
<1>5. WriterTypes /\ AppendInv /\ CleanupInv /\ Last = 0
  <2>1. 0 \in Slots
    BY Sizes DEF Slots
  <2> QED
    BY <1>1, <2>1 DEF Writer0, WriterTypes, AppendInv, CleanupInv, Last
<1>6. IndexedInv
  BY <1>5 DEF IndexedInv
<1> QED
  BY <1>1, <1>3, <1>4, <1>5, <1>6, SMTT(30) DEF HashInv, ReaderInv, Reader0

\* Every step keeps the invariant.
LEMMA HashNext == HashInv /\ [Next]_vars => HashInv'
<1> SUFFICES ASSUME HashInv, [Next]_vars PROVE HashInv'
  OBVIOUS
<1>1. CASE UNCHANGED vars
  <2>1. /\ HashTypes' /\ TablesInv' /\ IndexedInv' /\ ReaderInv' /\ (r'.pc = "idle" => r' = Reader0)
    <3>1. UNCHANGED <<aPgno, aHash, r>> /\ frames' = frames /\ mxFrame' = mxFrame /\ Last' = Last
      BY <1>1 DEF vars, Last
    <3>2. FramesKept(Last') /\ FramesKept(mxFrame)
      BY <3>1, SMTT(30) DEF FramesKept
    <3>3. frames' \in Seq(Page) /\ mxFrame' \in 0..Len(frames') /\ Len(frames') <= MaxFrame
          /\ Last' \in Nat /\ Last' <= Last /\ mxFrame <= mxFrame'
      BY <3>1, WriterFields, SMTT(30)
    <3> QED
      BY <3>1, <3>2, <3>3, TablesUnchanged, SMTT(30)
  <2>2. WriterTypes' /\ AppendInv' /\ CleanupInv'
    BY <1>1, Zenon DEF vars, HashInv, WriterTypes, AppendInv, CleanupInv, ZerosFrom
  <2> QED
    BY <2>1, <2>2, SMTT(30) DEF HashInv
<1>2. CASE ReaderStep
  <2>1. /\ UNCHANGED <<frames, mxFrame, aPgno, aHash, w>>
        /\ ReaderInv' /\ (r'.pc = "idle" => r' = Reader0)
    BY <1>2, ReaderSteps, SMTT(30)
  <2>2. HashTypes' /\ TablesInv'
    BY <2>1, SMTT(30) DEF HashInv, HashTypes, HashTypeOK, TablesInv
  <2>3. WriterTypes' /\ AppendInv' /\ CleanupInv'
    BY <2>1, ZenonT(30) DEF HashInv, WriterTypes, AppendInv, CleanupInv, ZerosFrom
  <2>4. IndexedInv'
    BY <2>1 DEF HashInv, IndexedInv, Indexed, Chained, Last
  <2> QED
    BY <2>1, <2>2, <2>3, <2>4, SMTT(30) DEF HashInv
<1>3. CASE beginWrite \/ restartLog \/ insertPgno \/ insertHash \/ walCleanupHash \/ writerGone
  BY <1>3, BeginStep, RestartStep, InsertStep, StoreStep, CleanupStep, GoneStep, Zenon
<1>4. CASE \/ \E p \in Page : walIndexAppend(p)
           \/ \E commit \in BOOLEAN : walFramesEnd(commit)
  BY <1>4, AppendStep, EndStep, Zenon
<1>5. CASE sqlite3WalUndo
  BY <1>5, UndoStep DEF sqlite3WalUndo
<1>6. CASE sqlite3WalSavepointUndo
  <2>1. PICK mx \in mxFrame..w.mx : undoTo(mx, "ready")
    BY <1>6 DEF sqlite3WalSavepointUndo
  <2> QED
    BY <2>1, UndoStep
<1> QED
  BY <1>1, <1>2, <1>3, <1>4, <1>5, <1>6, Zenon DEF Next, ReaderStep

\* The invariant holds in every state of the index.
LEMMA HashInvariant == Spec => []HashInv
BY HashInit, HashNext, PTL DEF Spec

\* The types of the index: every entry of a table names a frame of the table.
THEOREM IndexTypes == Spec => []HashTypeOK
<1>1. HashInv => HashTypeOK
  BY DEF HashInv, HashTypes
<1> QED
  BY <1>1, HashInvariant, PTL

\* The expensive assertions of walIndexAppend and walCleanupHash, for tables of
\* any size: with no append or cleanup under way every frame is reached from the
\* first slot of its page, and an append always finds a free slot.
THEOREM EveryFrameReachable == Spec => []FramesReachable
<1>1. HashInv => FramesReachable
  <2> SUFFICES ASSUME HashInv PROVE FramesReachable
    OBVIOUS
  <2>1. w.pc # "SQLITE_CORRUPT"
    BY WriterFields, SMTT(30)
  <2>2. ASSUME NEW f \in 1..Last
        PROVE  LET iHash == walFramePage(f)
                   key(n) == (walHash(frames[f]) + n) % HASHTABLE_NSLOT
               IN  /\ aPgno[iHash][f - iZero(iHash) - 1] = frames[f]
                   /\ \E n \in Slots : /\ aHash[iHash][key(n)] = f - iZero(iHash)
                                       /\ \A m \in 0..(n - 1) : aHash[iHash][key(m)] # 0
    <3>1. Indexed(f)
      BY SMTT(30) DEF HashInv, IndexedInv
    <3>2. PICK n \in Slots : Chained(walFramePage(f), frames[f], n, Loc(f))
      BY <3>1, SMTT(30) DEF Indexed
    <3>3. \A m \in 0..(n - 1) : aHash[walFramePage(f)][Key(frames[f], m)] # 0
      BY <3>2 DEF Chained
    <3> QED
      BY <3>1, <3>2, <3>3, Zenon DEF Indexed, Chained, Loc, Key
  <2>3. Last = IF w.pc = "idle" THEN mxFrame ELSE w.end
    BY DEF Last
  <2> QED
    BY <2>1, <2>2, <2>3, Zenon DEF FramesReachable
<1> QED
  BY <1>1, HashInvariant, PTL

\* walFindFrame beside the writer, for tables of any size, any pages and a log of
\* any length: the frame it returns is the newest of its page in the snapshot,
\* and it returns SQLITE_CORRUPT only if slots were cleared during the search.
THEOREM SearchFindsNewest == Spec => []FindsSnapshotFrame
<1>1. HashInv => FindsSnapshotFrame
  <2> SUFFICES ASSUME HashInv PROVE FindsSnapshotFrame
    OBVIOUS
  <2>1. CASE r.pc = "idle"
    BY <2>1 DEF FindsSnapshotFrame
  <2>2. CASE r.pc # "idle"
    BY <2>2 DEF HashInv, ReaderInv
  <2> QED
    BY <2>1, <2>2
<1> QED
  BY <1>1, HashInvariant, PTL

=============================================================================
