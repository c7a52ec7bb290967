-------------------------- MODULE WalHashIterator --------------------------
\* The checkpointer's iterator over the page arrays of WalHash: walCheckpoint
\* copies the pages it returns, in ascending order, from its own hdr.mxFrame.
EXTENDS WalHash, SequencesExt

\* A bug in walMerge: of two entries for one page it takes the left one.
RECURSIVE mergeKeepingOlder(_, _, _)
mergeKeepingOlder(aContent, aLeft, aRight) ==
    IF aLeft = <<>> \/ aRight = <<>> THEN aLeft \o aRight
    ELSE IF aContent[Head(aLeft)] <= aContent[Head(aRight)]
    THEN <<Head(aLeft)>> \o mergeKeepingOlder(aContent, Tail(aLeft), aRight)
    ELSE <<Head(aRight)>> \o mergeKeepingOlder(aContent, aLeft, Tail(aRight))

\* walMerge: of two entries for one page the right one, the newer, is kept.
RECURSIVE walMerge(_, _, _)
walMerge(aContent, aLeft, aRight) ==
    IF aLeft = <<>> /\ aRight = <<>> THEN <<>>
    ELSE LET fromLeft == /\ aLeft # <<>>
                         /\ \/ aRight = <<>>
                            \/ aContent[Head(aLeft)] < aContent[Head(aRight)]
             logpage == IF fromLeft THEN Head(aLeft) ELSE Head(aRight)
             left == IF fromLeft THEN Tail(aLeft) ELSE aLeft
             dup == left # <<>> /\ aContent[Head(left)] = aContent[logpage]
         IN  <<logpage>> \o walMerge(aContent, IF dup THEN Tail(left) ELSE left,
                                     IF fromLeft THEN aRight ELSE Tail(aRight))

Bit(n, k) == (n \div 2^k) % 2 = 1
LowestClear(n) == CHOOSE k \in 0..n : ~Bit(n, k) /\ \A i \in 0..(k - 1) : Bit(n, i)

\* walMergesort of the indices 0 .. nList-1: aSub[k] holds a sorted list of up
\* to 2^k of them when bit k of the number taken so far is set.
walMergesort(aContent, nList) ==
    LET mergeInto(aSub, iSubs, aMerge) ==
            FoldLeft(LAMBDA acc, k : walMerge(aContent, aSub[k], acc), aMerge, iSubs)
        take(aSub, iList) ==
            LET iSub == LowestClear(iList)
            IN  [aSub EXCEPT ![iSub] =
                    mergeInto(aSub, [k \in 1..iSub |-> k - 1], <<iList>>)]
        all == FoldLeft(take, [k \in 0..nList |-> <<>>], [i \in 1..nList |-> i - 1])
        last == LowestClear(nList - 1)
    IN  mergeInto(all, SetToSortSeq({k \in (last + 1)..nList : Bit(nList, k)}, <),
                  all[last])

\* walIteratorInit: the sorted index of every table from nBackfill + 1 on.
walIteratorInit(nBackfill, iLast) ==
    [i \in walFramePage(nBackfill + 1)..walFramePage(iLast) |->
        walMergesort(aPgno[i], IF i = walFramePage(iLast) THEN iLast - iZero(i)
                               ELSE NEntry(i))]

\* walIteratorNext until it returns 1: the smallest page above the last one, from
\* the newest table that has it.
RECURSIVE walIteratorNext(_, _)
walIteratorNext(aSegment, iPrior) ==
    LET ahead == [i \in DOMAIN aSegment |->
                     SelectSeq(aSegment[i], LAMBDA j : aPgno[i][j] > iPrior)]
        open == {i \in DOMAIN aSegment : ahead[i] # <<>>}
        page(i) == aPgno[i][Head(ahead[i])]
    IN  IF open = {} THEN <<>>
        ELSE LET iRet == Min({page(i) : i \in open})
                 i == Max({k \in open : page(k) = iRet})
             IN  <<[page |-> iRet, frame |-> iZero(i) + 1 + Head(ahead[i])]>>
                 \o walIteratorNext(aSegment, iRet)

-----------------------------------------------------------------------------
\* The checkpointer's iterator returns every page of the frames it covers once,
\* in ascending order, each with its newest frame: what walCheckpoint copies is
\* the newest version of a page, whatever the writer has appended since.
IteratorReturnsNewest ==
    \A nBackfill \in 0..(mxFrame - 1) :
        LET first == iZero(walFramePage(nBackfill + 1)) + 1
            pages == {frames[f] : f \in first..mxFrame}
        IN  walIteratorNext(walIteratorInit(nBackfill, mxFrame), 0)
            = [i \in 1..Cardinality(pages) |->
                  LET p == SetToSortSeq(pages, <)[i]
                  IN  [page |-> p, frame |-> LastFrameOf(p, first, mxFrame)]]
=============================================================================
