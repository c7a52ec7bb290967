SPECIFICATION MCSpec
CONSTANTS
  Thread = {m1, m2, t1}
  Manager = {m1, m2}
  Child = {w1, w2}
  NoThread = NoThread
  Nothing = Nothing
  WThread = {t1, t2, t3}
  WChild = {w, r1, r2}
  Writer = w
CHECK_DEADLOCK FALSE
INVARIANTS ClosedBeforeRelease
INVARIANTS PoolConserved CloseIsLast
PROPERTIES CloseReturns ReaderComesBack
