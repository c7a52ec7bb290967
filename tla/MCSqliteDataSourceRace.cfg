SPECIFICATION Spec
CONSTANTS
  Thread = {m1, m2}
  Manager = {m1, m2}
  Child = {w1, w2}
  NoThread = NoThread
  Nothing = Nothing
CHECK_DEADLOCK FALSE
INVARIANT OwnerLockLast
