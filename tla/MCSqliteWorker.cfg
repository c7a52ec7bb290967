SPECIFICATION FairSpec
CONSTANTS
  Thread = {t1, t2, t3}
  Child = {w1, w2}
  Addr = {a1, a2}
  NoThread = NoThread
  NoChild = NoChild
CHECK_DEADLOCK FALSE
INVARIANTS OneInChild CarrierSleeps
PROPERTIES ImplementsWorker CallsReturn
