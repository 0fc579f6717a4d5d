SPECIFICATION FairSpec
CONSTANTS
  t1 = t1
  t2 = t2
  t3 = t3
  NoTask = NoTask
  Task = {t1, t2, t3}
  Native = {t1}
  InitialValue = 1
  MaxValue = 2
  FastAcquire = FALSE
  MaxIssued = 3
INVARIANTS Conservation
PROPERTIES ServedInOrder WaiterServed
