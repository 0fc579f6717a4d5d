SPECIFICATION Spec
CONSTANTS
  t1 = t1
  t2 = t2
  t3 = t3
  NoTask = NoTask
  Task = {t1, t2, t3}
  Native = {}
  FastAcquire = FALSE
INVARIANT NoStrandedWaiter
