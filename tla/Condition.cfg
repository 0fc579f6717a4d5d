SPECIFICATION CondFairSpec
CONSTANTS
  t1 = t1
  t2 = t2
  t3 = t3
  NoTask = NoTask
  Task = {t1, t2, t3}
  Native = {t1}
  FastAcquire = FALSE
INVARIANTS TypeOK SoleOwner QueueAgrees ListenersAgree
PROPERTIES FirstComeFirstServed WaiterServed HoldsOnReturn
