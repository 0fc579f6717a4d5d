SPECIFICATION FairSpec
CONSTANTS
  t1 = t1
  s1 = s1
  s2 = s2
  NoTask = NoTask
  NoScope = NoScope
  Task = {t1}
  Scope = {s1, s2}
  MaxCancels = 3
  Native = {t1}
  MaxNative = 1
INVARIANTS DeliveryArmed NothingEscapes RequestsBalance
PROPERTIES DeliveredInside CancellationArrives
CHECK_DEADLOCK FALSE
