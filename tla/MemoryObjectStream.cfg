SPECIFICATION Spec
CONSTANTS
  s1 = s1
  s2 = s2
  r1 = r1
  r2 = r2
  NoTask = NoTask
  Task = {s1, s2, r1, r2}
  Sender = {s1, s2}
  Native = {r1, r2}
  MaxNative = 1
  MaxBufferSize = 1
  MaxItems = 3
INVARIANTS InOrder NothingLost NoNeedlessWait DroppedWasCancelled EndArrives
SYMMETRY MCAlike
