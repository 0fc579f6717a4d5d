SPECIFICATION Spec
CONSTANTS
  s1 = s1
  r1 = r1
  NoTask = NoTask
  Task = {s1, r1}
  Sender = {s1}
  Native = {}
  MaxNative = 0
  MaxBufferSize = 1
  MaxItems = 2
INVARIANT BlockedAreCounted
