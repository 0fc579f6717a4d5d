SPECIFICATION GroupSpec
CONSTANTS
  root = root
  a = a
  b = b
  g = g
  w = w
  inner = inner
  NoTask = NoTask
  NoScope = NoScope
  Task = {root, a, b}
  Roots = {root}
  Scope = {g, w, inner}
  Group = {g}
  WaitScope <- MCWaitScope
  MaxCancels = 1
  Native = {root}
  MaxNative = 1
INVARIANTS ArmedOrBlocked HostHasReasonToWait
PROPERTIES FailureCancels ErrorsComeOut
CHECK_DEADLOCK FALSE
SYMMETRY MCChildren
