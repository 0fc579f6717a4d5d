SPECIFICATION GroupSpec
CONSTANTS
  root = root
  other = other
  a = a
  b = b
  g = g
  w = w
  inner = inner
  NoTask = NoTask
  NoScope = NoScope
  Task = {root, other, a}
  Roots = {root, other}
  Scope = {g, w, inner}
  Group = {g}
  WaitScope <- MCWaitScope
  MaxCancels = 1
  Native = {}
  MaxNative = 1
INVARIANT NoOrphans
CHECK_DEADLOCK FALSE
