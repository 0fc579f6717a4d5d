SPECIFICATION GroupSpec
CONSTANTS
  root = root
  a = a
  b = b
  g = g
  w = w
  inner = inner
  NoTask = NoTask
  NoScope = NoScope
  Task = {root, a, b}
  Roots = {root}
  Scope = {g, w, inner}
  Group = {g}
  WaitScope <- MCWaitScope
  MaxCancels = 1
  Native = {}
  MaxNative = 1
INVARIANT WaitersAreCancelled
CHECK_DEADLOCK FALSE
