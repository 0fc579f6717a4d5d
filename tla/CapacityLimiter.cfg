SPECIFICATION FairSpec
CONSTANTS
  t1 = t1
  t2 = t2
  t3 = t3
  item = item
  NoTask = NoTask
  Task = {t1, t2, t3}
  Native = {t1}
  Borrower = {t1, t2, t3, item}
  BorrowerOf <- MCBorrowerOf
  Totals = {1, 2}
INVARIANTS TokensHeld TokenLostToCancelledWaiter
PROPERTY WaiterServed
