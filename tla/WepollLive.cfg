SPECIFICATION FairSpec
CONSTANTS
  waiter = waiter
  changer = changer
  closer = closer
  s1 = s1
  s2 = s2
  Threads = {waiter, changer}
  Roles <- TwoRoles
  Sockets = {s1}
  Cells = {a}
  NULL = null
  Interests <- OneShot
  Conditions <- Writable
  MaxGroup = 2
  MaxEvents = 1
  Faults = {"device", "status"}
INVARIANTS
  NoUseAfterFree
  LockAsserts
  QueueServed
PROPERTIES
  Delivered
  CloseReturns
