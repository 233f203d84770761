SPECIFICATION Spec
CONSTANTS
  waiter = waiter
  changer = changer
  closer = closer
  s1 = s1
  s2 = s2
  Threads = {waiter, changer}
  Roles <- TwoRoles
  Sockets = {s1, s2}
  Cells = {a, b}
  NULL = null
  Interests <- Plain
  Conditions <- Always
  MaxGroup = 2
  MaxEvents = 1
  Faults = {"poll"}
INVARIANTS
  Registered
  OnePacket
  Watched
  GroupsPacked
  DeletesAll
  ReportsOnlyRegistered
