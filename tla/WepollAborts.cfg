SPECIFICATION Spec
CONSTANTS
  waiter = waiter
  changer = changer
  closer = closer
  s1 = s1
  s2 = s2
  Threads = {waiter, changer, closer}
  Roles <- ThreeRoles
  Sockets = {s1}
  Cells = {a}
  NULL = null
  Interests <- OneShot
  Conditions <- Always
  MaxGroup = 2
  MaxEvents = 1
  Faults = {}
INVARIANTS
  NeverAborts
