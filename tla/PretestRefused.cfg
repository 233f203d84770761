SPECIFICATION Spec
CONSTANTS
  Platform = "linux"
  Faults = {"name", "socket", "bind", "connect", "select", "refuse"}
  MaxAddresses = 2
INVARIANTS
  PassedIsReached
