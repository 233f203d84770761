SPECIFICATION FairSpec
CONSTANTS
  Platform = "windows"
  Faults = {"name", "socket", "bind", "connect", "select", "refuse"}
  MaxAddresses = 2
INVARIANTS
  TypeOK
  EveryPairOnce
  NoDescriptorLeft
  FamiliesAgree
  PassedIsReached
PROPERTIES
  Ends
