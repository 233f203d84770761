SPECIFICATION Spec
CONSTANTS
  Magic <- MCMagic
  LengthName <- MCName
  Wide = 100000
  Texts <- Sent
  BufLen = 30
INVARIANTS
  FragmentationIndependent
PROPERTIES
  ImplementsResponseCounter
CHECK_DEADLOCK FALSE
