SPECIFICATION LibSpec
CONSTANTS
  Infos = {c1, c2, c3, c4}
  NULL = null
  MaxKey = 8
  ToLower <- MCToLower
  Alphabet <- MCAlphabet
  PatternSets <- MCPatternSets
  NoCase = TRUE
  MaxText = 3
  MaxBlock = 2
  Lower <- MCLower
  None = none
  Args <- MCArgs
  What <- MCWhat
  Header <- MCHeader
  MaxArgs = 3
  Misreads <- MCMisreads
  Block = 3
  WordSize = 2
  Seeds = {"s", "t"}
  Nonce <- MCNonce
  Mix <- MCMix
  MaxAsk = 8
  MaxGiven = 24
  MaxStirs = 2
  BlockSize = 8
  LengthSize = 2
  MaxMessage = 26
  MaxPiece = 20
INVARIANTS
  FreeListExact
  RedBlack
  FindsAll
  RequestEdited
  AsAsked
  BytesInOrder
  Padded
PROPERTIES
  ImplementsSlotPool
CHECK_DEADLOCK FALSE
