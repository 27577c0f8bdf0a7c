CONSTANTS
  BlockSize = 60
  Isolation = 40
  Word = 8
  Sizes = {0, 8, 9, 31, 32}
  MaxBlocks = 2
SPECIFICATION Spec
INVARIANT Inv
