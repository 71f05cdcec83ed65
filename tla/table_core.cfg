SPECIFICATION Spec
CONSTANTS
  s = s
  Nil = Nil
  MaxKey = 6
  Strings = {s}
  Hashes <- MCHashes
  MaxBits = 2
  MaxInt = 5
  Creates <- MCCreates
  Constructors <- MCConstructors
INVARIANTS TypeOK LooksUp TraversalVisitsAll LengthIsBorder
PROPERTIES GrowsToHalfFull
