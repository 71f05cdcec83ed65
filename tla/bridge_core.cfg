SPECIFICATION FairSpec
CONSTANTS
  NoObj = NoObj
  NoId = NoId
  Objs = {o1, x1}
  Extended = {x1}
  Size = 8
  MaxUdata = 5
INVARIANTS TypeOK Resolves OneUserdata
PROPERTIES ObjectsAreReleased
CHECK_DEADLOCK FALSE
