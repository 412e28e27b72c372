SPECIFICATION Spec
CONSTANTS
  AV_LAST = 3
  MAX_PROFILE = 1
  Erased = 255
  Options = {1}
  Sets = {0, 1}
  Links = {2, 3}
  Tables = {0}
  Stored <- ReadBack
  DefInputs = {1, 3}
  ByHand = {1}
  Found = {2}
  Cards <- SomeCards
  MaxOps = 5
INVARIANTS IndicesInBounds BootRestores ProtectedAtRest HalfWrittenOnlyByCut
CHECK_DEADLOCK FALSE
