CONSTANTS
  Keys <- MCKeys
  Vals <- MCVals
  HalfWords = 8
  Budget = 2
  Threshold = 4
  Garble <- AnyWord
  Start <- MCStart
  MaxOps = 5
  CutOps = 3
  MaxCuts = 1
SPECIFICATION Spec
INVARIANTS StoreSound
PROPERTIES IsDictionary GenerationMonotone
CHECK_DEADLOCK FALSE
