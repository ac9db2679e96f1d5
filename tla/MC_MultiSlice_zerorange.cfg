\* range(0, 1) against an empty frame: are the indices rows?
CONSTANTS
  Selectors <- MCSelectorsZeroRange
  NRowsSet <- MCNRowsZero
  NA <- MCNA
  SliceMax <- MCSliceMax
  SizeMod <- MCSizeMod
  MaxAlloc <- MCMaxAlloc
  Uninit = Uninit
SPECIFICATION Spec
CHECK_DEADLOCK FALSE
INVARIANT IndicesInBounds
