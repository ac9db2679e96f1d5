\* slice(2, None, -1) against two rows: are the indices rows?
CONSTANTS
  Selectors <- MCSelectorsReverse
  NRowsSet <- MCNRowsTwo
  NA <- MCNA
  SliceMax <- MCSliceMax
  SizeMod <- MCSizeMod
  MaxAlloc <- MCMaxAlloc
  Uninit = Uninit
SPECIFICATION Spec
CHECK_DEADLOCK FALSE
INVARIANT IndicesInBounds
