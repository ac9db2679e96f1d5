\* Zero-step and reversed slices: does the fill pass stay inside the array?
CONSTANTS
  Selectors <- MCSelectorsFill
  NRowsSet <- MCNRowsAll
  NA <- MCNA
  SliceMax <- MCSliceMax
  SizeMod <- MCSizeMod
  MaxAlloc <- MCMaxAlloc
  Uninit = Uninit
SPECIFICATION Spec
CHECK_DEADLOCK FALSE
INVARIANT FillWithinAllocation
