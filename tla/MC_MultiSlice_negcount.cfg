\* A range whose wrapped start passes its stop: does the fill stay inside the array?
CONSTANTS
  Selectors <- MCSelectorsNegCount
  NRowsSet <- MCNRowsThree
  NA <- MCNA
  SliceMax <- MCSliceMax
  SizeMod <- MCSizeMod
  MaxAlloc <- MCMaxAlloc
  Uninit = Uninit
SPECIFICATION Spec
CHECK_DEADLOCK FALSE
INVARIANT FillWithinAllocation
