\* A descending range ending at row 0: does it select Python's rows?
CONSTANTS
  Selectors <- MCSelectorsRangeStop
  NRowsSet <- MCNRowsAll
  NA <- MCNA
  SliceMax <- MCSliceMax
  SizeMod <- MCSizeMod
  MaxAlloc <- MCMaxAlloc
  Uninit = Uninit
SPECIFICATION Spec
CHECK_DEADLOCK FALSE
INVARIANT ResultIsPython
