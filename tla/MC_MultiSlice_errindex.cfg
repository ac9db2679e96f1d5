\* An invalid item after an empty range: is its position reported?
CONSTANTS
  Selectors <- MCSelectorsErrorIndex
  NRowsSet <- MCNRowsAll
  NA <- MCNA
  SliceMax <- MCSliceMax
  SizeMod <- MCSizeMod
  MaxAlloc <- MCMaxAlloc
  Uninit = Uninit
SPECIFICATION Spec
CHECK_DEADLOCK FALSE
INVARIANT ReportedIndexIsPosition
