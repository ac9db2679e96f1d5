\* Resolution of every kind of list item against frames of 0..3 rows.
CONSTANTS
  Selectors <- MCSelectorsAll
  NRowsSet <- MCNRowsAll
  NA <- MCNA
  SliceMax <- MCSliceMax
  SizeMod <- MCSizeMod
  MaxAlloc <- MCMaxAlloc
  Uninit = Uninit
SPECIFICATION Spec
\* A resolution is one synchronous call: it ends in "done" or "error".
CHECK_DEADLOCK FALSE
INVARIANT TypeOK
INVARIANT IntItemsInBounds
INVARIANT ConstructAcceptsExactlyValid
INVARIANT ForwardListsResolvePython
