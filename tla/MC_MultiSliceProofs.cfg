\* The strengthenings the proofs use, on every list of MC_MultiSlice.
CONSTANTS
  Selectors <- MCSelectorsAll
  NRowsSet <- MCNRowsAll
  NA <- MCNA
  SliceMax <- MCSliceMax
  SizeMod <- MCSizeMod
  MaxAlloc <- MCMaxAlloc
  Uninit = Uninit
SPECIFICATION Spec
\* A resolution is one synchronous call: it ends in "done" or "error".
CHECK_DEADLOCK FALSE
INVARIANT IInv
INVARIANT IntInv
