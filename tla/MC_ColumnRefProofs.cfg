\* The confined instance of MC_ColumnRef.cfg, checking the inductive invariant.
CONSTANTS
  Threads = {"t1", "t2"}
  Handles = {"h1", "h2", "h3", "h4"}
  Impls = {"i1", "i2", "i3"}
  Vals = {"v1", "v2"}
  NoImpl = NoImpl
  NoStats = NoStats
  Owner <- MCOwner
  SizeMod <- MCSizeMod
  MaxOps = 3
  InitHnds <- MCInitConfined
SPECIFICATION Spec
\* The threads stop after MaxOps operations.
CHECK_DEADLOCK FALSE
INVARIANT IInv
