\* Every selector shape through make, post_init_check and execute.
CONSTANTS
  Values <- MCValues
  NRowsSet <- MCNRows
  NA <- MCNA
SPECIFICATION Spec
\* One resolution is one synchronous call: it ends in "done", "error" or
\* "delegated" (a list is handed to multislice_in).
CHECK_DEADLOCK FALSE
INVARIANT IndicesInBounds
INVARIANT AcceptsExactlySpec
INVARIANT AInv
