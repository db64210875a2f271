\* One block is enough.
CONSTANTS
  Block = {b1}
  NULL = NULL
  P_FIRST = P_FIRST
SPECIFICATION Safety
CHECK_DEADLOCK FALSE
INVARIANT NeverWithoutBlock
