\* Four blocks: the list is empty, has one block, or has blocks in between.
CONSTANTS
  Block = {b1, b2, b3, b4}
  NULL = NULL
  P_FIRST = P_FIRST
SPECIFICATION Spec
\* The process is over after a fault.
CHECK_DEADLOCK FALSE
INVARIANTS TypeOK ListIsQueue
PROPERTIES ImplementsQueue Delivered
