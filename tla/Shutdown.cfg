\* The six threads of the HOST; VMCT has three.
CONSTANT MAX_PTASK = 6
SPECIFICATION Spec
\* The process may be stuck, and nothing runs after exit().
CHECK_DEADLOCK FALSE
INVARIANTS TcpExclusive
PROPERTIES Ends
