\* Four timers: the pointers wrap with the ids in any order between them.
CONSTANT maxtnum = 4
SPECIFICATION Spec
\* Once every id is leaked nothing can start or stop.
CHECK_DEADLOCK FALSE
INVARIANTS TypeOK OneTimerPerId NoFalseExhaustion
PROPERTY ImplementsQueue
