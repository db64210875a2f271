\* One VM that connects again before its old slot is free.
SPECIFICATION LiveSpec
CONSTANTS
  VM = {v1}
  NoAddr = NoAddr
  Fd = {f1, f2}
  NoFd = NoFd
  MAX_LISTENQ = 2
  MaxReports = 1
  MaxOld = 1
INVARIANTS TypeOK WatchesSessions RegisteredByOwner AnswersReporter WaitsOnlyForNew
PROPERTIES SlotsComeBack
