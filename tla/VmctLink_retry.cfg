\* The limit of the source; the period is longer than an exchange of messages.
SPECIFICATION Spec
CONSTANTS
  Fd = {f1, f2}
  NoFd = NoFd
  Timer = {t1, t2}
  NoTimer = NoTimer
  TCP_SND_RETRY = 3
  MaxFaults = 2
  Patient = TRUE
PROPERTIES CutsAfterThree
CHECK_DEADLOCK FALSE
