\* The period is longer than an exchange of messages, as vmstate_sendtime is.
\* TcpRcvTask can come to wait for ever in recv(): KeepsHearing says when.
SPECIFICATION LiveSpec
CONSTANTS
  Fd = {f1, f2}
  NoFd = NoFd
  Timer = {t1, t2}
  NoTimer = NoTimer
  TCP_SND_RETRY = 3
  MaxFaults = 1
  Patient = TRUE
INVARIANTS TypeOK LinkWatched
PROPERTIES KeepsHearing
CHECK_DEADLOCK FALSE
