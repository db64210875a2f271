\* One VM that may hold both slots, every kind of row, a limit of two minutes;
\* the server may fail in every step of a check.
CONSTANTS
  VM = {v1}
  NoAddr = NoAddr
  Absent = Absent
  Conditions <- AllConditions
  MAX_SYSTEM_NUM = 2
  CHECK_TCPSTATUS_MIN = 2
  CloudMode = TRUE
  MaxRefused = 3
SPECIFICATION Monitor
\* The process is over after it used a NULL handler.
CHECK_DEADLOCK FALSE
INVARIANTS TypeOK BypassAgrees CountsSilence LosesFewChecks DiesOnlyInOutage
PROPERTIES HangIsSilence ImplementsSwitch FaultIsShown HangIsShown Released
