\* One application thread and the timers' callbacks share two variables; a
\* third timer is given to an object that was used before.  The system may
\* fall silent when all ids are given, so a deadlock is no error.
SPECIFICATION FairSpec
CHECK_DEADLOCK FALSE
CONSTANTS
  Timer = {t1, t2}
  Var = {v1, v2}
  Client = {c1}
  Handler = h
  None = none
  AddMayFail = TRUE
  MaxTimersInFreeList = 1
  MaxId = 3
INVARIANTS
  OneOwner
  IndexesAgree
PROPERTIES
  ProvidesService
  DueTimersFire
  CallsReturn
