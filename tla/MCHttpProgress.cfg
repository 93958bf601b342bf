SPECIFICATION FairSpec
CONSTANTS
  Messages = {"get", "post", "part"}
  MaxMessages = 2
  MayRefuse = FALSE
  MayLackCallback = FALSE
  CanStop = FALSE
  Closers = {"timer"}
PROPERTIES
  TimedStatesEnd
  ClosedIsUnlisted
\* A closed connection that has left the list takes no more steps.
CHECK_DEADLOCK FALSE
