SPECIFICATION Spec
CONSTANTS
  Messages = {"get", "post", "bad", "upgrade"}
  MaxMessages = 3
  MayRefuse = TRUE
  MayLackCallback = TRUE
  CanStop = TRUE
  Closers = {"timer", "app"}
INVARIANTS
  TypeOK
  DestroyStopsTimers
  SignalOfThisRequest
  PausedWithApplication
  CompletedInTurn
  PipelinedIsServed
\* A closed connection that has left the list takes no more steps.
CHECK_DEADLOCK FALSE
