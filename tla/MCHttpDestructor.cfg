SPECIFICATION Spec
CONSTANTS
  Messages = {"get", "upgrade"}
  MaxMessages = 2
  MayRefuse = FALSE
  MayLackCallback = FALSE
  CanStop = FALSE
  Closers = {"timer"}
INVARIANTS
  DestructorAsserts
\* A closed connection that has left the list takes no more steps.
CHECK_DEADLOCK FALSE
