SPECIFICATION Spec
CONSTANTS
  w1 = w1
  w2 = w2
  s1 = s1
  App = app
  Workers <- TwoWorkers
  Senders <- OneSender
  ReadAhead = 1
  MaxOutgoing = 1
  ZeroReads = FALSE
  SyncIo = FALSE
  Kinds = {"data", "signal", "stream"}
  CallbackResults = {"ok"}
  CloseCodes = {"ok"}
  PeerEnds = {}
  MaxSends = 2
  StreamChunks = 1
  Arrivals = 0
  Pausable = {}
  MaxPauses = 0
SYMMETRY Symmetry
INVARIANTS
  OutstandingExact
  SentInOrder
  SignalAfterWrites
\* The application may never close the connection: it is then quiet for ever.
CHECK_DEADLOCK FALSE
