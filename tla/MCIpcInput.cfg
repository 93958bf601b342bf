SPECIFICATION FairSpec
CONSTANTS
  w1 = w1
  w2 = w2
  s1 = s1
  App = app
  Workers <- TwoWorkers
  Senders <- NoSenders
  ReadAhead = 2
  MaxOutgoing = 1
  ZeroReads = FALSE
  SyncIo = TRUE
  Kinds = {"data", "signal"}
  CallbackResults = {"ok"}
  CloseCodes = {}
  PeerEnds = {}
  MaxSends = 0
  StreamChunks = 2
  Arrivals = 2
  Pausable = {"InPaused"}
  MaxPauses = 2
INVARIANTS
  TypeOK
  ReceivedInOrder
PROPERTIES
  DataProgress
\* The application may never close the connection: it is then quiet for ever.
CHECK_DEADLOCK FALSE
