SPECIFICATION FairSpec
CONSTANTS
  w1 = w1
  w2 = w2
  s1 = s1
  App = app
  Workers <- TwoWorkers
  Senders <- OneSender
  ReadAhead = 1
  MaxOutgoing = 2
  ZeroReads = FALSE
  SyncIo = FALSE
  Kinds = {"data", "signal"}
  CallbackResults = {"ok"}
  CloseCodes = {}
  PeerEnds = {}
  MaxSends = 2
  StreamChunks = 2
  Arrivals = 0
  Pausable = {"OutPaused"}
  MaxPauses = 1
PROPERTIES
  WritesProgress
\* The application may never close the connection: it is then quiet for ever.
CHECK_DEADLOCK FALSE
