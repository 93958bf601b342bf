SPECIFICATION FairSpec
CONSTANTS
  w1 = w1
  w2 = w2
  s1 = s1
  App = app
  Workers <- TwoWorkers
  Senders <- OneSender
  ReadAhead = 1
  MaxOutgoing = 1
  ZeroReads = TRUE
  SyncIo = TRUE
  Kinds = {"data"}
  CallbackResults = {"ok", "err"}
  CloseCodes = {"ok"}
  PeerEnds = {"reset"}
  MaxSends = 1
  StreamChunks = 2
  Arrivals = 0
  Pausable = {}
  MaxPauses = 0
INVARIANTS
  RefsExact
  EndNotifiedOnce
PROPERTIES
  ClosedIsDestroyed
\* The application may never close the connection: it is then quiet for ever.
CHECK_DEADLOCK FALSE
