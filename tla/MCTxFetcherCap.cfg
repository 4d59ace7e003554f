CONSTANTS
  Hash = {h1, h2, h3}
  Cheap = {}
  Peer = {p1}
  NoPeer = NoPeer
  maxTxAnnounces = 2
  maxTxRetrievals = 1
  maxTxUnderpricedSetSize = 1
  MaxBusy = 1
SPECIFICATION Spec
PROPERTY AnnounceCap
CHECK_DEADLOCK FALSE
