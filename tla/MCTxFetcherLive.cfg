CONSTANTS
  Hash = {h1}
  Cheap = {h1}
  Peer = {p1, p2}
  NoPeer = NoPeer
  maxTxAnnounces = 2
  maxTxRetrievals = 1
  maxTxUnderpricedSetSize = 1
  MaxBusy = 2
SPECIFICATION FairSpec
PROPERTIES WaitEnds SilentPeerGivenUp
CHECK_DEADLOCK FALSE
