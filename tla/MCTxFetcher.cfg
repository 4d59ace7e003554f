CONSTANTS
  Hash = {h1, h2}
  Cheap = {h1, h2}
  Peer = {p1, p2}
  NoPeer = NoPeer
  maxTxAnnounces = 2
  maxTxRetrievals = 2
  maxTxUnderpricedSetSize = 1
  MaxBusy = 1
SPECIFICATION Spec
SYMMETRY Symmetry
INVARIANTS OneStage NoPanic FetchingMatchesRequests TrackersAgree TimersArmed IdleMeansDrained
PROPERTIES TimeoutServesIdle
CHECK_DEADLOCK FALSE
