SPECIFICATION FairSpec
CONSTANTS
  p1 = p1
  p2 = p2
  Peers = {p1, p2}
  MaxNumber = 2
  MaxCount = 2
  WithBody <- MCLiveBody
  WithReceipts <- MCWithReceipts
  Size = 2
  Initial = 1
  maxResultsProcess = 1
  minFails = 0
  Start <- MCLive
PROPERTIES Progress ProcessorEnds
CHECK_DEADLOCK FALSE
