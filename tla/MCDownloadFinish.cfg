SPECIFICATION Spec
CONSTANTS
  p1 = p1
  p2 = p2
  Peers = {p1, p2}
  MaxNumber = 3
  MaxCount = 2
  WithBody <- MCWithBody
  WithReceipts <- MCWithReceipts
  Size = 2
  Initial = 1
  maxResultsProcess = 1
  minFails = 1
  Start <- MCStart
INVARIANT FetchersFinish
CHECK_DEADLOCK FALSE
