SPECIFICATION FairSpec
CONSTANTS
  Block <- MCBlock
  genesis <- MCgenesis
  NoBlock = NoBlock
  number <- MCnumber
  Anc <- MCAnc
  td <- MCtd
  MaxNumber = 3
  Tables = 2
  Bodies = 2
  threshold = 1
  freezerBatchLimit = 2
  MaxFaults = 1
  CrashInTruncate = TRUE
INVARIANT NoExtraAncients
CHECK_DEADLOCK FALSE
