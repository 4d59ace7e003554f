SPECIFICATION FairSpec
CONSTANTS
  Block <- MCBlock
  genesis <- MCgenesis
  NoBlock = NoBlock
  number <- MCnumber
  Anc <- MCAnc
  td <- MCtd
  MaxNumber = 3
  Tables = 2
  Bodies = 2
  threshold = 1
  freezerBatchLimit = 2
  MaxFaults = 1
  CrashInTruncate = FALSE
INVARIANTS NothingMissing   StartsUp ReaderFinds NoOrphans
PROPERTIES EventuallyFrozen 
CHECK_DEADLOCK FALSE
