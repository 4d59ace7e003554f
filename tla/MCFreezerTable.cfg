SPECIFICATION FairSpec
CONSTANTS
  Blob <- MCBlob
  maxFileSize = 2
  MaxItems = 2
  ClosedFilesDurable = TRUE
INVARIANTS  AlwaysOpens
PROPERTIES  RepairEnds
CHECK_DEADLOCK FALSE
