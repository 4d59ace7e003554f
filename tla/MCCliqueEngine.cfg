SPECIFICATION Spec
CONSTANTS
  Address = {0, 1, 2}
  Zero = 0
  GenesisSigners = {1, 2}
  Epoch = 3
  Word = 65536
  MaxNumber = 5
  checkpointInterval = 4
  FullImmutabilityThreshold = 1
  inmemorySnapshots = 1
  Ballots <- MCBallots
  MaxResets = 1
INVARIANTS SnapshotsAgree 
