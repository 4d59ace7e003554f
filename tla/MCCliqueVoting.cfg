SPECIFICATION Spec
CHECK_DEADLOCK FALSE
CONSTANTS
  Address = {0, 1, 2, 3}
  Zero = 0
  Genesis <- MCGenesis
  Epoch = 5
  Word = 65536
  MaxNumber = 9
INVARIANTS TallyMatchesVotes VotesAreLive RecentsWindow SealAgreesWithApply SomeoneMaySeal OneInTurn EarlyOnly
PROPERTIES MajorityChanges
