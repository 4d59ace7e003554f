SPECIFICATION SealerSpec
CONSTANTS
  Address = {0, 1, 2}
  Zero = 0
  Genesis <- MCGenesis
  Epoch = 3
  Word = 65536
  MaxNumber = 3
  MaxProposals = 1
INVARIANTS SealedVerifies
