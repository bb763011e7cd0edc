SPECIFICATION FairSpec
CONSTANTS
  other = other
  Worker = Worker
  Threads <- MCThreads
  Buffers = 2
  Sizes <- MCSizes
  MaxMessages <- MCMaxMessages
  MaxLosses = 1
  MaxPieces = 1
INVARIANTS
  Inv
  MessagesWhole
PROPERTIES
  SendReturns
  WorkerReturns
CHECK_DEADLOCK FALSE
