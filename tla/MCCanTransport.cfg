SPECIFICATION FairSpec
CONSTANTS
  u1 = u1
  u2 = u2
  Units <- MCUnits
  Lengths <- MCLengths
  QueueSize = 2
  MaxSent <- MCMaxSent
  MaxFaults <- MCMaxFaults
  NoFrame = NoFrame
  NoEntry = NoEntry
INVARIANTS
  TypeOK
  StaleEntryEnds
PROPERTIES
  ImplementsChannel
  BroadcastArrives
