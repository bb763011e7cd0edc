SPECIFICATION FairSpec
CONSTANTS
  c1 = c1
  c2 = c2
  NoCard = NoCard
  Cards <- MCOneCard
  ServerLevels <- MCNoLevels
PROPERTIES
  ClosedDoorNoticed
