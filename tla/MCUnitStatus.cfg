SPECIFICATION FairSpec
CONSTANTS
  c1 = c1
  c2 = c2
  NoCard = NoCard
  Cards <- MCOneCard
  ServerLevels = {2}
INVARIANTS
  TypeOK
  ServerTold
  NoticeAgrees
PROPERTIES
  CardTold
