SPECIFICATION FairSpec
CONSTANTS
  c1 = c1
  c2 = c2
  t1 = t1
  NoCard = NoCard
  Cards <- MCOneCard
  OtherTags <- MCOtherTags
  Leds <- MCNoLeds
  LockTicks = 2
  LostLimit = 1
  Idle <- MCIdle
INVARIANTS
  TypeOK
  CoilBounded
  TornIsRepeated
  CardSettled
PROPERTIES
  WindowKept
  IncoherentOnlyInside
  CoilReleased
  CaptureSent
