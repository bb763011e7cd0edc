SPECIFICATION Spec
CONSTANTS
  s1 = s1
  s2 = s2
  Senders <- MCSenders
  Poller = Poller
  Nobody = Nobody
  QueueSize = 2
  MaxFrames = 2
  MaxTokens = 3
  MaxErrors = 2
INVARIANTS
  TypeOK
  BusyIsUnderway
  ExactlyOnce
