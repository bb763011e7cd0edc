SPECIFICATION FairSpec
CONSTANTS
  poll = poll
  keyboard = keyboard
  led = led
  door = door
  Threads = {poll, keyboard}
  Poller = poll
  Keys = {led}
  KeysOf <- MCOneKey
  Workers = {w1}
  Permits = 2
  MaxTries = 2
  MaxChecks = 3
  MaxCalls = 3
  NoEntry = NoEntry
  NullTid = NullTid
CHECK_DEADLOCK FALSE
INVARIANTS
  PermitsConserved
PROPERTIES
  LostBeyondSurplus
  EveryWriteReported
  PollerResumes
