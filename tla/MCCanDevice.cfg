SPECIFICATION Spec
CONSTANTS
  poll = poll
  keyboard = keyboard
  led = led
  door = door
  Threads = {poll, keyboard}
  Poller = poll
  Keys = {led, door}
  KeysOf <- MCKeysOf
  Workers = {w1, w2}
  Permits = 3
  MaxTries = 2
  MaxChecks = 1
  MaxCalls = 3
  NoEntry = NoEntry
  NullTid = NullTid
SYMMETRY MCSymmetry
INVARIANTS
  TypeOK
  EntryOwned
  SoloKeyExclusive
  CleanAck
  GoneAfterTimeout
