SPECIFICATION Spec
CONSTANTS
  s1 = s1
  s2 = s2
  p1 = p1
  NumUnits = 2
  Settings <- MCSettings
  DefaultSetting = s1
  Prescriptions <- MCPrescriptions
  Identifier = Identifier
  Mac = Mac
  Some = Some
  Zero = Zero
  Blank = Blank
  Junk = Junk
  Config = Config
  Desk = Desk
  MaxWrites <- MCMaxWrites
  MaxRestarts = 2
INVARIANTS
  BackupComplete
  LossBounded
  Inv
CHECK_DEADLOCK FALSE
