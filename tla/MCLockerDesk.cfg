SPECIFICATION Spec
CONSTANTS
  p1 = p1
  p2 = p2
  Worker = Worker
  Keyboard = Keyboard
  Blank = Blank
  Junk = Junk
  Units <- MCUnits
  CardUnits <- MCNoCards
  Prescriptions <- MCPrescriptions
  MaxRestarts = 1
  WorkerGoals <- MCGoals
SYMMETRY MCSymmetry
INVARIANTS
  TypeOK
  MemoryAgrees
PROPERTIES
  DepositSafe
  RightDoor
