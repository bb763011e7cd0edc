SPECIFICATION Spec
CONSTANTS
  p1 = p1
  p2 = p2
  Worker = Worker
  Keyboard = Keyboard
  Blank = Blank
  Junk = Junk
  Units <- MCUnits
  CardUnits <- MCCardUnits
  Prescriptions <- MCPrescriptions
  MaxRestarts = 1
  WorkerGoals <- MCNoGoals
SYMMETRY MCSymmetry
PROPERTIES
  CardsSafe
