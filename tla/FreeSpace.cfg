SPECIFICATION Spec
CONSTANTS
  Width = 4
  MaxRows = 3
INVARIANTS
  FreeCidrsCorrect
  CountCoversFree
