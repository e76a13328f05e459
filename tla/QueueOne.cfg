SPECIFICATION Spec
CONSTANTS
  Row = {r1, r2, r3}
  Poison = {r3}
  Worker = {w1, w2}
  Producer = {p1}
  Batch = 2
  MaxEvents = 4
  MaxFailures = 2
CHECK_DEADLOCK FALSE
SYMMETRY Symmetry
INVARIANTS
  QueueTypeOK
  ProcessedWasAttempted
  
