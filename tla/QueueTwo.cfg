SPECIFICATION FairSpec
CONSTANTS
  Row = {r1, r2}
  Poison = {}
  Worker = {w1}
  Producer = {p1, p2}
  Batch = 2
  MaxEvents = 3
  MaxFailures = 1
CHECK_DEADLOCK FALSE
INVARIANTS
  SentOnceUnlessFailed
PROPERTIES
  EventsGetOut
