SPECIFICATION FairSpec
CONSTANTS
  Width = 2
  MaxRows = 2
  MaxSearches = 2
  Wanted <- SmallRequests
  MaxChanges = 1
INVARIANTS
  SearchTypeOK
  FoundAvoidsSteadyRows
  NothingPassedOver
  PoolAnswersDisjoint
PROPERTIES
  EveryCallReturns
