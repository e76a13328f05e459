SPECIFICATION SpecStable
CONSTANTS
  Prefix <- BranchPrefixes
  Covers <- MCCovers
  MaskLen <- MCMaskLen
  Family <- MCFamily
  Vrf <- MCVrf
  MaxLen <- MCMaxLen
  Width4 = 3
  Width6 = 4
  Tag = {t1}
  Node = {}
  NoNode = NoNode
  Pool = {}
  NoPool = NoPool
  DriftBound = 0
  MaxRemovals = 1
INVARIANTS
  NestingCorrect
  HostsUnderAssignment
  IndentCorrect
  ChildrenCorrect
  UsedCorrect
  InheritedTagsCorrect
  DisplayCorrect
PROPERTIES
  ImplementsRegistry
