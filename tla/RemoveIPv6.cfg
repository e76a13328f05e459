SPECIFICATION SpecStable
CONSTANTS
  Prefix <- TwoFamilyPrefixes
  Covers <- MCCovers
  MaskLen <- MCMaskLen
  Family <- MCFamily
  Vrf <- MCVrf
  MaxLen <- MCMaxLen
  Width4 = 2
  Width6 = 3
  Tag = {}
  Node = {}
  NoNode = NoNode
  Pool = {}
  NoPool = NoPool
  DriftBound = 0
  MaxRemovals = 0
INVARIANTS
  UsedCorrect
