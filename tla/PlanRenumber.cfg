SPECIFICATION Spec
CONSTANTS
  Prefix <- PathPrefixes
  Covers <- MCCovers
  MaskLen <- MCMaskLen
  Family <- MCFamily
  Vrf <- MCVrf
  MaxLen <- MCMaxLen
  Width4 = 3
  Width6 = 4
  Tag = {}
  Node = {}
  NoNode = NoNode
  Pool = {}
  NoPool = NoPool
  DriftBound = 0
  MaxRemovals = 0
INVARIANTS
  UsedCorrect
  VrfAddressesCorrect
