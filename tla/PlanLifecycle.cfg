SPECIFICATION LifeSpec
CONSTANTS
  Prefix <- LifecyclePrefixes
  Covers <- Covering
  MaskLen <- LenOf
  Family <- FamilyOf
  Vrf <- VrfOf
  MaxLen <- Width
  Tag = {}
  Node = {}
  NoNode = NoNode
  Pool = {p1}
  NoPool = NoPool
  DefaultVrf = "vrf0"
  MaxRemovals = 1
INVARIANTS
  
  PoolMembersCorrect
  VrfAddressesCorrect
VIEW PoolUsedAside
