SPECIFICATION MCSpec
CONSTANTS
  d1 = d1  d2 = d2  w1 = w1  w2 = w2
  all = all  net = net  host = host  other = other
  v0 = v0  v1 = v1  o1 = o1  o2 = o2  as1 = as1
  Daemon = {d1, d2}
  Worker = {w1, w2}
  AutoInstall = TRUE
  AutoUpgrade = TRUE
  Latest = 8
  Repeatable = {6}
  FirstHstore = 5
  FirstSchemas <- MCFirstSchemas
  MaxDepth = 9
  MaxStarts = 3
  MaxCrashes = 1
  MaxLosses = 2
  Prefix = {all, net, host, other}
  Host = {host}
  Assignment = {net, other}
  IPv4 = {all, net, host, other}
  Everything = {all}
  Below <- MCBelow
  Vrf = {v0, v1}
  DefaultVrf = v0
  VrfOf <- MCVrfOf
  Pool = {o1, o2}
  Asn = {as1}
  NoPool = NoPool
  Same = Same
  Requests <- MCRequests
  FirstRows <- MCFirstRows
  MaxRequests = 2
CHECK_DEADLOCK FALSE
ACTION_CONSTRAINT InOrder
INVARIANTS
  VersionIsHonest
  ConnectedFindsSchema
  StartsSucceed
  AnsweredIsLogged
  
  
PROPERTIES
  StartsEnd
