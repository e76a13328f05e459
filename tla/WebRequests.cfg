SPECIFICATION MCSpec
CONSTANTS
  p1 = p1
  n1 = n1
  t1 = t1
  t2 = t2
  b1 = b1
  b2 = b2
  web = web
  ann = ann
  pw = pw
  wrong = wrong
  x1 = x1
  o1 = o1
  v1 = v1
  Worker = {p1, n1}
  Process = {p1}
  Nipapd = {n1}
  Local = {web}
  Remote = {ann}
  Password = {pw, wrong}
  Browser = {b1, b2}
  Thread = {t1, t2}
  ProcessOf <- MCProcessOf
  Prefix = {x1}
  Pool = {o1}
  Vrf = {v1}
  VrfOf <- MCVrfOf
  Text = {"a", "b"}
  FirstRows <- MCRows
  FirstSessions <- MCSessions
  FirstAccounts <- MCAccounts
  LocalAccounts <- MCLocalAccounts
  RemoteAccounts <- MCRemoteAccounts
  Tokens <- MCTokens
  RoGroup = TRUE
  RwGroup = TRUE
  NoAccount = NoAccount
  Refused = Refused
  Raised = Raised
  NotYet = NotYet
  Unbound = Unbound
  NoToken = NoToken
  NoUser = NoUser
  NoOptions = NoOptions
  NoPool = NoPool
  Gone = Gone
  Unborn = Unborn
  Keep = Keep
  NoSession = NoSession
  WebUser = web
  WebPassword = pw
  Timeout = 1
  MaxTime = 2
  MaxChanges = 1
  MaxRequests = 2
  MaxLogins = 3
  MaxOthers = 2
SYMMETRY Symmetry
INVARIANTS
  
  
  LogNamesTheUser
  
  
CHECK_DEADLOCK FALSE
