SPECIFICATION MCSpec
CONSTANTS
  root = root  net = net  near = near  h1 = h1  h2 = h2  other = other
  r1 = r1  r2 = r2  r3 = r3
  plain = plain  hasX = hasX  hasY = hasY  tagged = tagged  inherits = inherits  typed = typed
  Rows <- MCRows
  Within <- MCWithin
  Host = {h1, h2}
  NetOf <- MCNetOf
  IsInside <- MCIsInside
  Attributes <- MCAttributes
  Valid <- MCValid
  Columns <- MCColumns
  Says <- MCSays
  None = None
  Everything = Everything
  Contents <- MCContents
  Tables = {"prefix", "vrf", "pool", "asn"}
  Lines <- MCLines
  Clients <- MCClients
  FirstLimit = 2
  NextLimit = 3
  MaxChanges = 2
CHECK_DEADLOCK FALSE
ACTION_CONSTRAINT Calm
INVARIANTS
  PagesAgree
  FindsMatches
  NothingMissed
