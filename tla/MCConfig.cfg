SPECIFICATION Spec
CONSTANTS
  Proxy = {p1, p2}
  Route = {a1, a2}
  Caller = {c1, c2}
  Reader = {u1}
  Accounts = {x, y}
  MaxProbes = 2
  MaxCommits = 2
  NoRoute = NoRoute
  Nobody = Nobody
  p1 = p1  p2 = p2  a1 = a1  a2 = a2  c1 = c1  c2 = c2   u1 = u1  x = x  y = y
INVARIANTS TypeOK RouteMeasured SampleCountedOnce ClearedStaysCleared CacheFromNewestProbe EditSawItsList
PROPERTY NewestWins
SYMMETRY Symmetry
CONSTRAINT OneFence
CHECK_DEADLOCK FALSE
