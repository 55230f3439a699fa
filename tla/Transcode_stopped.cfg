SPECIFICATION Spec
CONSTANTS
  a = a
  b = b
  k1 = k1
  k2 = k2
  Jobs = {a, b}
  Keys = {k1, k2}
  Limit = 2
  Runs = {1, 2}
  Absent = Absent
  Wishes <- BothAlways
  MaxGen = 1
  CacheReaders = {r1, r2}
  CacheWriters = {w1, w2}
  Filters = {f1, f2}
  MaxEntries = 1
  MaxWrites = 2
  RelayTasks = {t1}
  Pushers = {p1, p2}
  RelayClients = {u1, u2}
  Nobody = Nobody
  Watched = {h1, h2}
  MaxRestarts = 2
  Cooldown = 1
  Hour = 4
  Blacklist = 4
  Minute = 1
  GlobalMax = 2
  Patience = 1
INVARIANT
  StoppedStaysStopped
CHECK_DEADLOCK FALSE
