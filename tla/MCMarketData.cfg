SPECIFICATION Spec
CONSTANTS
  Caches = {"api", "other"}
  Keys = {"stock-snapshot", "index-snapshots"}
  TTL = 1
  MaxTime = 1
  Threads = {"t1", "t2", "t3"}
  Home <- MCHome
  Requests <- MCRequests
  Left <- MCLeft
INVARIANTS
  CachedWithinTTL
  ServedValid
  NoOutageOnceLoaded
  SharedUnlessLatched
