SPECIFICATION FairSpec
CONSTANTS
  p1 = p1
  p2 = p2
  k1 = k1
  k2 = k2
  NoRow = NoRow
  NoSession = NoSession
  Procs = {p1, p2}
  Pools = {k1, k2}
  MaxConns = 2
  Versions = {1, 2, 3}
  Checksums = {"a", "b"}
  Dirs <- AllDirs
  Deployments <- AllDeployments
INVARIANTS AppliedOnce AppliedInOrder OkMeansApplied OneSessionExcludes
PROPERTIES EveryCallReturns
CHECK_DEADLOCK FALSE
