SPECIFICATION DisplaySpec
CONSTANTS
  v1 = v1
  v2 = v2
  r1 = r1
  r2 = r2
  e1 = e1
  s1 = s1
  s2 = s2
  Nil = Nil
  Reviews <- MCReviews
  Readers <- MCReaders
  TargetsOf <- MCTargetsOf
  Presented <- MCPresented
  Entries <- MCEntries
  FakeOf <- MCFakeOf
  Secrets <- MCSecrets
  NodeOf <- MCNodeOf
  Snapshots <- MCSnapshots
  Lifetime = 2
  Deadline = 1
  CacheLimit = 2
  MaxTargets = 2
  Concurrent = 1
  Slots = 1
  MaxNow = 2
  MaxChanges = 1
INVARIANTS
  DisplayIsTrue
SYMMETRY Symmetry
CHECK_DEADLOCK FALSE
