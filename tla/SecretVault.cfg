SPECIFICATION Spec
CONSTANTS
  None = None
  b1 = b1
  b2 = b2
  empty = empty
  large = large
  small = small
  Brokers <- MCBrokers
  Snapshots <- MCSnapshots
  Empty = empty
  Chunks <- MCChunks
  MaxChunks = 2
  Legacies <- MCLegacies
  MaxGenerations = 5
INVARIANTS
  SnapshotIntact
  NoOrphans
PROPERTIES
  ImplementsRegister
SYMMETRY Symmetry
CHECK_DEADLOCK FALSE
