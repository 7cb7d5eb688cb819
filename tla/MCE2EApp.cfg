\* Four blocks, a snapshot every second height in two chunks, three retained
\* blocks (so the first commit computes a negative retain height), 5-bit
\* arithmetic; the node may abandon a snapshot it is restoring.
CONSTANTS
  k1 = k1
  k2 = k2
  a = a
  b = b
  none = none
  Keys = {k1, k2}
  Vals = {a, b}
  NoVal = none
  Txs <- MCTxs
  MaxHeight = 4
  SnapshotInterval = 2
  RetainBlocks = 3
  NChunks = 2
  Width = 5
  AllowAbort = TRUE
SPECIFICATION Spec
\* A node stops when the chain is exhausted.
CHECK_DEADLOCK FALSE
INVARIANTS
  TypeOK
  ChainConsistent
  RetainHeightKeepsRetainBlocks
PROPERTIES
  StateSyncEnds
