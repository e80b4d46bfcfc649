CONSTANTS
  f1 = f1
  f2 = f2
  f3 = f3
  g = g
  b1 = b1
  b2 = b2
  x = x
  NoBlock = NoBlock
  BlkFiles <- MCBlkFiles
  FileBlocks <- MCFileBlocks
  Headers <- MCHeaders
  Corrupt = {}
  Indexers = {i1, i2, i3}
  MaxRuns = 3
SPECIFICATION Spec
INVARIANT TypeOK
INVARIANT RowsWrittenOnce
INVARIANT SentinelCovered
INVARIANT CompleteOnSuccess
PROPERTY RunEnds
PROPERTY BulkIndexRefined
CHECK_DEADLOCK FALSE
