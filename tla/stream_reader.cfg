SPECIFICATION FairSpec
CONSTANTS
  Streams = {s1, s2}
  Batches <- SomeBatches
  Pages = {q1}
  Drains = {s1}
  Closers = {s2}
  ReadSizes = {0, 1}
  LossErrors = TRUE
  Capacity = 1
  MaxBatches = 3
INVARIANT TypeOK
INVARIANT EOFMeansAll
PROPERTY ReadsInOrder
PROPERTY ReaderFinishes
\* Everybody is done, or a goroutine panicked.
CHECK_DEADLOCK FALSE
