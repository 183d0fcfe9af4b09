SPECIFICATION Spec
CONSTANTS
  Streams = {s1, s2}
  Batches <- SomeBatches
  Pages = {q1}
  Drains = {s1, s2}
  Closers = {}
  ReadSizes = {1}
  LossErrors = FALSE
  Capacity = 2
  MaxBatches = 3
PROPERTY ReadsOwnBytes
\* Everybody is done, or a goroutine panicked.
CHECK_DEADLOCK FALSE
