SPECIFICATION FairSpec
CONSTANTS
  FirstConn = c1
  c1 = c1
  c2 = c2
  d1 = d1
  d2 = d2
  Conns = {c1, c2}
  Parsers = {c1, c2}
  Decoders = {d1, d2}
  Nobody = Nobody
  Streams <- AllStreams
  MaxBytes <- FewBytes
  Registries <- SomeRegistries
INVARIANT TypeOK
INVARIANT NeverPanics
INVARIANT SeenFromTheStart
PROPERTY ParsedFromTheStart
PROPERTY ParseReturns
\* A quiet network leaves goroutines waiting.
CHECK_DEADLOCK FALSE
