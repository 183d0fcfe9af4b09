SPECIFICATION FairSpec
CONSTANTS
  Assemblers = {a1, a2}
  Keys = {k1, k2}
  Segments <- AllSegments
  InitialConns = 1
  FlushCalls = TRUE
  NoAssembler = NoAssembler
  MaxCalls = 3
INVARIANT TypeOK
INVARIANT PoolConsistent
INVARIANT SerialStreams
INVARIANT OnlyOpenStreams
PROPERTY CallsReturn
\* The assemblers stop after MaxCalls calls.
CHECK_DEADLOCK FALSE
