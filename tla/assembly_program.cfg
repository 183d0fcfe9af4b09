SPECIFICATION Spec
CONSTANTS
  SeqSpace = 64
  Keys = {k1}
  Packets <- LargeSegments
  Isn = 0
  PageBytes = 2
  InitialAllocSize = 2
  MaxBufferedPagesPerConnection = 0
  MaxBufferedPagesTotal = 0
  FlushCalls = FALSE
  MaxPackets = 9
  MaxTime = 0
INVARIANT TypeOK
INVARIANT NothingDueIsHeld
INVARIANT NeverPanics
PROPERTY OrderedDelivery
PROPERTY NothingSkipped
PROPERTY EndsAtFin
\* Segments stop arriving at the bound MaxPackets.
CHECK_DEADLOCK FALSE
