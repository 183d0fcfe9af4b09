SPECIFICATION FairSpec
CONSTANTS
  SeqSpace = 64
  Keys = {k1, k2}
  Packets <- FewSegments
  Isn = 0
  PageBytes = 2
  InitialAllocSize = 2
  MaxBufferedPagesPerConnection = 3
  MaxBufferedPagesTotal = 3
  FlushCalls = TRUE
  MaxPackets = 5
  MaxTime = 1
INVARIANT PageAccounting
INVARIANT BufferLimits
PROPERTY FlushKeepsPromise
PROPERTY CallsShrink
PROPERTY CallsReturn
