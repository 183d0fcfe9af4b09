SPECIFICATION Spec
CONSTANTS
  SeqSpace = 32
  Keys = {k1}
  Packets <- Wrapping
  Isn = 29
  PageBytes = 2
  InitialAllocSize = 2
  MaxBufferedPagesPerConnection = 0
  MaxBufferedPagesTotal = 0
  FlushCalls = FALSE
  MaxPackets = 5
  MaxTime = 0
PROPERTY OrderedDelivery
\* Segments stop arriving at the bound MaxPackets.
CHECK_DEADLOCK FALSE
