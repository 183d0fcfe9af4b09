SPECIFICATION FairSpec
CONSTANTS
  a1 = a1
  a2 = a2
  Devices = {eth}
  Addrs = {a1, a2}
  Packets <- TwoPackets
  Confs <- SomeConfs
  SetStatuses = {"Running", "Stoppted"}
  ChannelSize = 1
  MaxMessages = 4
  MaxFailures = 1
INVARIANT TypeOK
INVARIANT OneLoopEach
INVARIANT ListensToConf
PROPERTY PacketsAsked
PROPERTY RunningStarts
\* The messages end, and packets may not come.
CHECK_DEADLOCK FALSE
