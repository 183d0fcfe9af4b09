SPECIFICATION OperatorsSpec
CONSTANTS
  SeqSpace = 64
  MaxLen = 8
  Addrs = {a1, a2, a3}
  MaxAddrs = 2
  MaxBytes = 8
  BufferSize = 3
INVARIANT DistanceButOne
INVARIANT SpanSendsTheRest
INVARIANT SpanButOne
INVARIANT DirectionsAgree
INVARIANT LocateFindsStart
