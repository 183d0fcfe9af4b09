SPECIFICATION Spec
CONSTANTS
  Assemblers = {a1}
  Keys = {k1, k2}
  Segments <- AllSegments
  InitialConns = 1
  FlushCalls = TRUE
  NoAssembler = NoAssembler
  MaxCalls = 6
INVARIANT AppropriateStream
INVARIANT NoOrphanStream
INVARIANT PagesReturnHome
PROPERTY OneStreamPerFlow
\* The assemblers stop after MaxCalls calls.
CHECK_DEADLOCK FALSE
