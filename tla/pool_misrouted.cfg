SPECIFICATION Spec
CONSTANTS
  Assemblers = {a1, a2}
  Keys = {k1, k2}
  Segments <- AllSegments
  InitialConns = 1
  FlushCalls = FALSE
  NoAssembler = NoAssembler
  MaxCalls = 4
INVARIANT AppropriateStream
SYMMETRY AssemblerSymmetry
\* The assemblers stop after MaxCalls calls.
CHECK_DEADLOCK FALSE
