----------------------------- MODULE MCOperators -----------------------------
(***************************************************************************)
(* The algorithms of TcpSequence, Addresses and HttpDecoder against        *)
(* definitions of what they should compute, for all inputs of some size.   *)
(* A behaviour is an input of one of the three.                            *)
(***************************************************************************)
EXTENDS MCTcpSequence, HttpDecoder, FiniteSetsExt

CONSTANTS
  Addrs,
  MaxAddrs, \* bound: addresses of a capture
  MaxBytes  \* bound: bytes of a stream

ASSUME AddrsAssumption == Addrs # {} /\ MaxAddrs \in Nat

ASSUME BytesAssumption == MaxBytes \in Nat

VARIABLES
  flow, \* the arguments of getInfo
  b     \* the bytes of a stream

vars == <<c, p, n, flow, b>>

A == INSTANCE Addresses

Flow ==
  [src : Addrs, dst : Addrs, addrs : UNION {[1 .. k -> Addrs] : k \in 0 .. MaxAddrs},
   within : {w \in [Addrs -> SUBSET Addrs] : \A a \in Addrs : a \in w[a]}]

AnyFlow == CHOOSE f \in Flow : f.addrs = <<>>

OperatorsInit ==
  \/ Init /\ flow = AnyFlow /\ b = <<>>
  \/ c = 0 /\ p = 0 /\ n = 0 /\ flow \in {f \in Flow : f.src # f.dst} /\ b = <<>>
  \/ c = 0 /\ p = 0 /\ n = 0 /\ flow = AnyFlow /\ b \in UNION {[1 .. k -> Bytes] : k \in 1 .. MaxBytes}

OperatorsSpec == OperatorsInit /\ [][UNCHANGED vars]_vars

\* The two flows of a connection are put together: getInfo finds the same
\* client and server for both and different directions, whichever of the
\* capture's addresses they match as substrings, unless one of these contains
\* both ends.
DirectionsAgree ==
  LET to   == A!getInfo(flow.src, flow.dst, flow.addrs, flow.within)
      from == A!getInfo(flow.dst, flow.src, flow.addrs, flow.within)
      both == flow.within[flow.src] \cap flow.within[flow.dst]
  IN  flow.src # flow.dst /\ (\A i \in DOMAIN flow.addrs : flow.addrs[i] \notin both) =>
        /\ to.conn = from.conn
        /\ to.conn = A!NoEnds \/ to.type # from.type

\* The ends of lines as the client's method cuts them, and
\* whether each line up to e fits in the buffer.
LineEnds == {e \in DOMAIN b : b[e] = "cr"}

AllFit(e) ==
  \A i \in {0} \cup {d \in LineEnds : d < e} : \E f \in LineEnds : f \in i + 1 .. i + BufferSize

\* The client's method finds a start if and only if there is a first line, with
\* its end, and no line up to there is longer than the buffer: what was not
\* found is not there, wherever the lines are cut and however many come before.
LocateFindsStart ==
  b # <<>> =>
    (LocateToValidStartInC2SStream(b) # NotFound <=>
       \E e \in LineEnds : AllFit(e) /\ \E i \in 1 .. e - 1 : b[i] = "start")

=============================================================================
