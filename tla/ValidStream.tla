----------------------------- MODULE ValidStream -----------------------------
(***************************************************************************)
(* What a decoder's Parse is promised of a validated stream: the invalid   *)
(* bytes at its start are discarded once, before anything is read, and     *)
(* Read then returns the bytes that follow in their order, each one time.  *)
(* Bytes are their positions in the stream, from 1.                        *)
(***************************************************************************)
EXTENDS Integers, Sequences

CONSTANT Streams

VARIABLES
  start, \* number of invalid bytes discarded from each stream
  out    \* the bytes of each stream returned so far

Init ==
  /\ start = [x \in Streams |-> 0]
  /\ out = [x \in Streams |-> <<>>]

Discard(x) ==
  /\ start[x] = 0
  /\ out[x] = <<>>
  /\ start' = [start EXCEPT ![x] = start'[x]]
  /\ UNCHANGED out

\* The n bytes that follow those returned.
Following(x, n) == [i \in 1 .. n |-> start[x] + Len(out[x]) + i]

Give(x) ==
  /\ out' = [out EXCEPT ![x] = @ \o Following(x, Len(out'[x]) - Len(@))]
  /\ UNCHANGED start

Next == \E x \in Streams : Discard(x) \/ Give(x)

Spec == Init /\ [][Next]_<<start, out>>
=============================================================================
