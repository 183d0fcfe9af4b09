----------------------------- MODULE TcpSequence -----------------------------
(***************************************************************************)
(* TCP sequence-number arithmetic of capturer/extendedassembly.go: the     *)
(* Sequence type with Difference and Add, and byteSpan, which trims a      *)
(* segment against the sequence number the connection expects next.        *)
(*                                                                         *)
(* SeqSpace is the number of sequence numbers, 2^32 in the code.  Nothing  *)
(* else about it matters here than that masking with uint32Max is reducing *)
(* modulo SeqSpace, so a small power of two shows every wrap-around case.  *)
(***************************************************************************)
EXTENDS Integers

CONSTANT SeqSpace

ASSUME SeqSpaceAssumption == SeqSpace \in Nat /\ SeqSpace >= 8

invalidSequence == -1
uint32Max == SeqSpace - 1
Sequence == 0 .. uint32Max

Quarter == uint32Max \div 4

\* s is in the last quarter of the sequence space and t in the first one.
Wraps(s, t) == s > uint32Max - Quarter /\ t < Quarter

\* Mutants: the roll-over handled in one direction only; a segment that was
\* received before sent again from its start.
DifferenceOneWay(s, t) == IF Wraps(s, t) THEN t + uint32Max - s ELSE t - s

\* How far t lies after s (negative: before s), with the code's own constant.
Difference(s, t) ==
  IF Wraps(s, t) THEN t + uint32Max - s
  ELSE IF Wraps(t, s) THEN t - (s + uint32Max)
  ELSE t - s

Add(s, n) == (s + n) % SeqSpace

byteSpanUntrimmed(expected, received, len) ==
  [cut |-> 0, len |-> len, next |-> Add(received, len)]

byteSpanLosing(expected, received, len) ==
  LET span == Difference(received, expected)
  IN  IF span <= 0
      THEN [cut |-> 0, len |-> len, next |-> Add(received, len)]
      ELSE [cut |-> span + 1, len |-> len - span - 1, next |-> Add(expected, len - span)]

(***************************************************************************)
(* The bytes [received, received+len) as seen by a connection that expects *)
(* sequence number expected: how many are cut off the front, how many are  *)
(* left, and the sequence number expected afterwards.  The nil slice is a  *)
(* result of length 0 that starts where the connection already is.         *)
(***************************************************************************)
byteSpan(expected, received, len) ==
  LET span == Difference(received, expected)
  IN  IF expected = invalidSequence \/ span <= 0
      THEN [cut |-> 0, len |-> len, next |-> Add(received, len)]
      ELSE IF len < span
      THEN [cut |-> span, len |-> 0, next |-> expected]
      ELSE [cut |-> span, len |-> len - span, next |-> Add(expected, len - span)]

=============================================================================
