---------------------------- MODULE MCTcpSequence ----------------------------
(***************************************************************************)
(* The operators of TcpSequence against the positions in the TCP stream    *)
(* that sequence numbers stand for.  A connection expects the byte at      *)
(* position c, a segment of n bytes starts at position p; they are no      *)
(* further apart than the quarter of the sequence space the code allows    *)
(* for.  The behaviours only enumerate the inputs.                         *)
(***************************************************************************)
EXTENDS TcpSequence, FiniteSets

CONSTANT MaxLen \* bound: bytes of a segment

ASSUME MaxLenAssumption == MaxLen \in Nat

VARIABLES c, p, n

Init ==
  /\ c \in SeqSpace .. 2 * SeqSpace - 1
  /\ p \in c - Quarter .. c + Quarter
  /\ n \in 0 .. MaxLen

Next == UNCHANGED <<c, p, n>>

Spec == Init /\ [][Next]_<<c, p, n>>

seq(pos) == pos % SeqSpace

\* c and p are on different sides of the wrap-around.
Apart == Wraps(seq(c), seq(p)) \/ Wraps(seq(p), seq(c))

\* Where it does not wrap, Difference is the distance in the stream; across the
\* wrap-around it falls one short of it, so that it never has the wrong sign.
DistanceButOne ==
  Difference(seq(c), seq(p)) =
    IF ~Apart THEN p - c ELSE IF p > c THEN p - c - 1 ELSE p - c + 1

\* byteSpan sends the bytes of the segment that are not before the expected
\* position, and expects the first byte after all it has sent.
SpanSendsTheRest ==
  LET span == byteSpan(seq(c), seq(p), n)
      sent == {b \in p .. p + n - 1 : b >= c}
  IN  ~Apart =>
        /\ span.len = Cardinality(sent)
        /\ sent = p + span.cut .. p + span.cut + span.len - 1
        /\ span.next = seq(IF p + n > c THEN p + n ELSE c)

\* Across the wrap-around byteSpan still sends every byte that is due, and of
\* those that are not the last one at most.  It expects the first byte after all
\* it has sent, or one of its neighbours: the number may be one too high.
SpanButOne ==
  LET span == byteSpan(seq(c), seq(p), n)
      due  == {b \in p .. p + n - 1 : b >= c}
      sent == p + span.cut .. p + span.cut + span.len - 1
      next == IF p + n > c THEN p + n ELSE c
  IN  /\ due \subseteq sent
      /\ sent \subseteq due \cup {c - 1}
      /\ span.next \in {seq(next - 1), seq(next), seq(next + 1)}

=============================================================================
