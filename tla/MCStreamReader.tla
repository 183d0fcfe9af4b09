--------------------------- MODULE MCStreamReader ---------------------------
(***************************************************************************)
(* StreamReader for TLC: the batches an assembler sends.                   *)
(***************************************************************************)
EXTENDS StreamReader

Data(at, len) == [skip |-> FALSE, at |-> at, len |-> len, page |-> NoPage]
Gap(at, len) == [skip |-> TRUE, at |-> at, len |-> len, page |-> NoPage]
Buffered(c) == [c EXCEPT !.page = CHOOSE q \in Pages : TRUE]

\* A SYN or FIN without bytes; and bytes for more than one Read, some of them in a
\* page, with a gap before each and an empty chunk behind a gap in the middle.
SomeBatches == {<<Data(0, 0)>>, <<Gap(1, 1), Gap(3, 0), Buffered(Gap(4, 2))>>}
=============================================================================
