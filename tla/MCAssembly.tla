----------------------------- MODULE MCAssembly -----------------------------
(***************************************************************************)
(* Segments for the runs of Assembly.  The stream is a SYN at position 0,  *)
(* bytes at positions 1 to 4 and a FIN at position 5; the sender may       *)
(* retransmit it cut in other ways.                                        *)
(***************************************************************************)
EXTENDS Assembly

Syn == [pos |-> 0, len |-> 0, syn |-> TRUE, fin |-> FALSE]
Data(pos, len) == [pos |-> pos, len |-> len, syn |-> FALSE, fin |-> FALSE]
Fin(pos, len) == [pos |-> pos, len |-> len, syn |-> FALSE, fin |-> TRUE]

\* With a segment of two pages, and one that starts in the middle of it.
LargeSegments == {Syn, Data(1, 1), Data(2, 3), Data(3, 1), Data(4, 1), Fin(3, 2), Fin(5, 0)}

FewSegments == {Syn, Data(1, 1), Data(2, 1), Data(3, 1), Fin(4, 0)}

\* Data around the end of the sequence space when Isn = SeqSpace - 3.
Wrapping == {Syn, Data(1, 2), Data(2, 3), Data(3, 1), Data(4, 1)}
=============================================================================
