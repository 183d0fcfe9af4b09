---------------------------- MODULE MCStreamPool ----------------------------
(***************************************************************************)
(* StreamPool for TLC: the segments that may arrive, and the symmetry of   *)
(* assemblers, which run the same code.                                    *)
(***************************************************************************)
EXTENDS StreamPool, TLC

AllSegments == {s \in Segment : s.creates \/ s.ends}

AssemblerSymmetry == Permutations(Assemblers)
=============================================================================
