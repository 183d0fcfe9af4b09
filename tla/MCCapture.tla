------------------------------ MODULE MCCapture ------------------------------
(***************************************************************************)
(* Capture for TLC: a device that listens on a1 and connects to a2, that   *)
(* later listens on both, or on none, and packets of both addresses.       *)
(***************************************************************************)
EXTENDS Capture

CONSTANTS a1, a2

SomeConfs ==
  {[listen |-> {a1}, connect |-> {a2}], [listen |-> {a1, a2}, connect |-> {}],
   [listen |-> {}, connect |-> {}]}

TwoPackets == {[src |-> a1, dst |-> "elsewhere"], [src |-> "elsewhere", dst |-> a2]}
=============================================================================
