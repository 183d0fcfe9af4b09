---------------------------- MODULE FlowStreams ----------------------------
(***************************************************************************)
(* The streams of every TCP flow, as the comments of StreamFactory and     *)
(* Stream in capturer/extendedassembly.go promise them: New makes a stream *)
(* for a flow, ReassemblyComplete is called on it one time, and the flow   *)
(* has no second stream before that.  Streams are numbered in the order    *)
(* they are made.                                                          *)
(***************************************************************************)
EXTENDS Naturals

CONSTANT Keys

VARIABLES
  count, \* the streams made so far
  open   \* the streams of each flow that are not complete

vars == <<count, open>>

Init ==
  /\ count = 0
  /\ open = [k \in Keys |-> {}]

New(k) ==
  /\ open[k] = {}
  /\ count' = count + 1
  /\ open' = [open EXCEPT ![k] = {count + 1}]

ReassemblyComplete(k) ==
  /\ open[k] # {}
  /\ open' = [open EXCEPT ![k] = {}]
  /\ UNCHANGED count

Next == \E k \in Keys : New(k) \/ ReassemblyComplete(k)

Spec == Init /\ [][Next]_vars

=============================================================================
