--------------------------- MODULE StreamContract ---------------------------
(***************************************************************************)
(* What the assembler promises to a Stream (the interface comment of       *)
(* capturer/extendedassembly.go): a stream is created, receives its bytes  *)
(* in the order they have in the TCP stream, each at most once, and is     *)
(* completed one time.                                                     *)
(*                                                                         *)
(* A chunk [at, len, ...] is one Reassembly; `at` is the position of its   *)
(* first byte in the TCP stream.  streams[k] is the latest stream created  *)
(* for the key k:                                                          *)
(*   state  "none" before the first one, then "open", then "complete";     *)
(*   next   the position after the last byte received, Unknown before;     *)
(*   batch  the argument of the latest Reassembled call;                   *)
(*   ended  whether some chunk carried the End flag.                       *)
(***************************************************************************)
EXTENDS Integers, Sequences

CONSTANT Keys

VARIABLE streams

Unknown == -1

ChunkEnd(c) == c.at + c.len

\* The chunks of b lie one behind the other, none before position n.
InOrder(n, b) ==
  \A i \in DOMAIN b : b[i].at >= (IF i = 1 THEN n ELSE ChunkEnd(b[i - 1]))

NewStream == [state |-> "open", next |-> Unknown, batch |-> <<>>, ended |-> FALSE]

\* The stream s after it was handed the batch b.
Received(s, b) ==
  [s EXCEPT !.next = ChunkEnd(b[Len(b)]), !.batch = b,
            !.ended = @ \/ \E i \in DOMAIN b : b[i].end]

Completed(s) == [s EXCEPT !.state = "complete", !.batch = <<>>]

-----------------------------------------------------------------------------
Init == streams = [k \in Keys |-> [NewStream EXCEPT !.state = "none"]]

New(k) ==
  /\ streams[k].state # "open"
  /\ streams' = [streams EXCEPT ![k] = NewStream]

Reassembled(k) ==
  LET b == streams'[k].batch
  IN  /\ streams[k].state = "open"
      /\ b # <<>>
      /\ InOrder(streams[k].next, b)
      /\ streams' = [streams EXCEPT ![k] = Received(@, b)]

ReassemblyComplete(k) ==
  /\ streams[k].state = "open"
  /\ streams' = [streams EXCEPT ![k] = Completed(@)]

Next == \E k \in Keys : New(k) \/ Reassembled(k) \/ ReassemblyComplete(k)

Spec == Init /\ [][Next]_streams

=============================================================================
