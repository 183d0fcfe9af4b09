-------------------------- MODULE MCServerEndPoint --------------------------
(***************************************************************************)
(* ServerEndPoint for TLC: the streams, and decoders that may be           *)
(* registered.                                                             *)
(***************************************************************************)
EXTENDS ServerEndPoint, TLC

CONSTANTS c1, c2, d1, d2

AllStreams == Conns \X Directions

\* Two bytes from the first client, one from the second, one back to the first.
FewBytes ==
  [x \in AllStreams |-> CASE x = <<c1, "c2s">> -> 2
                         [] x = <<c2, "s2c">> -> 0
                         [] OTHER -> 1]

Each(n) == [d \in Directions |-> n]

\* The HTTP decoder: ValidateType 1, here one invalid byte and then a line of
\* one byte.
Http == [type |-> 1, after |-> Each(2), count |-> Each(1)]

\* A decoder that recognises the server's first byte, one that wants both
\* directions, one that is never satisfied, one with an unsupported type.
Server == [type |-> 2, after |-> Each(1), count |-> Each(0)]
Both == [type |-> 3, after |-> Each(1), count |-> [c2s |-> 1, s2c |-> 0]]
Deaf == [type |-> 1, after |-> Each(9), count |-> Each(0)]
Never == [type |-> 0, after |-> Each(1), count |-> Each(0)]

Pair(a, b) == (d1 :> a) @@ (d2 :> b)

\* Never with two that may find one stream valid, see Rivals.
SomeRegistries == {Pair(Http, Server), Pair(Http, Deaf), Pair(Both, Never)}

\* What the program registers.
HttpOnly == {Pair(Http, Never)}
=============================================================================
