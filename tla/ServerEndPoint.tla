--------------------------- MODULE ServerEndPoint ---------------------------
(***************************************************************************)
(* A ServerEndPoint: the connections of one server address.  The streams   *)
(* that the work fetcher adds become the two directions of TCPConns.  One  *)
(* goroutine for each registered decoder looks for a valid start in the    *)
(* first connection, and the last of those to succeed names the decoder of *)
(* the endpoint.  When all are done, decoderReady is closed and the        *)
(* goroutine of each connection calls Parse.                               *)
(*                                                                         *)
(* A decoder is what its Locate methods do: it reads until it has seen     *)
(* `after` bytes, in which it recognises a valid start behind the first    *)
(* `count` of them; one that is never satisfied has an `after` out of      *)
(* reach.  Its Parse, modelled after the HTTP decoder's, reads the two     *)
(* directions in turn, a message of at least one byte from each, until a   *)
(* Read or the content of a message is an error.                           *)
(*                                                                         *)
(* The endpoint's mutex protects decoderName, which decoders only write    *)
(* before decoderReady and parsers only read after it, in one step each.   *)
(***************************************************************************)
EXTENDS ConcurrentReader

CONSTANTS
  Conns,      \* the connections; each is also its parsing goroutine
  FirstConn,  \* the one that comes first
  Registries  \* what factoryFunctions may hold when the endpoint is made

DefaultDecoderName == "defaultDecoder"

Directions == {"c2s", "s2c"}

\* A registered decoder; type is what ValidateType returns.  A count above
\* `after` would be of bytes that the decoder has not seen.
Decoder == [type : 0 .. 3, after : [Directions -> Nat], count : [Directions -> Nat]]

ASSUME EndPointAssumption ==
  /\ FirstConn \in Conns
  /\ Parsers = Conns
  /\ Decoders \cap Conns = {}
  /\ Streams = Conns \X Directions
  /\ Nobody \notin Decoders \cup Conns
  /\ DefaultDecoderName \notin Decoders
  /\ Registries \subseteq [Decoders -> Decoder]
  /\ MaxBytes \in [Streams -> Nat]

VARIABLES
  registry,     \* factoryFunctions
  conns,        \* the connections added
  decoderReady, \* whether the channel is closed
  decoderName,
  turns,        \* messages that each Parse has read
  start,        \* history: bytes discarded from each stream by SeekTo
  crashed       \* whether a goroutine panicked, which ends the program

endpointVars == <<registry, conns, decoderReady, decoderName, turns, start>>
vars == <<readerVars, endpointVars, crashed>>

Init ==
  /\ ReadersInit
  /\ on = [g \in Goroutines |-> <<IF g \in Conns THEN g ELSE FirstConn, "c2s">>]
  /\ registry \in Registries
  /\ conns = {}
  /\ decoderReady = FALSE
  /\ decoderName = DefaultDecoderName
  /\ turns = [c \in Conns |-> 0]
  /\ start = [x \in Streams |-> 0]
  /\ crashed = FALSE

-----------------------------------------------------------------------------
(* The work fetcher.                                                       *)

\* Mutant: a second stream replaces the first one, and its broadcast is closed again.
SetStreamAgain(x) ==
  /\ SetReaderReady(x)
  /\ crashed' = ready[x]

\* SetC2SStream and SetS2CStream; a second stream is refused.
SetStream(x) ==
  /\ IF ready[x] THEN UNCHANGED ready ELSE SetReaderReady(x)
  /\ UNCHANGED crashed

\* addStream, and newServerEndpoint for the first stream: its connection's
\* goroutine and those of the decoders start.
addStream(c, d) ==
  /\ conns = {} => c = FirstConn
  /\ SetStream(<<c, d>>)
  /\ conns' = conns \cup {c}
  /\ pc' = [g \in Goroutines |->
              IF g = c /\ c \notin conns THEN "wait"
              ELSE IF g \in Decoders /\ conns = {} THEN "start" ELSE pc[g]]
  /\ UNCHANGED <<arrived, ended, taken, interrupt, cache, index, mutex, statusVars, on, written,
                 given, registry, decoderReady, decoderName, turns, start>>

-----------------------------------------------------------------------------
(* The decoders, on the first connection.                                  *)

Other(x) == <<x[1], IF x[2] = "c2s" THEN "s2c" ELSE "c2s">>

Type(g) == registry[g].type
Seen(g) == Len(given[g][on[g]])
After(g) == registry[g].after[on[g][2]]
Count(g) == registry[g].count[on[g][2]]

KeepReader == UNCHANGED <<sourceVars, taken, interrupt, cache, index, mutex, statusVars, written, given>>

Start(g) ==
  /\ At(g, "start")
  /\ Goes(g, IF Type(g) = 0 THEN "done" ELSE "running")
  /\ on' = [on EXCEPT ![g] = <<FirstConn, IF Type(g) = 2 THEN "s2c" ELSE "c2s">>]
  /\ KeepReader /\ UNCHANGED <<endpointVars, crashed>>

\* Locate reads on.
LocateRead(g) == Seen(g) < After(g) /\ CallRead(g) /\ UNCHANGED <<endpointVars, crashed>>

\* Locate returns the count.
Locates(g) ==
  /\ At(g, "running")
  /\ Seen(g) >= After(g)
  /\ Goes(g, IF Type(g) = 3 /\ on[g][2] = "c2s" THEN "running" ELSE "valid")
  /\ on' = [on EXCEPT ![g] = IF Type(g) = 3 THEN Other(@) ELSE @]
  /\ KeepReader /\ UNCHANGED <<endpointVars, crashed>>

\* Locate returns the error of ConcurrentRead.
LocateFails(g) ==
  /\ At(g, "failed")
  /\ Goes(g, "done")
  /\ UNCHANGED on /\ KeepReader /\ UNCHANGED <<endpointVars, crashed>>

Validate(g) == SetValidStatus(g) /\ UNCHANGED <<endpointVars, crashed>>

\* SeekTo(count), out of range if the cache is shorter.
Seek(g) ==
  /\ SeekTo(g, Count(g))
  /\ start' = [start EXCEPT ![on[g]] = Count(g)]
  /\ crashed' = (Count(g) > Len(cache[on[g]]))
  /\ UNCHANGED <<registry, conns, decoderReady, decoderName, turns>>

SeekEnds(g) == Sought(g) /\ UNCHANGED <<endpointVars, crashed>>

Forbid(g) == ForbiddenConcurrentRead(g) /\ UNCHANGED <<endpointVars, crashed>>

\* It panics if the stream was found valid before there was a reader.
InterruptReading(g) ==
  /\ At(g, "interrupt")
  /\ InterruptBlockingReading(on[g])
  /\ crashed' = ~ready[on[g]]
  /\ Goes(g, IF Type(g) = 3 /\ on[g][2] = "c2s" THEN "valid" ELSE "name")
  /\ on' = [on EXCEPT ![g] = IF Type(g) = 3 /\ @[2] = "c2s" THEN Other(@) ELSE @]
  /\ UNCHANGED <<sourceVars, taken, cache, index, mutex, statusVars, written, given, endpointVars>>

\* se.decoderName = d.Name(), and the deferred calls.
Choose(g) ==
  /\ At(g, "name")
  /\ decoderName' = g
  /\ Goes(g, "done")
  /\ UNCHANGED on /\ KeepReader
  /\ UNCHANGED <<registry, conns, decoderReady, turns, start, crashed>>

\* Mutant: the endpoint is ready with the first decoder that is done.
ChooseReadyEarly ==
  /\ ~decoderReady
  /\ conns # {}
  /\ \E g \in Decoders : At(g, "done")
  /\ decoderReady' = TRUE
  /\ UNCHANGED <<readerVars, registry, conns, decoderName, turns, start, crashed>>

\* wg.Wait returns.
ChooseReady ==
  /\ ~decoderReady
  /\ conns # {}
  /\ \A g \in Decoders : At(g, "done")
  /\ decoderReady' = TRUE
  /\ UNCHANGED <<readerVars, registry, conns, decoderName, turns, start, crashed>>

DecoderStep(g) ==
  \/ Start(g) \/ LocateRead(g) \/ Locates(g) \/ LocateFails(g)
  \/ Validate(g) \/ Seek(g) \/ SeekEnds(g) \/ Forbid(g) \/ InterruptReading(g) \/ Choose(g)

-----------------------------------------------------------------------------
(* Parse, of the default decoder and of a registered one.                  *)

Default == decoderName = DefaultDecoderName

\* The default decoder sets the status of both streams.
StartParse(c) ==
  /\ At(c, "wait")
  /\ decoderReady
  /\ validated' = [x \in Streams |-> validated[x] \/ (x[1] = c /\ Default)]
  /\ Goes(c, "running")
  /\ UNCHANGED <<sourceVars, taken, interrupt, cache, index, mutex, forbidden, on, written,
                 given, endpointVars, crashed>>

\* The default decoder reads each stream one time.
ParseRead(c) ==
  /\ Default => given[c][on[c]] = <<>>
  /\ CallRead(c)
  /\ UNCHANGED <<endpointVars, crashed>>

\* Mutant: the default decoder is stopped by an error.
DefaultNextRead(c) ==
  /\ Default
  /\ At(c, "running") /\ given[c][on[c]] # <<>>
  /\ Goes(c, IF on[c][2] = "c2s" THEN "running" ELSE "done")
  /\ on' = [on EXCEPT ![c] = <<c, "s2c">>]
  /\ KeepReader /\ UNCHANGED <<endpointVars, crashed>>

\* The default decoder is through with a stream, whatever Read returned.
DefaultNext(c) ==
  /\ Default
  /\ At(c, "failed") \/ (At(c, "running") /\ given[c][on[c]] # <<>>)
  /\ Goes(c, IF on[c][2] = "c2s" THEN "running" ELSE "done")
  /\ on' = [on EXCEPT ![c] = <<c, "s2c">>]
  /\ KeepReader /\ UNCHANGED <<endpointVars, crashed>>

\* ReadRequest or ReadResponse returns a message.
ParseNext(c) ==
  /\ ~Default
  /\ At(c, "running")
  /\ turns[c] \div 2 < Len(given[c][on[c]])
  /\ turns' = [turns EXCEPT ![c] = @ + 1]
  /\ on' = [on EXCEPT ![c] = Other(@)]
  /\ UNCHANGED pc /\ KeepReader
  /\ UNCHANGED <<registry, conns, decoderReady, decoderName, start, crashed>>

\* It returns an error.
ParseFails(c) ==
  /\ ~Default
  /\ At(c, "failed") \/ (At(c, "running") /\ given[c][on[c]] # <<>>)
  /\ Goes(c, "done")
  /\ UNCHANGED on /\ KeepReader /\ UNCHANGED <<endpointVars, crashed>>

ParserStep(c) == StartParse(c) \/ ParseRead(c) \/ DefaultNext(c) \/ ParseNext(c) \/ ParseFails(c)

-----------------------------------------------------------------------------
GoroutineStep(g) ==
  /\ ~crashed
  /\ \/ ReadStep(g) /\ UNCHANGED <<endpointVars, crashed>>
     \/ g \in Decoders /\ DecoderStep(g)
     \/ g \in Conns /\ ParserStep(g)

ChooserStep == ~crashed /\ ChooseReady

Assembles(x) == (Arrive(x) \/ End(x)) /\ UNCHANGED <<endpointVars, crashed>>

\* The streams that come from workChan.
startParseStream == \E c \in Conns, d \in Directions : addStream(c, d)

Environment == ~crashed /\ (startParseStream \/ \E x \in Streams : Assembles(x))

Next == Environment \/ ChooserStep \/ \E g \in Goroutines : GoroutineStep(g)

Spec == Init /\ [][Next]_vars

\* Goroutines that can go on do.  Nothing is assumed of the network: bytes and
\* streams may never come.
FairSpec ==
  /\ Spec
  /\ WF_vars(ChooserStep)
  /\ \A g \in Goroutines : WF_vars(GoroutineStep(g))

-----------------------------------------------------------------------------
Labels ==
  {"none", "start", "running", "lock", "locked", "append", "failed", "valid", "seek",
   "sought", "forbid", "interrupt", "name", "wait", "done"}

\* Every variable has the type of what it stands for in the code; a goroutine
\* that has the mutex of a stream is in a Read of that stream.
TypeOK ==
  /\ ready \in [Streams -> BOOLEAN]
  /\ arrived \in [Streams -> Nat]
  /\ ended \in [Streams -> BOOLEAN]
  /\ taken \in [Streams -> Nat]
  /\ interrupt \in [Streams -> BOOLEAN]
  /\ cache \in [Streams -> Seq(Nat)]
  /\ index \in [Streams -> [Goroutines -> Nat]]
  /\ mutex \in [Streams -> Goroutines \cup {Nobody}]
  /\ \A x \in Streams : mutex[x] # Nobody =>
       pc[mutex[x]] \in {"locked", "append"} /\ on[mutex[x]] = x
  /\ validated \in [Streams -> BOOLEAN]
  /\ forbidden \in [Streams -> BOOLEAN]
  /\ pc \in [Goroutines -> Labels]
  /\ on \in [Goroutines -> Streams]
  /\ written \in [Goroutines -> Seq(Nat)]
  /\ given \in [Goroutines -> [Streams -> Seq(Nat)]]
  /\ registry \in Registries
  /\ conns \in SUBSET Conns
  /\ decoderReady \in BOOLEAN
  /\ decoderName \in Decoders \cup {DefaultDecoderName}
  /\ turns \in [Conns -> Nat]
  /\ start \in [Streams -> Nat]
  /\ crashed \in BOOLEAN

\* Two decoders read one stream.
Share(g, h) == g # h /\ {Type(g), Type(h)} \in {{1}, {2}, {3}, {1, 3}, {2, 3}}
Shared == \E g, h \in Decoders : Share(g, h)

\* Two decoders that read one stream may both find what they want.
MaySucceed(g) ==
  /\ Type(g) \in {1, 3} => registry[g].after["c2s"] <= MaxBytes[<<FirstConn, "c2s">>]
  /\ Type(g) \in {2, 3} => registry[g].after["s2c"] <= MaxBytes[<<FirstConn, "s2c">>]
Rivals == \E g, h \in Decoders : Share(g, h) /\ MaySucceed(g) /\ MaySucceed(h)

\* A decoder counts bytes that it has not seen, or wants none.
Hasty ==
  \E g \in Decoders, d \in Directions :
    registry[g].after[d] = 0 \/ registry[g].count[d] > registry[g].after[d]

\* No goroutine closes a channel again, cuts a cache out of range or uses a
\* reader that is not there, whatever order streams are added and found valid
\* in.  Two decoders that find the same stream valid may (Rivals): the second
\* seeks what the first has cut.  So may one whose count is higher than the bytes
\* it has seen, or that wants none (Hasty); the program's only decoder counts too
\* many behind a first line, see HttpDecoder.
NeverPanics == crashed => Rivals \/ Hasty

\* While no decoder has found its start valid, every decoder sees the same
\* stream from its first byte, whoever of them took the bytes from the reader.
SeenFromTheStart ==
  \A x \in Streams : ~validated[x] =>
    \A g \in Decoders : given[g][x] = [i \in 1 .. Len(given[g][x]) |-> i]

\* What the Parse of its connection was given of each stream, and what it is
\* promised.
outs == [x \in Streams |-> given[x[1]][x]]
parsedVars == <<start, outs>>
Parsed == INSTANCE ValidStream WITH out <- outs

\* If no two decoders read one stream, Parse is given its bytes from the valid
\* start, in order and each one time: ConcurrentRead's cache, SeekTo and Read
\* together implement ValidStream.
ParsedFromTheStart ==
  /\ Parsed!Init
  /\ [][Shared \/ Parsed!Next]_parsedVars

Complete(c) == \A d \in Directions : ready[<<c, d>>] /\ ended[<<c, d>>]

\* When the streams of the first connection have ended, its decoders are done
\* and all connections are parsed; Parse returns when those of its own
\* connection have, and so lets the endpoint's read lock go.  The second of two
\* decoders that find the same stream valid may wait for ever with an interrupt
\* that nobody reads to receive.
ParseReturns ==
  \A c \in Conns : Complete(FirstConn) /\ Complete(c) ~> At(c, "done") \/ Rivals \/ Hasty

\* When the Parse of a registered decoder is over, it was given bytes of the
\* connection's client if there were any (the comment of Parse in decoder.go,
\* "parse stream to protocol data", and that of newServerEndpoint, "the first
\* conn is used to chose proper decoder").
ParsesEveryConnection ==
  \A c \in Conns : At(c, "done") /\ ~Default =>
    given[c][<<c, "c2s">>] # <<>> \/ (ended[<<c, "c2s">>] /\ arrived[<<c, "c2s">>] = 0)

=============================================================================
