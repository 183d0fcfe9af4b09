# data-collector: specifications

TLA+ models of data-collector, a Go program that captures TCP packets of a
service, reassembles them into streams and is to decode them. The specifications
are translated from the source; comments name the function they translate, and
`PROJECT.json` gives the lines.

## The system

One process. An actor system (protoactor) runs a *capture manager*, which spawns two
*capture* actors per network device, one for the addresses that the service listens on
and one for those it connects to. A capture that runs has one goroutine that takes
captured packets from a channel and gives them to an *Assembler* of its own. The
assembler orders the segments of every TCP flow and hands them to a *Stream* per flow,
made by `DefaultStreamFactory`; the stream is a `StreamReader` with a goroutine that
reads it. Behind that, streams are put together to connections and the connections of
one server address to a *ServerEndPoint*, where decoders that share a `ConcurrentReader`
look for a valid start of the first connection and the one that finds it parses all.
This last part is written but not connected: the send to `workChan` is commented out
(capture.go:97). It is modelled as the code would run with that send.

```
libpcap handle --filter--> channel of packets ----------v
captureManager --actor messages--> capture --starts--> capture goroutine
                                                         | AssembleWithTimestamp
                                                         v
                           StreamPool <--lock/lookup-- Assembler
                                                         | Reassembled, ReassemblyComplete
                                                         v
                                    channel of batches: StreamReader <-- consumer goroutine
(not connected:)  workChan -> DefaultStreamFactory.startParseStream -> ServerEndPoint
                     decoder goroutines --ConcurrentRead--> ConcurrentReader -> StreamReader
                     a goroutine per connection: Parse --Read--^
```

| Component | State | Operations | What is hard |
|---|---|---|---|
| Sequence arithmetic (`extendedassembly.go:15-49, 574-585`) | none | `Difference`, `Add`, `byteSpan` | the wrap-around at 2^32, off-by-one |
| Assembler and page cache (`:76-144, 321-752`) | page lists, counts, `nextSeq`, free pages | `AssembleWithTimestamp`, `FlushOlderThan`, `FlushAll` | any arrival order, overlaps, limits, counts kept in three places, reuse of pages |
| StreamPool (`:178-186, 267-331, 443-482, 624-629`) | map of connections, free list | `getConnection`, `newConnection`, `remove`, `connections` | two locks, objects reused while others point to them |
| StreamReader (`MutiCoroutineAccessReader.go:13-138`) and its consumers (`capture.go:58-98`) | channel, current batch, flags | `Reassembled`, `ReassemblyComplete`, `Read`, `Close`, interrupt | shared array and pages, blocking, end and errors |
| ConcurrentReader (`:140-307`) | cache, per-goroutine positions, status bits | `Read`, `ConcurrentRead`, `SeekTo` | a mutex held while waiting, a cut of the cache without it |
| ServerEndPoint, TCPConn (`capture.go:141-286`, `tcp.go`), decoder registry (`decoder.go`) | connections, decoder name, decoders that are done | `addStream`, the decoder goroutines, `startParseTcpConn` | several decoders on one stream, decoder chosen once for many connections, streams that come late or never |
| Capture actors (`actor.go`) | captures per device, mailboxes, status, handle, channel of packets | start, stop, configuration and address updates | partial failure on start, updates in mailboxes, packets captured before an update |
| HTTP decoder (`decoder/http.go`) | bytes looked at for a valid start | `LocateToValidStart...`, `Parse` | counting at boundaries, two streams read in turn |
| Addresses and filters (`common/util.go`, `capture.go:288-330`) | none | `GenerateBPFStr`, `getInfo` | both flows of a connection must find the same server |

What makes them correct: a stream receives its bytes in order, at most once, between one
creation and one completion, and nothing due is held back; pages are neither leaked nor
returned twice; a pooled connection belongs to one flow and one assembler at a time; a
reader hands out exactly what was assembled for it and reports the end at the end, and
the assembler is never held up by a consumer; every decoder sees a stream from its first
byte, and Parse the bytes from the valid start that was found, each one time; a capture
has one goroutine per handle and the latest addresses as filter.

## Modules

| Module | Models |
|---|---|
| `TcpSequence` | the `Sequence` type and `byteSpan`, for a sequence space of any size |
| `StreamContract` | abstract: the promise of the `Stream` interface: created, batches in order, completed once |
| `Assembly` | one Assembler with its pool, as `capture.ensureRunning` builds it; implements `StreamContract` |
| `FlowStreams` | abstract: the promise of `StreamFactory` and `Stream` for a flow: a second stream only after the first is complete |
| `StreamPool` | several Assemblers that share a pool, step by step between critical sections; with one it implements `FlowStreams` |
| `StreamReader` | the readers an Assembler feeds, with their channels and consumers, the array and the pages they share |
| `ValidStream` | abstract: what a Parse is promised of a stream: invalid bytes discarded once, then every byte in order |
| `ConcurrentReader` | the readers of an endpoint's connections, step by step where the mutex does not cover a step |
| `ServerEndPoint` | extends it with the endpoint's goroutines: work fetcher, decoders, chooser, Parse of each connection; implements `ValidStream` |
| `Addresses` | addresses as elements of a set, filters as sets of conditions, the direction of a flow |
| `Capture` | manager and captures as actors with mailboxes, libpcap that may fail, the channels of packets and the capture goroutines |
| `HttpDecoder` | the Locate methods as recursive functions, with the buffer of `bufio.Reader` |
| `MC...` | inputs and bounds for TLC; `MCOperators` holds the reference definitions of the pure algorithms |
| `OperatorsProofs`, `AssemblyProofs`, `AssemblyBufferProofs` (extends it), `StreamPoolProofs`, `StreamReaderProofs`, `ServerEndPointProofs`, `ServerEndPointPanicProofs` (extends it), `CaptureProofs` | theorems |

Definitions named after a mutation of the code ("Mutant:" comments) are not part
of the models. Each breaks one property of one run; they show that the properties
depend on the code.

### TcpSequence

Masking with `uint32Max` is reducing modulo `SeqSpace`, a constant. `Difference`
is written with the code's own constant `uint32Max` (not `uint32Max + 1`), which
is why it falls one short of the distance across the wrap-around.

### Assembly

Bytes are positions relative to the initial sequence number; a chunk or page is a
position and a length. The doubly linked page list of a connection is a sequence;
the page cache keeps for each free page the two fields that `next()` does not
clear, `Skip` and `End`. `AssembleFirst`, `AssembleAhead` and `AssembleDue` are
the three branches of `AssembleWithTimestamp` with `insertIntoConn` and its limit
check inside; `addContiguous`, `sendToConnection`, `closeConnection`, `skipFlush`,
`FlushCloses` and `FlushNextConn` are the iterations of the loops that follow, and
no other call begins before the running one has returned (`phase = "idle"`). With
one goroutine there is no more interleaving than that. `conns[k]` is the pool:
with a single assembler `getConnection` returns the open connection of the key or
a fresh one.

Left out: SYN segments that carry data, a flow that begins again with another
initial sequence number, and the counts that the flush methods return.

### StreamPool

The steps of an assembler are the critical sections of the pool's lock, the lock
and unlock of a connection's mutex, and the code between. Connection objects are
numbered and reused through the `free` stack as in the code; `reset()` writes an
object under the pool's lock only. Which bytes of a segment are due is left open
(`Deliver`, `Buffer`, `Push` choose), since `Assembly` models that.

### StreamReader

Two kinds of storage are shared, and nobody copies. `array` is the array behind
`Assembler.ret`: a batch on a channel is a range of its slots, because `Reassembled`
sends the slice as it is and returns (MutiCoroutineAccessReader.go:49-52), and
`AssembleWithTimestamp` begins with `a.ret = a.ret[:0]`. `Assemble` therefore overwrites
slots that batches in channels or in a reader's hands still refer to. The bytes of a
chunk that was buffered lie in its page (extendedassembly.go:131-135), and the page goes
back to the cache before the batch is sent: `held` tells which stream has each page in
its list, and `Buffer`, the filling of a free page with a later segment of any stream,
changes the bytes (`whole`) of every slot that refers to it, although no slot is written.
A chunk of a segment that was never buffered is the packet's own bytes (`NoPage`).

`Read` is three steps, because the consumer's goroutine runs beside the assembler's:
look and wait, `copy`, and the cut of the chunk. The ghost `spoilt` remembers whose
slots or pages were written again while they were still to be read, `got` and `sent`
the positions a consumer has reached and the assembler has sent. The chunks of
a batch are at positions counted from the end of the batch before, and the bytes
missing before a chunk with `Skip` are one position, which no consumer can be given;
so a loss that is told (`DataLost`), one that `stripEmpty` passes with an empty chunk
(`Passed`), and a byte given twice are told apart. A slot is read and written as a
whole; a torn slot would be one more wrong value in a stream that is spoilt already.
Batches fit in the array as first allocated (16 slots), so that `append` never moves
it.

Consumers: those in `Drains` read until the end. The others may leave, as the
HTTP consumer does when `http.ReadRequest` fails, or pass empty slices for ever, as the
other consumer does (`make([]byte, 0, 8)`, capture.go:82); those in `Closers` may call
`Close`, which nothing in the program does. In the program no consumer is in `Drains`,
and so the assembler waits for ever once a channel is full; `ReaderFinishes` says what
holds for a consumer that is.

### ConcurrentReader

A byte is its position in the stream, and the StreamReader below is three numbers:
bytes that arrived, bytes its `Read` returned, and whether the stream is complete.
The mutex covers `Read` and `ConcurrentRead` but not `SeekTo`, so the two
assignments to `m.cache` that can overlap, the append of what was read and the cut,
are two steps each: the slice is computed (`written`), then stored. The rest of a
`Read` is one step at the point where it takes the bytes. The tests of the status
bits come before the mutex, as in the code. A goroutine that waits for the reader
to be ready, or for bytes, holds the mutex.

Bytes and the end of a stream arrive only after the reader is set; since nobody can
see the StreamReader before, what came earlier may as well come just after.

### ServerEndPoint

One endpoint, since endpoints share nothing. `FirstConn` is the connection that
comes first; which one that is does not matter. A registered decoder is a record of
what its `ValidateType` returns, how many bytes its Locate method looks at (`after`)
and how many it tells to discard (`count`); one whose `after` is out of reach is
never satisfied. `Parse` reads the two directions in turn, a message of at least one
byte from each, as the HTTP decoder does; it gives up after an error of `Read` or
of the message (`ParseFails`). The default decoder reads each stream one time and
goes on whatever `Read` returned.

The decoders' goroutines follow the loop of `newServerEndpoint`: locate, validate,
seek, forbid concurrent reads, interrupt, and write the name; `wg.Done` is the label
"done". `ChooseReady` is the goroutine that waits for all and closes `decoderReady`.
A send to a full interrupt channel blocks (`InterruptBlockingReading`), and a
`Read` that receives an interrupt goes on waiting, as in the code. A panic of any
goroutine ends the program (`crashed`): a channel closed again, a cut out of range,
an interrupt to a reader that is not there.

`NeverPanics` excludes two kinds of registries, and `ParseReturns` too. `Rivals`: two
decoders that may both find one stream valid; the second seeks what the first has cut,
and may wait for ever to interrupt a stream whose channel still holds the first
interrupt. `Hasty`: a decoder that counts bytes it has not seen, or that wants none and
so interrupts before there is a reader. The run's registries are of neither kind. The
program registers one decoder, so it has no `Rivals`, but that decoder may be `Hasty`: it
counts too many bytes when lines come before the first valid one.

### Capture

The manager handles a message when it is sent; a capture takes messages from its
mailbox in order, and `ensureRunning` is one handler with the possible failures of
libpcap's calls as alternatives. A handler that panics (a filter set on a nil
handle) leaves the actor's struct as it is and goes on with the next message, which
is what protoactor's default supervision does. Handles are numbered in the order
they are opened, and `filter` keeps one set of conditions for each.

Between the filter and the assembler is the channel of gopacket's `PacketSource`
(actor.go:202), 1000 packets long, with one more that its goroutine has read and waits
to add. `Captured` applies the filter there is when a packet is read; `Packet`, the
capture goroutine, may receive it long after the filter has changed. An address update
is two steps (`HandlesAddrs`, then `updateFilter` or one of its failures), since packets
go on between them. The ghost `stale` counts the packets in the channel that were
captured under an earlier filter: `PacketsAsked` speaks of those behind them.

Left out: `oldStatus`, which is never read; messages with an empty device name or a
name that no capture has, which change nothing; a failure of `SpawnNamed`, since a
name can only be taken by an earlier spawn, which the map of captures excludes.

### HttpDecoder and Addresses

A byte of an HTTP stream is a carriage return, a line feed, a first line (the text
that the regular expression looks for) or any other. `Locate` is the loop of both
methods, which differ in the byte that `ReadSlice` looks for and which end with its error
when a line does not fit in the buffer (`BufferSize`, 4096 in bufio). Addresses are values
with a relation "contains as a substring", which is what `getInfo` tests.

## Runs

| Run | Shows | Bounds |
|---|---|---|
| `operators` | `Difference` is the distance, one short across the wrap-around; `byteSpan` sends what is due, and nothing else unless the numbers wrap around, then one byte at most; both flows of a connection find the same server; the client's Locate method finds what there is | sequence space of 64, all pairs a quarter apart, lengths to 8; three addresses with every substring relation; streams of up to 8 bytes of 4 kinds, a buffer of 3 |
| `assembly_program` | types, nothing due held, no panic, `StreamContract`, nothing skipped, no stream completed by an `End` of a page's former use | one flow, 9 segments out of 7 kinds, two pages, no limits or flushes |
| `assembly_flush` | page accounting with limits and flushes; limits hold; a flush does what it says; calls return, and each of their steps shortens them | two flows, 5 segments of one page, clock to 1, limits 3 and 3 |
| `pool_single` | with one assembler no connection, stream or page is mixed up; `FlowStreams` | two flows, six calls with flushes |
| `pool_shared` | with two assemblers the pool stays consistent, streams are served serially and only while open, and every call returns | two flows, three calls with flushes |
| `stream_reader` | what was not written again is read in order, completely, with losses told unless an empty chunk follows, up to the end; a consumer that reads on is told of the end | two readers, one that reads on and one that may leave or close; three batches, one page, channel of one, slices of 0 and 1 bytes |
| `endpoint` | types and mutexes, no panic, what decoders see, `ValidStream`, every Parse returns | two connections, two decoders of every `ValidateType`, at most two bytes per stream |
| `capture` | types, one goroutine per handle, the latest configuration is installed, packets are those asked for once those captured before an update are through, a running capture gets its handle | one device, two addresses, four messages, one failure of libpcap, a channel of one packet and one that waits |
| `assembly_wrap` | violated: `StreamContract` when the numbers of a flow wrap around | |
| `pool_misrouted` | violated with two assemblers: a segment goes to its own stream | |
| `reader_reuse` | violated: a reader hands out bytes of its own stream | |
| `endpoint_unparsed` | violated: every connection is parsed | HTTP decoder only |

The bounds. A sequence space of 64 has every case of `Difference` (both quarters, both
orders). With seven segments each byte of the stream can be missing, repeated and
overtaken, and with two more a page that carried a FIN is used again in the middle of a
segment; a page of two bytes makes segments of one and of two pages. Lines of up to
three bytes fit in a buffer of three, and longer ones do not. Limits of three are
reached by three segments ahead of a gap, alone or spread over two flows. Three calls of
two assemblers let one hold a stale connection while the other closes it and reuses it
for the other flow; a fourth, in `pool_misrouted`, lets it process a segment there; two
flows are needed for a reuse to matter. A channel of one batch is full or empty as 1024
are, three batches are one read, one waiting and one blocked. One page is filled again
while a chunk that lies in it waits.

For the endpoint, two decoders are what it takes to share a stream and to have one
succeed while the other reads, fails or waits; two connections, one to choose the
decoder and one that only waits for it; two bytes of the first client, one to
discard and one to parse, so that a cache is split between decoders, seek and
Parse. The registries are: one HTTP-like decoder and one for the server's direction;
one HTTP-like and one that shares its stream and is never satisfied; one that
wants both directions and one with an unsupported type. For the capture, four
messages are a configuration, two starts (of which one may fail) and an update, or one
start and two updates; two packets on their way are one from before an update and one
from after it. The theorems hold without these bounds.

The properties of `assembly_flush` use segments of one page on purpose: with longer ones
a limit can be exceeded (one page is popped for several inserted). The pool's properties
for one assembler (`pool_single`) do not hold for two: besides `pool_misrouted`,
`getConnection` may make a stream that is dropped without being completed, pages may end
up in the other assembler's cache, and with three assemblers a closing connection may
remove another one from the map. The program gives each assembler its own pool
(actor.go:206), so it is the single-assembler results that apply to it.

A run that deadlocks only because its bound on segments, calls, batches or messages
is reached, or because the network may be quiet, says CHECK_DEADLOCK FALSE;
`assembly_flush` has no such line, as a flush is always possible.

### Fairness

`Assembly!FairSpec`: the goroutine that called the assembler keeps running (weak
fairness of `Continue`); it needs nothing else, there are no locks to wait for.
`StreamPool!FairSpec`: weak fairness for the steps of each assembler, strong fairness
for taking a connection's mutex, since `sync.Mutex` hands itself to a waiter that
starves. `StreamReader!FairSpec`: weak fairness for each goroutine's steps and the
channel send, and for a consumer to call `Read` again, or to stop if it is one that may.
`ServerEndPoint!FairSpec`: weak fairness for each goroutine and for the one that waits
for the decoders; a waiter for the mutex needs no more, because each decoder reads a
bounded number of times and Parse is alone on its streams. `Capture!FairSpec`: an actor
with a message handles it, to the end. Arriving segments, bytes, streams, packets,
messages, and calls that start something are never fair.

## Proofs

All theorems hold without the bounds of the runs, for every value of the constants
that the named assumptions of the modules admit. A further hypothesis is part of the
theorem and is said here.

`OperatorsProofs`, for a sequence space of any size that is at least 8, any positions a
quarter of it apart, segments of any length, and any addresses and lists of them:

- `DifferenceValue`, `DifferenceAntisymmetric`, `DifferenceSign`: what `Difference`
  returns for two sequence numbers.
- `DistanceIsButOne`: `OperatorsSpec => []DistanceButOne`. A position is reduced by a
  lap or two (`Residues`); the rest is linear arithmetic.
- `SpanIsExact`: `OperatorsSpec => []SpanSendsTheRest`. `byteSpan` sends what is due,
  exactly, where the numbers do not wrap around. `SpanIsExactButOne`: `OperatorsSpec =>
  []SpanButOne`, with a wrap-around too no due byte is cut, at most one is sent again,
  and the number that is expected afterwards is at most one off. `SameLap` (a number of
  laps more is the same sequence number) gives that number.
- `BothFlowsAgree`: `OperatorsSpec => []DirectionsAgree`. The first address found does
  not depend on which end is the source, and is found in one end only.
- `LocateIsComplete`: `OperatorsSpec => []LocateFindsStart`, for streams of any length
  and a buffer of any size: the client's method finds a start if and only if there is
  one that a carriage return follows, and every line up to there fits in the buffer. The
  loop is a recursive function `scan`, that is, a fixed point of one round (`Slice`). A
  round at i depends on later rounds only (`SliceDepends`), so that two fixed points
  would differ at a last position, and do not (`OneScan`). It is therefore enough that a
  closed form is one: `Count`, the last carriage return before the first complete start,
  and two more for each that was skipped, if lines that fit lead there (`Found`), and
  else not found. This is not the number of invalid bytes (see Disagreements).

`AssemblyProofs`, for any keys, packets, page size and limits that satisfy the
assumptions of `Assembly` (a segment fits in one `grow()` of the cache, SYN
segments carry no data):

- `TypeCorrect`: `Spec => []TypeOK`. Inductive as it stands, with the lemmas on what
  each helper does to a work state.
- `PagesAccounted`: `Spec => [](PagesConserved /\ PagesCounted)`: used and free pages
  add up to the size of the cache, and `conn.pages` is the length of the list.
- `DeliveredInOrder`: `NoRollOver` implies `Spec => OrderedDelivery`, that is,
  `Assembly` implements `StreamContract`, flushes and limits included. `NoRollOver` says
  that no sequence number of the capture is in the last quarter of the space; without it
  the theorem is false (`assembly_wrap`). Neither `TypeOK` nor the contract is inductive
  here. The proof strengthens them with `WellFormed` (the sequence numbers of pages and
  of `nextSeq` are the positions they stand for) and `Delivered` (what is collected in
  `ret` lies in order behind what the stream has received, and `nextSeq` is the position
  after it). Then each action is a step of the contract or leaves `streams` alone.

`AssemblyBufferProofs`, about what the assembler holds, for the same constants:

- `PagesAreBuffered`: `Spec => []PageAccounting`. The invariant `Accounted` adds that
  the pages in use are as many as the places in all lists (`UsedIsBuffered`). It holds
  because every step changes one connection at most, and its list by as many pages as
  the count of the cache (`StepBalance`).
- `LimitsHold`: `Spec => []BufferLimits`, if a segment fits in one page (`OnePage`, which
  the 1900 bytes of a page give as long as the network card does not merge segments).
  With longer ones it is false: `insertIntoConn` pops one page for all it pushes.
- `NoDuePageWaits`: `Spec => []NothingDueIsHeld`, under `NoRollOver`, for segments of any
  length cut in any way. The list of a connection is not sorted: `traverseConn` puts all
  pages of a segment behind the last page that does not begin after the segment, so that
  the later of them may stand before pages that begin earlier, and "the head is not due"
  need not imply that nothing is. What holds is `Chained`: a page that stands before one
  that begins earlier begins no later than some page before it, or the connection
  itself, has reached. Hence if the head is not due, no page is (`HeadDecides`).
  `ChainedInsert` and `ChainedTail` show that insertion and pop keep it. `DueInv` adds
  that only the connection that bytes are gathered from may have a page that is due.
- `InsertNeverPanics`: `Spec => []NeverPanics`, under `NoRollOver`, as part of `DueInv`:
  the head is beyond the expected byte, so the guard of the panic is false. The part
  about `sendToConnection`, which indexes the last element of `a.ret`, follows from
  where the calls to it stand: behind a chunk that was collected.
- `CallsMakeProgress`: `Spec => CallsShrink`, without further hypotheses. `Rank` adds up
  the pages in use, the connections that the operation may still close and those its
  loop has not passed, and `PhaseRank` orders the places in a round. A round of a loop
  returns a page, closes a connection or passes one (`Accounted` tells that there is a
  page to return), so no loop of the assembler runs for ever, whatever arrives. It is
  the part of `CallsReturn` that needs no fairness.
- `FlushDone`: `Spec => FlushKeepsPromise`. `FlushInv` says that a connection is
  still in the snapshot or settled, that is, has nothing that this flush is to push or
  close. That `FlushAll` leaves no page in use comes from `Accounted`.
- `NothingIsSkipped`: `Spec => NothingSkipped`, under `NoRollOver`, for the assemblers of
  the program (`Unlimited`: no limits, no flush). `GapInv` says that the chunks gathered
  follow one another without a gap; only limits and flushes pop a page that is not due.

`StreamPoolProofs`, for any assemblers, flows and calls. The invariant `PoolInv` says,
beside types, that what the pool, an assembler or a flush refers to was given out once
(`GivenOut`), that no two connections have one stream (`OneConnection`), that the `closed`
flag tells whether the stream is complete (`OpenWhileLive`), that free connections are
closed, once in the free list, and under no key in the map (`FreeIsClosed`, `FreeOnce`,
`PoolMatches`), that an assembler between lock and unlock has the mutex (`MutexHeld`),
and that nobody closes or frees a connection under its hands (`WorkIsLive`). It is needed
as a whole: `reset()` writes an object that others may still lock, and only
`FreeIsClosed` tells that it was closed before.

- `PoolTypeCorrect`, `PoolIsConsistent`, `StreamsAreSerial`, `StreamsAreOpen`:
  `Spec => []` of `TypeOK`, `PoolConsistent`, `SerialStreams` and `OnlyOpenStreams`.
- With one assembler to a pool (`OneAssembler`, which is how actor.go:206 makes them),
  `SegmentsFindTheirStream`, `ClosedRemovesItself`, `StreamsStayInReach` and
  `PagesComeBack`: `Spec => []` of `AppropriateStream`, `RemovesItself`, `NoOrphanStream`
  and `PagesReturnHome` (`RemovesItself`, that a closed connection removes its own
  entry from the map, is proved only, its place in the run taken by
  `OneStreamPerFlow`). `SingleInv` adds to `PoolInv` that a connection and its
  stream are of one flow (`KeysAgree`), that an open one is in the map under its key
  (`LiveIsPooled`), that nothing changes between the critical sections of a call
  (`Undisturbed`), and that an open stream has an owner (`NoStreamLost`); `PagesCounted`
  that pages in use are those of the map, and between `remove` and the loop of
  `replace` also those of the connection just removed.
- `FlowsHaveOneStream`: under `OneAssembler`, `Spec => OneStreamPerFlow`: the pool
  implements `FlowStreams`. A stream's number is its place in `streams`, and a flow's
  open streams are those of its key that are not complete. The step `New` needs that a
  flow that is not found in the map has no open stream: such a stream would have an
  owner (`NoStreamLost`), whose connection is in the map (`LiveIsPooled`, `KeysAgree`)
  and was so when it was looked up (`Undisturbed`). Closing completes one stream
  (`OneConnection`). With two assemblers it is false: both may make a stream for a new
  flow.

`StreamReaderProofs`, for any readers, consumers, sizes of slices, batches and capacity:

- `ReaderTypeCorrect`: `Spec => []TypeOK`, from `ReaderInv`: where in `Read` a consumer is
  says whether it has something to read (`LabelsMatch`), and nothing is sent after the
  end (`EndIsLast`).
- `EndIsTheEnd` and `BytesInOrder`: `Spec => []EOFMeansAll` and `Spec => ReadsInOrder`.
  `KeptInv` says of a reader of which no slot and no page was written again: at most one
  batch is on its way, it continues what was received (`ComingFollows`), its slots are
  whole, and the chunks the reader has are what its consumer is to be given next
  (`CurrentFollows`), also between the `copy` and the cut of `Read`, and behind the
  losses that went by with empty chunks.

`ServerEndPointProofs`, for any connections, decoders, registries and numbers of
bytes:

- `EndPointTypeCorrect`: `Spec => []TypeOK`. `TypeOK` says of a locked mutex that its
  holder is inside a `Read` of that stream. The converse, `Holders`, is needed to
  show that an unlock is the holder's own, and `Unstarted` (a goroutine that was not
  started is at its first label) that adding a stream starts nobody twice.
- `DecodersSeeTheStart`: `Spec => []SeenFromTheStart`. The invariant `StreamSeen` of
  a stream that is not validated: the cache is 1, 2, 3, ...; each decoder was given as
  many bytes as its position says, which is in the cache unless it is itself about
  to append; and what was taken from the reader is in the cache or is what that one
  decoder is about to write. That it is one is the mutex; that no cut interferes is
  `Bounded`: seeks and Parse come after the stream was validated.
- `ParseIsGivenTheStream`: `Spec => ParsedFromTheStart`, that is, the endpoint
  implements `ValidStream` if no two decoders read one stream. `Ordered` says that
  decoders are done before any Parse, which reads its own connection; `Unsought`,
  that a stream's first byte is still the first before its decoder's `SeekTo`; and
  `StreamKept`, that what was taken and not yet given to Parse is in the cache in
  order, or in the value that the one decoder at an append or a seek is about to
  store. Where two decoders share a stream an append can undo a seek, and the
  promise is lost; with the one decoder that the program registers it holds.

`ServerEndPointPanicProofs`, which rests on the invariants above:

- `NothingPanics`: `Spec => []NeverPanics`, whatever number of decoders share the
  streams. `AllLocated`: a decoder that has found its start was given the bytes that it
  counts, hence the stream has a reader (`Limited`) and the interrupt is for one that is
  there. `AllFound`: until the endpoint is ready, a stream is only valid if a decoder
  that can succeed found it so; with `Rivals` excluded there is one such decoder.
  `Seekable`: from its `SetValidStatus` to its `SeekTo` the cache is as long as what
  that decoder was given, and so is every value that others, which may still be
  appending without success, are about to store. So the cut is in range.

`CaptureProofs`, for any devices, addresses, configurations and bounds:

- `CaptureTypeCorrect`: `Spec => []TypeOK`.
- `LoopForEachHandle`: `Spec => []OneLoopEach`, from types and the number of filters.
- `LatestConfInstalled`: `Spec => []ListensToConf`. The property speaks of an empty
  mailbox; the invariant `Follows` says for any mailbox that the last update in it, or
  else the addresses the capture has, are those of the configuration (`LatestSent`),
  that the filter of the open handle is made from the capture's addresses unless an
  update failed or is under way (`FilterFollows`), and that a capture not spawned has no
  messages (`Unspawned`).
- `PacketsAskedFor`: `Spec => PacketsAsked`, for a channel of any size. `FreshPass` says
  of every packet in the channel, but those from before the last update, that it passes
  the filter the handle has now; with `FilterFollows` this is the filter of the addresses.

Only model-checked: all liveness (`CallsReturn`, `ReaderFinishes`,
`ParseReturns`, `RunningStarts`), which is out of the proof system's reach, and
`EndsAtFin`. Every other invariant and action property that a passing run checks, and
both abstract specifications of the reassembly with that of the endpoint, are theorems.

## Disagreements with the comments

Four runs, those marked violated, show that the code does not do what a comment says;
`PROJECT.json` quotes each. Others were met while modelling and have no run:

- Assembler: `End` is said to be set "if this set of bytes has a TCP FIN or RST
  accompanying it" (extendedassembly.go:64), but `next()` does not reset it and
  `pagesFromTCP` writes it in the last page of a segment only (:719): where a page that
  carried a FIN becomes the first of a segment of two, that chunk is handed out with `End`
  in the middle of the stream. `EndsAtFin` says that it does no more harm than this.
  `Skip` of a reused page is not reset either. A FIN that is not the last chunk of its
  batch does not complete the stream. The limits can be exceeded by segments of several
  pages.
- StreamReader: `DataLost` is said to be returned when `Read` "encounters a Reassembly
  with Skip != 0" (MutiCoroutineAccessReader.go:70-71), but a loss before an empty chunk
  is not reported: `stripEmpty` (:63) removes the chunk before `Read` looks at its `Skip`.
  `Reassembled` waits for ever when a channel is full whose consumer has stopped
  after an error or passes slices of length 0 (capture.go:67-94), and with it the
  capture of every flow of that device. `Close` blocks on `r.done` and panics when the
  stream completes, although its comment says it does not block.
- HTTP decoder: the Locate methods are said to return "the number of invalid bytes"
  (decoder.go:26, 28). The client's counts two bytes for the end of a line, of which it
  has counted one already and the next slice has the other: a request behind an empty
  line, two bytes, is said to be behind three, and behind k lines the count is 2k - 1
  too high. A seek by it may be out of range. The server's method looks for a
  carriage return at the end of a slice that `ReadSlice` cuts behind a line feed, and
  never finds a response.
- Endpoint: an append of one decoder that overlaps the seek of another writes back
  what was discarded (`ParsedFromTheStart` excludes it); an interrupted `Read` goes on
  waiting, and decoders that succeed one after the other block on the interrupt
  channel until somebody reads.
- Capture: an update sends the listen addresses to the capture for connections as well
  (actor.go:94); the filter string kept by a capture is not updated with its addresses;
  packets captured before an update are still assembled after it; an empty list of
  addresses filters nothing; a handle whose filter cannot be set is not closed;
  `ensureStopped` does nothing.

## Not modelled

`StreamWrapper` (nothing constructs one), `generateBPF` (nothing calls it), parsing
an IP address and a port, the goroutine number taken from a stack trace (the model
has the goroutine itself), and `main`, which starts the actor system and sends two
messages. libpcap and the actor library are external and modelled from their use.

## Plan

1. Done: all components above, their runs and the eight proof modules.
2. Theorems: what the assembler promises of a flow whose numbers wrap around, in place
   of `StreamContract`.
3. Composition of `StreamReader`'s bounded channel with the turns of Parse: a server
   that answers before the client's message is complete can fill the channel of one
   direction while Parse waits for the other, and both flows have one assembler.
