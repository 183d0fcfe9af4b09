-------------------------- MODULE ConcurrentReader --------------------------
(***************************************************************************)
(* The ConcurrentReaders of a server endpoint's connections, one for each  *)
(* direction, and the StreamReader below each of them.  While decoders     *)
(* look for a valid start they call ConcurrentRead, which gives every      *)
(* goroutine all the bytes and keeps them in a cache; after that a         *)
(* connection's Parse calls Read, which empties the cache first.           *)
(*                                                                         *)
(* A byte is its position in the stream, from 1.  The StreamReader is the  *)
(* number of bytes that arrived, the number its Read returned, and whether *)
(* the stream is complete (see module StreamReader for what is below).     *)
(*                                                                         *)
(* The mutex covers Read and ConcurrentRead, and SeekTo does without it:   *)
(* m.cache is read by one statement and written by another, so an append   *)
(* and a seek have two steps, the value to write being `written`.          *)
(***************************************************************************)
EXTENDS Integers, Sequences

CONSTANTS
  Streams,  \* one for each direction of each connection
  Decoders, \* goroutines that call ConcurrentRead through an XReader
  Parsers,  \* goroutines that call Read
  Nobody,   \* holds an unlocked mutex
  MaxBytes  \* bound: bytes that arrive for each stream

Goroutines == Decoders \cup Parsers

VARIABLES
  ready,     \* whether Reader is set and ReaderBroadcast closed
  arrived,   \* bytes sent to the StreamReader
  ended,     \* whether ReassemblyComplete was called
  taken,     \* bytes that StreamReader.Read returned
  interrupt, \* the channel of capacity one: whether it is full
  cache, index, mutex, \* index is coroutingReadIndex
  validated, forbidden, \* two bits of status
  pc,        \* where each goroutine is
  on,        \* the stream it reads
  written,   \* the cache it is about to write
  given      \* the bytes of each stream that its Reads returned

sourceVars == <<ready, arrived, ended>>
statusVars == <<validated, forbidden>>
readerVars == <<ready, arrived, ended, taken, interrupt, cache, index, mutex, validated,
                forbidden, pc, on, written, given>>

ReadersInit ==
  /\ ready = [x \in Streams |-> FALSE]
  /\ arrived = [x \in Streams |-> 0]
  /\ ended = [x \in Streams |-> FALSE]
  /\ taken = [x \in Streams |-> 0]
  /\ interrupt = [x \in Streams |-> FALSE]
  /\ cache = [x \in Streams |-> <<>>]
  /\ index = [x \in Streams |-> [g \in Goroutines |-> 0]]
  /\ mutex = [x \in Streams |-> Nobody]
  /\ validated = [x \in Streams |-> FALSE]
  /\ forbidden = [x \in Streams |-> FALSE]
  /\ pc = [g \in Goroutines |-> "none"]
  /\ written = [g \in Goroutines |-> <<>>]
  /\ given = [g \in Goroutines |-> [x \in Streams |-> <<>>]]

\* The bits of status, and the broadcast.
allowConcurrentRead(x) == ~forbidden[x]
isValidate(x) == validated[x]
waitReaderReady(x) == ready[x]
SetReaderReady(x) == ready' = [ready EXCEPT ![x] = TRUE]

At(g, label) == pc[g] = label
Goes(g, label) == pc' = [pc EXCEPT ![g] = label]

-----------------------------------------------------------------------------
(* The assembler, as far as a reader sees it: nobody can tell whether what *)
(* came before the reader was ready came just after.                       *)

Arrive(x) ==
  /\ ready[x]
  /\ ~ended[x]
  /\ arrived[x] < MaxBytes[x]
  /\ arrived' = [arrived EXCEPT ![x] = @ + 1]
  /\ UNCHANGED <<ready, ended, taken, interrupt, cache, index, mutex, statusVars, pc, on,
                 written, given>>

End(x) ==
  /\ ready[x]
  /\ ~ended[x]
  /\ ended' = [ended EXCEPT ![x] = TRUE]
  /\ UNCHANGED <<ready, arrived, taken, interrupt, cache, index, mutex, statusVars, pc, on,
                 written, given>>

-----------------------------------------------------------------------------
(* Read and ConcurrentRead.                                                *)

Returns(g) == Goes(g, "running") /\ mutex' = [mutex EXCEPT ![on[g]] = Nobody]
Gives(g, bytes) == given' = [given EXCEPT ![g][on[g]] = @ \o bytes]

\* The test of the status comes before the mutex.
CallRead(g) ==
  /\ At(g, "running")
  /\ Goes(g, IF (IF g \in Decoders THEN allowConcurrentRead(on[g]) ELSE isValidate(on[g]))
             THEN "lock" ELSE "failed")
  /\ UNCHANGED <<sourceVars, taken, interrupt, cache, index, mutex, statusVars, on, written, given>>

Lock(g) ==
  /\ At(g, "lock")
  /\ mutex[on[g]] = Nobody
  /\ mutex' = [mutex EXCEPT ![on[g]] = g]
  /\ Goes(g, "locked")
  /\ UNCHANGED <<sourceVars, taken, interrupt, cache, index, statusVars, on, written, given>>

\* The part of the cache that g has not read.
Unread(g) == SubSeq(cache[on[g]], (IF g \in Decoders THEN index[on[g]][g] ELSE 0) + 1,
                    Len(cache[on[g]]))

\* Mutant: the position advances by one whatever was copied.
ConcurrentReadCacheByOne(g) ==
  /\ g \in Decoders
  /\ At(g, "locked")
  /\ waitReaderReady(on[g])
  /\ \E n \in DOMAIN Unread(g) : Gives(g, SubSeq(Unread(g), 1, n))
  /\ index' = [index EXCEPT ![on[g]][g] = @ + 1]
  /\ Returns(g)
  /\ UNCHANGED <<sourceVars, taken, interrupt, cache, statusVars, on, written>>

\* ConcurrentRead from the cache, once the reader is ready.
ConcurrentReadCache(g) ==
  /\ g \in Decoders
  /\ At(g, "locked")
  /\ waitReaderReady(on[g])
  /\ \E n \in DOMAIN Unread(g) :
       /\ Gives(g, SubSeq(Unread(g), 1, n))
       /\ index' = [index EXCEPT ![on[g]][g] = @ + n]
  /\ Returns(g)
  /\ UNCHANGED <<sourceVars, taken, interrupt, cache, statusVars, on, written>>

\* Read from the cache.
ReadCache(g) ==
  /\ g \in Parsers
  /\ At(g, "locked")
  /\ \E n \in DOMAIN Unread(g) :
       /\ Gives(g, SubSeq(Unread(g), 1, n))
       /\ cache' = [cache EXCEPT ![on[g]] = SubSeq(@, n + 1, Len(@))]
  /\ Returns(g)
  /\ UNCHANGED <<sourceVars, taken, interrupt, index, statusVars, on, written>>

\* g is in StreamReader.Read, with the mutex.
InReader(g) == At(g, "locked") /\ waitReaderReady(on[g]) /\ Unread(g) = <<>>

\* StreamReader.Read returns n bytes.
Taken(x, n) == [i \in 1 .. n |-> taken[x] + i]

\* ConcurrentRead appends them to the cache: the cache is read here ...
ConcurrentReadTake(g) ==
  /\ g \in Decoders
  /\ InReader(g)
  /\ \E n \in 1 .. arrived[on[g]] - taken[on[g]] :
       /\ taken' = [taken EXCEPT ![on[g]] = @ + n]
       /\ written' = [written EXCEPT ![g] = cache[on[g]] \o Taken(on[g], n)]
       /\ index' = [index EXCEPT ![on[g]][g] = @ + n]
       /\ Gives(g, Taken(on[g], n))
  /\ Goes(g, "append")
  /\ UNCHANGED <<sourceVars, interrupt, cache, mutex, statusVars, on>>

\* ... and written here.
ConcurrentReadAppend(g) ==
  /\ At(g, "append")
  /\ cache' = [cache EXCEPT ![on[g]] = written[g]]
  /\ written' = [written EXCEPT ![g] = <<>>]
  /\ Returns(g)
  /\ UNCHANGED <<sourceVars, taken, interrupt, index, statusVars, on, given>>

\* Read returns them.
ReadTake(g) ==
  /\ g \in Parsers
  /\ InReader(g)
  /\ \E n \in 1 .. arrived[on[g]] - taken[on[g]] :
       /\ taken' = [taken EXCEPT ![on[g]] = @ + n]
       /\ Gives(g, Taken(on[g], n))
  /\ Returns(g)
  /\ UNCHANGED <<sourceVars, interrupt, cache, index, statusVars, on, written>>

AtEnd(g) == InReader(g) /\ ended[on[g]] /\ taken[on[g]] = arrived[on[g]]

\* Mutant: the mutex is not unlocked when there is an error.
ReadEOFLocked(g) ==
  /\ AtEnd(g)
  /\ Goes(g, "failed")
  /\ UNCHANGED <<sourceVars, taken, interrupt, cache, index, mutex, statusVars, on, written, given>>

\* io.EOF.
ReadEOF(g) ==
  /\ AtEnd(g)
  /\ Goes(g, "failed")
  /\ mutex' = [mutex EXCEPT ![on[g]] = Nobody]
  /\ UNCHANGED <<sourceVars, taken, interrupt, cache, index, statusVars, on, written, given>>

\* The select of StreamReader.Read receives an interrupt and goes on waiting.
ReceiveInterrupt(g) ==
  /\ InReader(g)
  /\ interrupt[on[g]]
  /\ interrupt' = [interrupt EXCEPT ![on[g]] = FALSE]
  /\ UNCHANGED <<sourceVars, taken, cache, index, mutex, statusVars, pc, on, written, given>>

ReadStep(g) ==
  \/ Lock(g)
  \/ ConcurrentReadCache(g) \/ ConcurrentReadTake(g) \/ ConcurrentReadAppend(g)
  \/ ReadCache(g) \/ ReadTake(g)
  \/ ReadEOF(g) \/ ReceiveInterrupt(g)

-----------------------------------------------------------------------------
(* What a decoder does to a stream that it found valid.                    *)

SetValidStatus(g) ==
  /\ At(g, "valid")
  /\ validated' = [validated EXCEPT ![on[g]] = TRUE]
  /\ Goes(g, "seek")
  /\ UNCHANGED <<sourceVars, taken, interrupt, cache, index, mutex, forbidden, on, written, given>>

\* m.cache = m.cache[n:], read ...
SeekTo(g, n) ==
  /\ At(g, "seek")
  /\ written' = [written EXCEPT ![g] = SubSeq(cache[on[g]], n + 1, Len(cache[on[g]]))]
  /\ Goes(g, "sought")
  /\ UNCHANGED <<sourceVars, taken, interrupt, cache, index, mutex, statusVars, on, given>>

\* ... and written.
Sought(g) ==
  /\ At(g, "sought")
  /\ cache' = [cache EXCEPT ![on[g]] = written[g]]
  /\ written' = [written EXCEPT ![g] = <<>>]
  /\ Goes(g, "forbid")
  /\ UNCHANGED <<sourceVars, taken, interrupt, index, mutex, statusVars, on, given>>

ForbiddenConcurrentRead(g) ==
  /\ At(g, "forbid")
  /\ forbidden' = [forbidden EXCEPT ![on[g]] = TRUE]
  /\ Goes(g, "interrupt")
  /\ UNCHANGED <<sourceVars, taken, interrupt, cache, index, mutex, validated, on, written, given>>

\* The send on the channel, blocked while that is full.
InterruptBlockingReading(x) ==
  /\ ~interrupt[x]
  /\ interrupt' = [interrupt EXCEPT ![x] = TRUE]

=============================================================================
