----------------------------- MODULE StreamReader -----------------------------
(***************************************************************************)
(* The StreamReaders that DefaultStreamFactory.New hands to an Assembler,  *)
(* each with the goroutine that reads from it.  The assembler's goroutine  *)
(* calls Reassembled, which sends the batch on a buffered channel, and     *)
(* ReassemblyComplete, which closes it; the consumer calls Read until it   *)
(* returns an error, or Close.                                             *)
(*                                                                         *)
(* A batch is a slice of the one array behind Assembler.ret, which the     *)
(* assembler writes again from the start for its next call, while batches  *)
(* of it still wait in channels or are being read: nobody copies them and  *)
(* the handshake on r.done is commented out.  Here the array is a variable *)
(* and a batch is a range of its slots.  That is a data race; a slot is    *)
(* read and written as a whole here, a torn one would mix two of its       *)
(* values.  A batch is shorter than the array is first allocated, so that  *)
(* append never moves it.                                                  *)
(*                                                                         *)
(* The bytes of a chunk that was buffered lie in its page, which goes back *)
(* to the cache before the chunk is sent and is filled again with the      *)
(* bytes of a later segment of any stream: no slot changes, but the bytes  *)
(* it refers to do.  The bytes of a chunk without a page are the packet's. *)
(*                                                                         *)
(* Bytes are positions in their stream, and the bytes missing before a     *)
(* chunk with Skip are one position.  The field first is left out, it has  *)
(* no effect since the handshake is gone; the interrupt channel is left to *)
(* the reader that uses it.                                                *)
(***************************************************************************)
EXTENDS Integers, Sequences, FiniteSetsExt

CONSTANTS
  Streams,    \* the streams the factory may be asked for
  Batches,    \* the batches an assembler may send, see Batch
  Pages,      \* the pages of the assembler's cache
  Drains,     \* the streams whose consumer reads until the end
  Closers,    \* the streams whose consumer may call Close
  ReadSizes,  \* lengths of the slices passed to Read
  LossErrors, \* StreamReader.LossErrors
  Capacity,   \* capacity of the channel reassembled, 1024 in the code
  MaxBatches  \* bound: Reassembled calls in a behaviour

NoPage == "packet" \* of a chunk whose bytes are the packet's

\* The positions missing before chunk c.
Missing(c) == IF c.skip THEN 1 ELSE 0

\* The chunks of a Reassembled call: whether Skip is set, where the bytes begin,
\* counted from the end of the batch before, how many they are and in which page.
Batch ==
  {b \in Seq([skip : BOOLEAN, at : Nat, len : Nat, page : Pages \cup {NoPage}]) :
     /\ b # <<>>
     /\ b[1].at = Missing(b[1])
     /\ \A i \in DOMAIN b \ {1} : b[i].at = b[i-1].at + b[i-1].len + Missing(b[i])}

\* The positions that batch b takes.
Extent(b) == b[Len(b)].at + b[Len(b)].len

ASSUME StreamReaderAssumption ==
  /\ "nobody" \notin Streams
  /\ Batches \subseteq Batch
  /\ NoPage \notin Pages
  /\ Drains \subseteq Streams
  /\ Closers \subseteq Streams
  /\ ReadSizes \subseteq Nat
  /\ LossErrors \in BOOLEAN
  /\ Capacity \in Nat \ {0}
  /\ MaxBatches \in Nat

VARIABLES
  array,      \* the slots behind Assembler.ret
  held,       \* the stream that has each page in its list, if any
  reader,     \* the StreamReader of each stream and where its goroutine is
  reassembled, \* the channel of each reader: ranges of slots
  complete,   \* whether ReassemblyComplete was called
  sending,    \* the Reassembled call the assembler is in
  sent,       \* position after the last byte the assembler sent
  got,        \* position after the last byte the consumer was given, told lost or past
  spoilt,     \* whether a slot or page was written again that the stream had to read
  crashed,    \* whether a goroutine panicked, which ends the program
  batches     \* Reassembled calls so far

vars == <<array, held, reader, reassembled, complete, sending, sent, got, spoilt,
          crashed, batches>>

\* A range of slots, the Go slice array[from..to].
NoSlots == [from |-> 1, to |-> 0]

\* size is the length of the slice p given to Read, length what copy returned.
NoReader ==
  [pc |-> "none", size |-> 0, length |-> 0, current |-> NoSlots, closed |-> FALSE,
   lossReported |-> FALSE]

Idle == [to |-> "nobody", batch |-> NoSlots]

Init ==
  /\ array = <<>>
  /\ held = [q \in Pages |-> "nobody"]
  /\ reader = [s \in Streams |-> NoReader]
  /\ reassembled = [s \in Streams |-> <<>>]
  /\ complete = [s \in Streams |-> FALSE]
  /\ sending = Idle
  /\ sent = [s \in Streams |-> 0]
  /\ got = [s \in Streams |-> 0]
  /\ spoilt = [s \in Streams |-> FALSE]
  /\ crashed = FALSE
  /\ batches = 0

Runs(s, label) == ~crashed /\ reader[s].pc = label

Crash ==
  /\ crashed' = TRUE
  /\ UNCHANGED <<array, held, reader, reassembled, complete, sending, sent, got,
                 spoilt, batches>>

-----------------------------------------------------------------------------
(* The assembler.                                                          *)

\* The factory makes the reader and starts its consumer.
New(s) ==
  /\ Runs(s, "none")
  /\ sending = Idle
  /\ reader' = [reader EXCEPT ![s].pc = "idle"]
  /\ UNCHANGED <<array, held, reassembled, complete, sending, sent, got, spoilt, crashed, batches>>

\* The batches in the channel of s, and the slots that s has still to read.
Waiting(s) == {reassembled[s][i] : i \in DOMAIN reassembled[s]}

ToRead(s) == UNION {r.from .. r.to : r \in Waiting(s) \cup {reader[s].current}}

\* pagesFromTCP: a page of the cache is filled with bytes of a segment that is
\* ahead, or the first.  Which free page next() takes is left open, and a page
\* that is not filled to its end counts as changed.  A call that fills a page and
\* sends it at once is this step and the next.
Buffer(s, q) ==
  /\ ~crashed
  /\ sending = Idle
  /\ reader[s].pc # "none"
  /\ ~complete[s]
  /\ held[q] = "nobody"
  /\ held' = [held EXCEPT ![q] = s]
  /\ array' = [i \in DOMAIN array |->
                 [array[i] EXCEPT !.whole = @ /\ array[i].page # q]]
  /\ spoilt' = [t \in Streams |-> spoilt[t] \/ \E i \in ToRead(t) : array[i].page = q]
  /\ UNCHANGED <<reader, reassembled, complete, sending, sent, got, crashed, batches>>

\* The slots of a batch b of stream s.
Slots(s, b) ==
  [i \in DOMAIN b |->
     [of |-> s, at |-> sent[s] + b[i].at, len |-> b[i].len, skip |-> b[i].skip,
      page |-> b[i].page, whole |-> TRUE]]

PagesIn(b) == {b[i].page : i \in DOMAIN b} \cap Pages

\* a.ret = a.ret[:0] and the appends of the next batch, up to the call of
\* Reassembled.  Its pages go back to the cache.
Assemble(s, b) ==
  /\ ~crashed
  /\ sending = Idle
  /\ reader[s].pc # "none"
  /\ ~complete[s]
  /\ batches < MaxBatches
  /\ \A q \in PagesIn(b) : held[q] = s
  /\ batches' = batches + 1
  /\ held' = [q \in Pages |-> IF q \in PagesIn(b) THEN "nobody" ELSE held[q]]
  /\ array' = Slots(s, b) \o SubSeq(array, Len(b) + 1, Len(array))
  /\ sending' = [to |-> s, batch |-> [from |-> 1, to |-> Len(b)]]
  /\ sent' = [sent EXCEPT ![s] = @ + Extent(b)]
  /\ spoilt' = [t \in Streams |-> spoilt[t] \/ ToRead(t) \cap 1 .. Len(b) # {}]
  /\ UNCHANGED <<reader, reassembled, complete, got, crashed>>

\* Mutant: the channel has no limit.
ReassembledUnbounded(s) ==
  /\ ~crashed
  /\ sending.to = s
  /\ reassembled' = [reassembled EXCEPT ![s] = Append(@, sending.batch)]
  /\ sending' = Idle
  /\ UNCHANGED <<array, held, reader, complete, sent, got, spoilt, crashed, batches>>

\* The send on the channel, blocked while that is full.
Reassembled(s) ==
  /\ ~crashed
  /\ sending.to = s
  /\ Len(reassembled[s]) < Capacity
  /\ reassembled' = [reassembled EXCEPT ![s] = Append(@, sending.batch)]
  /\ sending' = Idle
  /\ UNCHANGED <<array, held, reader, complete, sent, got, spoilt, crashed, batches>>

\* Closes both channels: a goroutine that waits to send on r.done panics.  The
\* pages that the connection still has go back to the cache.
ReassemblyComplete(s) ==
  /\ ~crashed
  /\ sending = Idle
  /\ reader[s].pc # "none"
  /\ ~complete[s]
  /\ complete' = [complete EXCEPT ![s] = TRUE]
  /\ held' = [q \in Pages |-> IF held[q] = s THEN "nobody" ELSE held[q]]
  /\ crashed' = (reader[s].pc = "done")
  /\ UNCHANGED <<array, reader, reassembled, sending, sent, got, spoilt, batches>>

-----------------------------------------------------------------------------
(* Read.                                                                   *)

\* Mutant: a loss stays reported when the next chunk comes to the front.
stripEmptyReported(r) ==
  LET full == {i \in r.current.from .. r.current.to : array[i].len > 0}
  IN  [r EXCEPT !.current.from = IF full = {} THEN r.current.to + 1 ELSE Min(full)]

\* The reader r without the empty slots at its front.
stripEmpty(r) ==
  LET full == {i \in r.current.from .. r.current.to : array[i].len > 0}
      from == IF full = {} THEN r.current.to + 1 ELSE Min(full)
  IN  [r EXCEPT !.current.from = from,
                !.lossReported = @ /\ from = r.current.from]

\* The position a consumer of s is at when stripEmpty has taken empty slots, and
\* what is missing before them, off the front of reader r.
Passed(s, r) ==
  LET last == stripEmpty(r).current.from - 1
  IN  IF last \in r.current.from .. r.current.to THEN array[last].at ELSE got[s]

\* Where Read is once it has stripped the current batch.
Looks(r) == [r EXCEPT !.pc = IF r.current.from <= r.current.to THEN "head"
                             ELSE IF r.closed THEN "eof" ELSE "select"]

\* The consumer calls Read with a slice of n bytes.
BeginRead(s, n) ==
  /\ Runs(s, "idle")
  /\ s \in Drains => n > 0
  /\ LET r == [reader[s] EXCEPT !.size = n]
     IN  /\ reader' = [reader EXCEPT ![s] = Looks(stripEmpty(r))]
         /\ got' = [got EXCEPT ![s] = Passed(s, r)]
  /\ UNCHANGED <<array, held, reassembled, complete, sending, sent, spoilt, crashed, batches>>

Receive(s) ==
  LET r == [reader[s] EXCEPT !.current = Head(reassembled[s])]
  IN  /\ Runs(s, "select")
      /\ reassembled[s] # <<>>
      /\ reader' = [reader EXCEPT ![s] = Looks(stripEmpty(r))]
      /\ got' = [got EXCEPT ![s] = Passed(s, r)]
      /\ reassembled' = [reassembled EXCEPT ![s] = Tail(@)]
      /\ UNCHANGED <<array, held, complete, sending, sent, spoilt, crashed, batches>>

\* Mutant: a closed channel is taken for the end although batches wait in it.
ReceiveClosedEarly(s) ==
  /\ Runs(s, "select")
  /\ complete[s]
  /\ reader' = [reader EXCEPT ![s].closed = TRUE, ![s].pc = "eof"]
  /\ UNCHANGED <<array, held, reassembled, complete, sending, sent, got, spoilt, crashed, batches>>

\* Mutant: the end is received and forgotten.
ReceiveClosedForgets(s) ==
  /\ Runs(s, "select")
  /\ reassembled[s] = <<>>
  /\ complete[s]
  /\ UNCHANGED vars

ReceiveClosed(s) ==
  /\ Runs(s, "select")
  /\ reassembled[s] = <<>>
  /\ complete[s]
  /\ reader' = [reader EXCEPT ![s].closed = TRUE, ![s].pc = "eof"]
  /\ UNCHANGED <<array, held, reassembled, complete, sending, sent, got, spoilt, crashed, batches>>

\* current := &r.current[0].
Front(s) == array[reader[s].current.from]

ReportsLoss(s) == LossErrors /\ ~reader[s].lossReported /\ Front(s).skip

\* Read returns DataLost.
DataLost(s) ==
  /\ Runs(s, "head")
  /\ ReportsLoss(s)
  /\ reader' = [reader EXCEPT ![s].lossReported = TRUE, ![s].size = 0, ![s].pc = "idle"]
  /\ got' = [got EXCEPT ![s] = @ + 1]
  /\ UNCHANGED <<array, held, reassembled, complete, sending, sent, spoilt, crashed, batches>>

Least(m, n) == IF m < n THEN m ELSE n

\* length := copy(p, current.Bytes).
Copy(s) ==
  LET n == Least(reader[s].size, Front(s).len)
  IN  /\ Runs(s, "head")
      /\ ~ReportsLoss(s)
      /\ reader' = [reader EXCEPT ![s].pc = "advance", ![s].length = n]
      /\ got' = [got EXCEPT ![s] = Front(s).at + n]
      /\ UNCHANGED <<array, held, reassembled, complete, sending, sent, spoilt, crashed, batches>>

\* current.Bytes = current.Bytes[length:], and Read returns.  If the slot was
\* written again, this cuts the bytes of its new stream.
Advance(s) ==
  LET n == reader[s].length
  IN  /\ Runs(s, "advance")
      /\ n <= Front(s).len
      /\ array' = [array EXCEPT ![reader[s].current.from].at = @ + n,
                                ![reader[s].current.from].len = @ - n]
      /\ reader' = [reader EXCEPT ![s].size = 0, ![s].length = 0, ![s].pc = "idle"]
      /\ spoilt' = [spoilt EXCEPT ![Front(s).of] = @ \/ Front(s).of # s]
      /\ UNCHANGED <<held, reassembled, complete, sending, sent, got, crashed, batches>>

\* It was written again with fewer bytes: slice bounds out of range.
AdvancePanics(s) ==
  /\ Runs(s, "advance")
  /\ reader[s].length > Front(s).len
  /\ Crash

-----------------------------------------------------------------------------
(* A consumer outside Drains may stop: http.ReadRequest returned an error, *)
(* or Close is called, which nothing in the program does.                  *)

Leave(s) ==
  /\ Runs(s, "idle")
  /\ s \notin Drains
  /\ reader' = [reader EXCEPT ![s].pc = "left"]
  /\ UNCHANGED <<array, held, reassembled, complete, sending, sent, got, spoilt, crashed, batches>>

Close(s) ==
  /\ Runs(s, "idle")
  /\ s \in Closers \ Drains
  /\ reader' = [reader EXCEPT ![s].current = NoSlots, ![s].closed = TRUE, ![s].pc = "closing"]
  /\ UNCHANGED <<array, held, reassembled, complete, sending, sent, got, spoilt, crashed, batches>>

\* A batch is dropped, and Close waits on r.done, where nobody receives.
CloseReceive(s) ==
  /\ Runs(s, "closing")
  /\ reassembled[s] # <<>>
  /\ reassembled' = [reassembled EXCEPT ![s] = Tail(@)]
  /\ reader' = [reader EXCEPT ![s].pc = "done"]
  /\ UNCHANGED <<array, held, complete, sending, sent, got, spoilt, crashed, batches>>

\* The channel done is closed already.
ClosePanics(s) ==
  /\ Runs(s, "done")
  /\ complete[s]
  /\ Crash

CloseReturns(s) ==
  /\ Runs(s, "closing")
  /\ reassembled[s] = <<>>
  /\ complete[s]
  /\ reader' = [reader EXCEPT ![s].pc = "left"]
  /\ UNCHANGED <<array, held, reassembled, complete, sending, sent, got, spoilt, crashed, batches>>

-----------------------------------------------------------------------------
\* A Read or Close that was begun.
Step(s) ==
  \/ Receive(s) \/ ReceiveClosed(s)
  \/ DataLost(s) \/ Copy(s)
  \/ Advance(s) \/ AdvancePanics(s)
  \/ CloseReceive(s) \/ ClosePanics(s) \/ CloseReturns(s)

Read(s) == \E n \in ReadSizes : BeginRead(s, n)

Next ==
  \E s \in Streams :
    \/ New(s)
    \/ \E q \in Pages : Buffer(s, q)
    \/ \E b \in Batches : Assemble(s, b)
    \/ Reassembled(s) \/ ReassemblyComplete(s)
    \/ Read(s) \/ Step(s)
    \/ Leave(s) \/ Close(s)

Spec == Init /\ [][Next]_vars

\* Goroutines that can go on do: a consumer calls Read again, or it stops if it is
\* one that may.  Which packets arrive is left to the network: no fairness for
\* Buffer, Assemble and ReassemblyComplete.
FairSpec ==
  /\ Spec
  /\ \A s \in Streams :
       /\ WF_vars(Reassembled(s))
       /\ WF_vars(Step(s))
       /\ WF_vars(Read(s) \/ Leave(s) \/ Close(s))

-----------------------------------------------------------------------------
Labels == {"none", "idle", "select", "head", "advance", "eof", "left", "closing", "done"}

Slot ==
  [of : Streams, at : Nat, len : Nat, skip : BOOLEAN, page : Pages \cup {NoPage},
   whole : BOOLEAN]

Slice == [from : Nat \ {0}, to : Nat]

Reader ==
  [pc : Labels, size : Nat, length : Nat, current : Slice, closed : BOOLEAN,
   lossReported : BOOLEAN]

\* Every variable has the type of what it stands for in the code, and the
\* channel holds no more than its capacity.
TypeOK ==
  /\ array \in Seq(Slot)
  /\ held \in [Pages -> Streams \cup {"nobody"}]
  /\ reader \in [Streams -> Reader]
  /\ reassembled \in [Streams -> Seq(Slice)]
  /\ \A s \in Streams : Len(reassembled[s]) <= Capacity
  /\ complete \in [Streams -> BOOLEAN]
  /\ sending \in [to : Streams \cup {"nobody"}, batch : Slice]
  /\ sent \in [Streams -> Nat]
  /\ got \in [Streams -> Nat]
  /\ spoilt \in [Streams -> BOOLEAN]
  /\ crashed \in BOOLEAN
  /\ batches \in 0 .. MaxBatches

\* io.EOF is the end: the stream is complete and every batch was received, and
\* if no slot and no page of them was written again, the consumer was given all
\* the bytes.
EOFMeansAll ==
  \A s \in Streams : reader[s].pc = "eof" =>
    /\ complete[s]
    /\ reassembled[s] = <<>>
    /\ spoilt[s] \/ got[s] = sent[s]

\* A Read copies the bytes of its stream that follow those of the Read before.
\* With LossErrors it has returned DataLost once for the bytes missing between
\* them, but for those missing before empty chunks.  This holds whatever the
\* sizes of slices and chunks, if no slot and no page was written again.
ReadsInOrder ==
  [][\A s \in Streams :
       Copy(s) /\ ~spoilt[s] =>
         /\ Front(s).of = s /\ Front(s).whole
         /\ Front(s).at - got[s] \in (IF LossErrors THEN {0} ELSE {0, 1})]_vars

\* The consumer that reads on is told of the end.
ReaderFinishes ==
  \A s \in Drains : complete[s] ~> reader[s].pc = "eof" \/ crashed

\* Read hands out the bytes that were assembled for this stream (the comment of
\* Stream.Reassembled: the Reassembly objects are reused, it is important to
\* copy what is needed of them).
ReadsOwnBytes ==
  [][\A s \in Streams : Copy(s) => Front(s).of = s /\ Front(s).whole]_vars

=============================================================================
