------------------------------ MODULE Assembly ------------------------------
(***************************************************************************)
(* One Assembler with a StreamPool of its own, as capture.ensureRunning    *)
(* builds them: TCP segments arrive in any order, possibly repeated or     *)
(* lost, and are handed to one Stream per key in stream order.             *)
(*                                                                         *)
(* The operations of the Assembler (AssembleWithTimestamp, FlushOlderThan, *)
(* FlushAll) run one at a time; each is a first step chosen by the caller  *)
(* followed by the iterations of its loops, one step per iteration, and no *)
(* other operation starts before it has returned (phase = "idle").         *)
(*                                                                         *)
(* Data is abstracted to positions: a chunk is the position and the length *)
(* of its bytes in the TCP stream, a position being the distance from the  *)
(* initial sequence number Isn.  A connection's doubly-linked page list is *)
(* a sequence.  A page in the page cache is what survives in it, the Skip  *)
(* and End fields that next() does not clear.                              *)
(***************************************************************************)
EXTENDS TcpSequence, Sequences, FiniteSets

CONSTANTS
  Keys,                          \* the TCP flows (network and transport flow)
  Packets,                       \* the segments that may arrive, see Segment
  Isn,                           \* sequence number of position 0 (the SYN)
  PageBytes,                     \* bytes per page, pageBytes
  InitialAllocSize,              \* pages allocated first, initialAllocSize
  MaxBufferedPagesPerConnection, \* AssemblerOptions; 0 is unlimited
  MaxBufferedPagesTotal,         \* AssemblerOptions; 0 is unlimited
  FlushCalls,                    \* whether the caller uses the Flush methods
  MaxPackets,                    \* bound: segments that arrive in a behaviour
  MaxTime                        \* bound: the last timestamp

\* A FIN and an RST are one flag, the code always tests for either.
Segment == [pos : Nat, len : Nat, syn : BOOLEAN, fin : BOOLEAN]

Ceiling(n, d) == (n + d - 1) \div d

PagesOf(p) == IF p.len = 0 THEN 1 ELSE Ceiling(p.len, PageBytes)

ASSUME AssemblyAssumption ==
  /\ IsFiniteSet(Keys)
  /\ Isn \in Sequence
  /\ PageBytes \in Nat \ {0}
  /\ InitialAllocSize \in Nat \ {0}
  /\ MaxBufferedPagesPerConnection \in Nat
  /\ MaxBufferedPagesTotal \in Nat
  /\ FlushCalls \in BOOLEAN
  /\ MaxPackets \in Nat
  /\ MaxTime \in Nat

\* A SYN carries no data (no TCP Fast Open), and a packet needs no more pages
\* than one grow() of the page cache provides.
ASSUME PacketsAssumption ==
  /\ Packets \subseteq Segment
  /\ \A p \in Packets : p.syn => p.len = 0
  /\ \A p \in Packets : PagesOf(p) <= InitialAllocSize

VARIABLES
  conns,   \* the StreamPool: the connection of each key
  cache,   \* the Assembler's pageCache
  ret,     \* Assembler.ret: chunks collected for the next Reassembled call
  phase,   \* where the running operation is
  key,     \* the key of the connection being worked on
  flush,   \* the running Flush operation
  streams, \* what each key's Stream received, see StreamContract
  now,     \* the clock the timestamps are taken from
  packets  \* number of segments that arrived

vars == <<conns, cache, ret, phase, key, flush, streams, now, packets>>

Contract == INSTANCE StreamContract WITH Keys <- Keys, streams <- streams

-----------------------------------------------------------------------------
(* The page cache.  free is a stack: next() takes from its end.            *)

Leftover == [skip |-> 0, end |-> FALSE]

newPageCache ==
  [free |-> [i \in 1 .. InitialAllocSize |-> Leftover],
   used |-> 0, size |-> InitialAllocSize, pcSize |-> 2 * InitialAllocSize]

\* The cache with at least n free pages: the stack a caller of next() sees
\* once it has found it empty and grown it.
Grown(c, n) ==
  IF Len(c.free) >= n THEN c
  ELSE [c EXCEPT !.free = [i \in 1 .. c.pcSize |-> Leftover] \o @,
                 !.size = @ + c.pcSize, !.pcSize = 2 * @]

\* n calls of next(), then Len(list) calls of replace() with the pages of a sequence.
TakePages(c, n) ==
  LET g == Grown(c, n)
  IN  [g EXCEPT !.free = SubSeq(@, 1, Len(@) - n), !.used = @ + n]

TakenPage(c, n, i) == LET g == Grown(c, n) IN g.free[Len(g.free) + 1 - i]

replace(c, list) ==
  [c EXCEPT !.used = @ - Len(list),
            !.free = @ \o [i \in DOMAIN list |->
                             [skip |-> list[i].skip, end |-> list[i].end]]]

-----------------------------------------------------------------------------
(* Connections.                                                            *)

NoConnection ==
  [open |-> FALSE, pages |-> 0, list |-> <<>>,
   nextSeq |-> invalidSequence, lastSeen |-> 0]

\* StreamPool.newConnection: a pooled connection object after reset().
reset == [NoConnection EXCEPT !.open = TRUE]

seqOf(p) == Add(Isn, p.pos)

\* Mutant: the last page counted as full.
pagesFromTCPFull(p, c, ts) ==
  LET n == PagesOf(p)
  IN  [i \in 1 .. n |->
        [seq  |-> Add(seqOf(p), (i - 1) * PageBytes),
         at   |-> p.pos + (i - 1) * PageBytes,
         len  |-> IF i < n THEN PageBytes ELSE p.len - n * PageBytes,
         skip |-> TakenPage(c, n, i).skip, end |-> p.fin, seen |-> ts]]

\* Mutant: a page keeps the End flag of its former use.
pagesFromTCPKeepsEnd(p, c, ts) ==
  LET n == PagesOf(p)
  IN  [i \in 1 .. n |->
        [seq  |-> Add(seqOf(p), (i - 1) * PageBytes),
         at   |-> p.pos + (i - 1) * PageBytes,
         len  |-> IF i < n THEN PageBytes ELSE p.len - (n - 1) * PageBytes,
         skip |-> TakenPage(c, n, i).skip,
         end  |-> (p.fin /\ i = n) \/ TakenPage(c, n, i).end, seen |-> ts]]

\* The pages of a segment, in order; only the last one is given an End flag.
pagesFromTCP(p, c, ts) ==
  LET n == PagesOf(p)
  IN  [i \in 1 .. n |->
        [seq  |-> Add(seqOf(p), (i - 1) * PageBytes),
         at   |-> p.pos + (i - 1) * PageBytes,
         len  |-> IF i < n THEN PageBytes ELSE p.len - (n - 1) * PageBytes,
         skip |-> TakenPage(c, n, i).skip,
         end  |-> IF i = n THEN p.fin ELSE TakenPage(c, n, i).end,
         seen |-> ts]]

\* Index of the last page, from the end of the list, that is not after seq.
traverseConn(list, seq) ==
  LET before == {i \in DOMAIN list : Difference(list[i].seq, seq) >= 0}
  IN  IF before = {} THEN 0 ELSE CHOOSE i \in before : \A j \in before : j <= i

pushBetween(list, i, run) ==
  SubSeq(list, 1, i) \o run \o SubSeq(list, i + 1, Len(list))

(***************************************************************************)
(* The helpers below map a work state [conn, cache, ret], the connection   *)
(* under its lock together with the assembler's own state, to the next.    *)
(***************************************************************************)
Chunk(page, span, skip) ==
  [at |-> page.at + span.cut, len |-> span.len, skip |-> skip,
   start |-> FALSE, end |-> page.end]

\* Mutant: the page is popped, but not counted off.
addNextFromConnUncounted(w) ==
  LET first == Head(w.conn.list)
      span  == byteSpan(w.conn.nextSeq, first.seq, first.len)
  IN  [conn  |-> [w.conn EXCEPT !.list = Tail(@), !.nextSeq = span.next],
       cache |-> replace(w.cache, <<first>>),
       ret   |-> Append(w.ret, Chunk(first, span, first.skip))]

\* Moves the first page of the connection to ret and its page to the cache.
addNextFromConn(w) ==
  LET first == Head(w.conn.list)
      diff  == Difference(w.conn.nextSeq, first.seq)
      skip  == IF w.conn.nextSeq = invalidSequence THEN -1
               ELSE IF diff > 0 THEN diff
               ELSE first.skip
      span  == byteSpan(w.conn.nextSeq, first.seq, first.len)
  IN  [conn  |-> [w.conn EXCEPT !.list = Tail(@), !.pages = @ - 1,
                                !.nextSeq = span.next],
       cache |-> replace(w.cache, <<[first EXCEPT !.skip = skip]>>),
       ret   |-> Append(w.ret, Chunk(first, span, skip))]

\* Mutants: the limit 0 is not unlimited; the total limit is forgotten.
HitsLimitAtZero(conn, c) == conn.pages >= MaxBufferedPagesPerConnection

HitsLimitPerConnection(conn, c) ==
  /\ MaxBufferedPagesPerConnection > 0
  /\ conn.pages >= MaxBufferedPagesPerConnection

HitsLimit(conn, c) ==
  \/ /\ MaxBufferedPagesPerConnection > 0
     /\ conn.pages >= MaxBufferedPagesPerConnection
  \/ /\ MaxBufferedPagesTotal > 0
     /\ c.used >= MaxBufferedPagesTotal

insertIntoConn(w, p, ts) ==
  LET run  == pagesFromTCP(p, w.cache, ts)
      i    == traverseConn(w.conn.list, seqOf(p))
      put  == [conn  |-> [w.conn EXCEPT !.list = pushBetween(@, i, run), !.pages = @ + Len(run)],
               cache |-> TakePages(w.cache, Len(run)),
               ret   |-> w.ret]
  IN  IF HitsLimit(put.conn, put.cache) THEN addNextFromConn(put) ELSE put

\* The panic("wtf") guard of insertIntoConn.
InsertPanics(conn) == conn.list # <<>> /\ Head(conn.list).seq = conn.nextSeq

-----------------------------------------------------------------------------
NoFlush == [op |-> "none", before |-> 0, todo |-> <<>>]

Init ==
  /\ conns = [k \in Keys |-> NoConnection]
  /\ cache = newPageCache
  /\ ret = <<>>
  /\ phase = "idle"
  /\ key \in Keys
  /\ flush = NoFlush
  /\ streams = [k \in Keys |-> [Contract!NewStream EXCEPT !.state = "none"]]
  /\ now = 0
  /\ packets = 0

Tick ==
  /\ phase = "idle"
  /\ now < MaxTime
  /\ now' = now + 1
  /\ UNCHANGED <<conns, cache, ret, phase, key, flush, streams, packets>>

\* Where the operation continues when a Reassembled call needed no close.
Resume == IF flush.op = "none" THEN "idle" ELSE "flush"

-----------------------------------------------------------------------------
(* AssembleWithTimestamp: ignore empty segments, find or create the        *)
(* connection, then one of three branches on the sequence number.          *)

Arrives(k, p) ==
  /\ phase = "idle"
  /\ packets < MaxPackets
  /\ p.syn \/ p.fin \/ p.len > 0
  /\ packets' = packets + 1
  /\ key' = k
  /\ UNCHANGED <<flush, now>>

Seen(conn) == [conn EXCEPT !.lastSeen = IF @ < now THEN now ELSE @]

Commit(k, w) ==
  /\ conns' = [conns EXCEPT ![k] = w.conn]
  /\ cache' = w.cache
  /\ ret' = w.ret

\* The first segment of a connection creates it and its stream; its bytes go
\* out at once and it is buffered as well.  A segment that is neither a SYN
\* nor carries data creates nothing (getConnection with end = TRUE).
AssembleFirst(k, p) ==
  LET conn  == [Seen(reset) EXCEPT
                  !.nextSeq = Add(seqOf(p), p.len + (IF p.syn THEN 1 ELSE 0))]
      chunk == [at |-> p.pos + (IF p.syn THEN 1 ELSE 0), len |-> p.len,
                skip |-> IF p.syn THEN 0 ELSE -1, start |-> p.syn, end |-> FALSE]
  IN  /\ Arrives(k, p)
      /\ ~conns[k].open
      /\ p.syn \/ p.len > 0
      /\ streams' = [streams EXCEPT ![k] = Contract!NewStream]
      /\ Commit(k, insertIntoConn([conn |-> conn, cache |-> cache, ret |-> <<chunk>>], p, now))
      /\ phase' = "gather"

\* A segment beyond the expected one is buffered; bytes go out only if that
\* reaches a limit.
AssembleAhead(k, p) ==
  LET conn == Seen(conns[k])
      w    == insertIntoConn([conn |-> conn, cache |-> cache, ret |-> <<>>], p, now)
  IN  /\ Arrives(k, p)
      /\ conns[k].open
      /\ Difference(conn.nextSeq, seqOf(p)) > 0
      /\ Commit(k, w)
      /\ phase' = IF InsertPanics(conn) THEN "panic"
                  ELSE IF w.ret = <<>> THEN "idle"
                  ELSE "gather"
      /\ UNCHANGED streams

\* A segment that starts at or before the expected byte is trimmed and goes out.
AssembleDue(k, p) ==
  LET conn == Seen(conns[k])
      span == byteSpan(conn.nextSeq, seqOf(p), p.len)
      page == [at |-> p.pos, end |-> p.fin]
  IN  /\ Arrives(k, p)
      /\ conns[k].open
      /\ Difference(conn.nextSeq, seqOf(p)) <= 0
      /\ Commit(k, [conn |-> [conn EXCEPT !.nextSeq = span.next], cache |-> cache,
                    ret |-> <<Chunk(page, span, 0)>>])
      /\ phase' = "gather"
      /\ UNCHANGED streams

-----------------------------------------------------------------------------
(* sendToConnection: addContiguous moves pages to ret while the first one  *)
(* is due, then the stream receives ret and a final End closes.  ret is    *)
(* emptied here; the code does it at the start of the next operation.      *)

\* Mutant: the page that starts exactly at the expected byte is kept waiting.
FirstIsDueLate(conn) ==
  /\ conn.list # <<>>
  /\ Difference(conn.nextSeq, Head(conn.list).seq) < 0

FirstIsDue(conn) ==
  /\ conn.list # <<>>
  /\ Difference(conn.nextSeq, Head(conn.list).seq) <= 0

addContiguous ==
  /\ phase = "gather"
  /\ FirstIsDue(conns[key])
  /\ Commit(key, addNextFromConn([conn |-> conns[key], cache |-> cache, ret |-> ret]))
  /\ UNCHANGED <<phase, key, flush, streams, now, packets>>

sendToConnection ==
  /\ phase = "gather"
  /\ ~FirstIsDue(conns[key])
  /\ streams' = [streams EXCEPT ![key] = Contract!Received(@, ret)]
  /\ phase' = IF ret[Len(ret)].end THEN "close" ELSE Resume
  /\ ret' = <<>>
  /\ UNCHANGED <<conns, cache, key, flush, now, packets>>

\* Mutant: the connection stays in the pool.
closeConnectionStays ==
  /\ phase = "close"
  /\ streams' = [streams EXCEPT ![key] = Contract!Completed(@)]
  /\ conns' = [conns EXCEPT ![key] = [@ EXCEPT !.pages = 0, !.list = <<>>]]
  /\ cache' = replace(cache, conns[key].list)
  /\ phase' = Resume
  /\ UNCHANGED <<ret, key, flush, now, packets>>

\* The connection leaves the pool and the pages it still holds go back.
closeConnection ==
  /\ phase = "close"
  /\ streams' = [streams EXCEPT ![key] = Contract!Completed(@)]
  /\ conns' = [conns EXCEPT ![key] = NoConnection]
  /\ cache' = replace(cache, conns[key].list)
  /\ phase' = Resume
  /\ UNCHANGED <<ret, key, flush, now, packets>>

-----------------------------------------------------------------------------
(* FlushOlderThan and FlushAll walk a snapshot of the pool in map order,   *)
(* that is in any order.                                                   *)

OpenKeys == {k \in Keys : conns[k].open}

Orders(S) ==
  {q \in [1 .. Cardinality(S) -> S] : \A i, j \in DOMAIN q : q[i] = q[j] => i = j}

BeginFlush(op, t) ==
  /\ FlushCalls
  /\ phase = "idle"
  /\ \E order \in Orders(OpenKeys) :
       flush' = [op |-> op, before |-> t, todo |-> order]
  /\ phase' = "flush"
  /\ UNCHANGED <<conns, cache, ret, key, streams, now, packets>>

FlushOlderThan == \E t \in 1 .. now + 1 : BeginFlush("older", t)

FlushAll == BeginFlush("all", 0)

\* Mutant: FlushAll pushes only what FlushOlderThan would.
MustPushOlder(conn) ==
  /\ conn.open
  /\ conn.list # <<>>
  /\ Head(conn.list).seen < flush.before

\* The flush has more to do on conn: bytes to push, or it is to be closed.
MustPush(conn) ==
  /\ conn.open
  /\ conn.list # <<>>
  /\ flush.op = "all" \/ Head(conn.list).seen < flush.before

MustClose(conn) ==
  /\ conn.open
  /\ conn.list = <<>>
  /\ flush.op = "all" \/ conn.lastSeen < flush.before

Flushing(k) ==
  /\ phase = "flush"
  /\ flush.todo # <<>>
  /\ k = Head(flush.todo)

\* skipFlush on a connection with buffered pages.
skipFlush(k) ==
  /\ Flushing(k)
  /\ MustPush(conns[k])
  /\ key' = k
  /\ Commit(k, addNextFromConn([conn |-> conns[k], cache |-> cache, ret |-> <<>>]))
  /\ phase' = "gather"
  /\ UNCHANGED <<flush, streams, now, packets>>

FlushCloses(k) ==
  /\ Flushing(k)
  /\ MustClose(conns[k])
  /\ key' = k
  /\ phase' = "close"
  /\ UNCHANGED <<conns, cache, ret, flush, streams, now, packets>>

\* Mutant: the loop over the connections does not advance.
FlushSameConn(k) ==
  /\ Flushing(k)
  /\ ~MustPush(conns[k])
  /\ ~MustClose(conns[k])
  /\ UNCHANGED vars

FlushNextConn(k) ==
  /\ Flushing(k)
  /\ ~MustPush(conns[k])
  /\ ~MustClose(conns[k])
  /\ flush' = [flush EXCEPT !.todo = Tail(@)]
  /\ UNCHANGED <<conns, cache, ret, phase, key, streams, now, packets>>

FlushReturns ==
  /\ phase = "flush"
  /\ flush.todo = <<>>
  /\ phase' = "idle"
  /\ flush' = NoFlush
  /\ UNCHANGED <<conns, cache, ret, key, streams, now, packets>>

-----------------------------------------------------------------------------
Call ==
  \/ Tick
  \/ \E k \in Keys, p \in Packets :
       AssembleFirst(k, p) \/ AssembleAhead(k, p) \/ AssembleDue(k, p)
  \/ FlushOlderThan
  \/ FlushAll

Continue ==
  \/ addContiguous
  \/ sendToConnection
  \/ closeConnection
  \/ \E k \in Keys : skipFlush(k) \/ FlushCloses(k) \/ FlushNextConn(k)
  \/ FlushReturns

Next == Call \/ Continue

Spec == Init /\ [][Next]_vars

\* The goroutine that called the assembler keeps running.
FairSpec == Spec /\ WF_vars(Continue)

-----------------------------------------------------------------------------
Phases == {"idle", "gather", "close", "flush", "panic"}

Page == [seq : Sequence, at : Nat, len : Nat, skip : Int, end : BOOLEAN, seen : Nat]

ChunkType == [at : Nat, len : Nat, skip : Int, start : BOOLEAN, end : BOOLEAN]

Connection ==
  [open : BOOLEAN, pages : Int, list : Seq(Page),
   nextSeq : Sequence \cup {invalidSequence}, lastSeen : Nat]

PageCache ==
  [free : Seq([skip : Int, end : BOOLEAN]), used : Int, size : Nat, pcSize : Nat]

StreamType ==
  [state : {"none", "open", "complete"}, next : Nat \cup {Contract!Unknown},
   batch : Seq(ChunkType), ended : BOOLEAN]

\* Every variable has the type of what it stands for in the code.
TypeOK ==
  /\ conns \in [Keys -> Connection]
  /\ cache \in PageCache
  /\ ret \in Seq(ChunkType)
  /\ phase \in Phases
  /\ key \in Keys
  /\ flush \in [op : {"none", "older", "all"}, before : Nat, todo : Seq(Keys)]
  /\ streams \in [Keys -> StreamType]
  /\ now \in 0 .. MaxTime
  /\ packets \in 0 .. MaxPackets

\* next() and replace() conserve the pages of the cache.
PagesConserved == cache.used + Len(cache.free) = cache.size

\* conn.pages counts the pages of the list, a closed connection has none.
PagesCounted ==
  \A k \in Keys : /\ conns[k].pages = Len(conns[k].list)
                  /\ ~conns[k].open => conns[k].list = <<>>

Buffered == UNION {{k} \X DOMAIN conns[k].list : k \in Keys}

\* The pages in use are those buffered for connections, none is leaked or
\* returned twice on any path through pop, limit, close and flush.
UsedIsBuffered == cache.used = Cardinality(Buffered)

PageAccounting == PagesConserved /\ PagesCounted /\ UsedIsBuffered

\* Between operations no connection holds back a byte that is due: every
\* buffered page lies beyond the byte expected next, however pages of several
\* sizes were interleaved in the list.
NothingDueIsHeld ==
  phase = "idle" =>
    \A k \in Keys : \A i \in DOMAIN conns[k].list :
      Difference(conns[k].nextSeq, conns[k].list[i].seq) > 0

\* The guard panic("wtf") of insertIntoConn never holds, and sendToConnection,
\* which reads the last chunk of ret, is never reached with none: whatever led
\* to it collected a chunk, and none is lost on the way.
NeverPanics ==
  /\ phase # "panic"
  /\ phase = "gather" => ret # <<>>

\* The stream sees its bytes in stream order, each at most once, between one
\* New and one ReassemblyComplete: the assembler implements StreamContract.
OrderedDelivery == Contract!Spec

\* Position the stream is at before chunk i of a batch.
Before(n, b, i) == IF i = 1 THEN n ELSE Contract!ChunkEnd(b[i - 1])

\* Without limits and flushes nothing is ever skipped inside a stream: each
\* chunk starts where the previous one ended.
NothingSkipped ==
  [][sendToConnection =>
       \A i \in DOMAIN ret :
         \/ ret[i].at = Before(streams[key].next, ret, i)
         \/ Before(streams[key].next, ret, i) = Contract!Unknown]_vars

\* The End flag of a page outlives its former use (only the last page of a
\* segment is given a new one), but never completes a stream: a batch that does
\* ends where a FIN or RST segment ends, or is nothing new from before it.
EndsAtFin ==
  [][sendToConnection /\ phase' = "close" =>
       LET last == ret[Len(ret)]
       IN  \E p \in Packets :
             /\ p.fin
             /\ \/ Contract!ChunkEnd(last) = p.pos + p.len
                \/ last.len = 0 /\ Contract!ChunkEnd(last) > p.pos + p.len]_vars

\* The limits of AssemblerOptions hold after every insertion of a page: the one
\* that reaches a limit pushes another out, so that fewer stay buffered.
BufferLimits ==
  /\ MaxBufferedPagesPerConnection > 0 =>
       \A k \in Keys : conns[k].pages < MaxBufferedPagesPerConnection
  /\ MaxBufferedPagesTotal > 0 => cache.used < MaxBufferedPagesTotal

\* When FlushOlderThan returns, no connection waits behind bytes older than
\* the given time and none that was idle since then is open; when FlushAll
\* returns, no connection is open and no page is in use.
FlushKeepsPromise ==
  [][FlushReturns =>
       CASE flush.op = "older" ->
              \A k \in OpenKeys :
                IF conns[k].list # <<>> THEN Head(conns[k].list).seen >= flush.before
                ELSE conns[k].lastSeen >= flush.before
         [] flush.op = "all" -> OpenKeys = {} /\ cache.used = 0]_vars

\* What a running operation has left to do: the pages in use, the connections
\* it may still close, those its loop has not passed, and where it is.
Closing == IF phase = "close" THEN {key} ELSE {}

PhaseRank == CASE phase = "gather" -> 3 [] phase = "close" -> 2
               [] phase = "flush"  -> 1 [] OTHER -> 0

Rank == 3 * (cache.used + Cardinality(OpenKeys \ Closing) + Len(flush.todo)) + PhaseRank

\* No step of a running operation is for nothing: each leaves less to do than
\* there was, so that no loop over pages or over connections runs for ever,
\* whichever of them a step sends the operation back to.
CallsShrink == [][Continue => Rank' \in 0 .. Rank - 1]_vars

\* Every call of the assembler returns: the loops over contiguous pages, over
\* pages to flush and over connections end.
CallsReturn == phase # "idle" ~> phase = "idle"

=============================================================================
