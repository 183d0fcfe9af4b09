----------------------------- MODULE StreamPool -----------------------------
(***************************************************************************)
(* A StreamPool and the Assemblers that share it.  Each Assembler is a     *)
(* goroutine; the steps are the critical sections of pool.mu, the lock     *)
(* and unlock of a connection's mutex, and the code between them, so that  *)
(* the steps of different assemblers interleave as they do in the program. *)
(* Only the data races matter to what a step is: reset() writes a          *)
(* connection under pool.mu alone, while the assembler that closed it may  *)
(* still hold the connection's mutex.                                      *)
(*                                                                         *)
(* A connection object is a number, 0 is nil.  A segment is its key and    *)
(* two flags: whether it creates a connection (a SYN or a payload) and     *)
(* whether it ends one (a FIN or RST).  Where its bytes lie is left open:  *)
(* a segment for a connection that has started is due or is buffered.      *)
(***************************************************************************)
EXTENDS Integers, Sequences, FiniteSets

CONSTANTS
  Assemblers,  \* the assemblers that were given this pool
  Keys,        \* the TCP flows
  Segments,    \* the segments that may arrive, see Segment
  InitialConns, \* connection objects of the first grow(), initialAllocSize
  FlushCalls,  \* whether assemblers also call the Flush methods
  NoAssembler, \* holder of a free mutex
  MaxCalls     \* bound: Assemble and Flush calls in a behaviour

ASSUME StreamPoolAssumption ==
  /\ NoAssembler \notin Assemblers
  /\ Keys # {}
  /\ InitialConns \in Nat \ {0}
  /\ FlushCalls \in BOOLEAN
  /\ MaxCalls \in Nat

Segment == [key : Keys, creates : BOOLEAN, ends : BOOLEAN]

\* A segment without flags and payload is ignored before anything else.
ASSUME SegmentsAssumption ==
  Segments \subseteq {s \in Segment : s.creates \/ s.ends}

VARIABLES
  conns,     \* StreamPool.conns: Keys -> object or 0
  free,      \* StreamPool.free, a stack
  nextAlloc, \* StreamPool.nextAlloc
  object,    \* every connection object allocated so far
  streams,   \* every stream the factory made: its key, open or complete
  used,      \* pageCache.used of each assembler
  pc,        \* where each assembler is
  call,      \* the call each assembler is in, see Call
  cur,       \* the connection object each assembler points to
  made,      \* the stream New returned to each assembler, 0 outside getConnection
  todo,      \* connections() of a running Flush call
  calls      \* number of calls begun

vars == <<conns, free, nextAlloc, object, streams, used, pc, call, cur, made, todo, calls>>

\* Assemble has a segment; a Flush has none, its seg is not looked at.
Call == [op : {"assemble", "older", "all"}, seg : Segment]

NoCall == [op |-> "assemble", seg |-> CHOOSE s \in Segment : TRUE]

\* A connection object as grow() makes it.
Blank == [key |-> CHOOSE k \in Keys : TRUE, stream |-> 0, started |-> FALSE,
          held |-> <<>>, closed |-> FALSE, mu |-> NoAssembler]

Goto(a, label) == pc' = [pc EXCEPT ![a] = label]

\* The call of a returns and its local variables are gone.
Return(a) ==
  /\ Goto(a, "idle")
  /\ call' = [call EXCEPT ![a] = NoCall]
  /\ cur' = [cur EXCEPT ![a] = 0]

Init ==
  /\ conns = [k \in Keys |-> 0]
  /\ free = <<>>
  /\ nextAlloc = InitialConns
  /\ object = <<>>
  /\ streams = <<>>
  /\ used = [a \in Assemblers |-> 0]
  /\ pc = [a \in Assemblers |-> "idle"]
  /\ call = [a \in Assemblers |-> NoCall]
  /\ cur = [a \in Assemblers |-> 0]
  /\ made = [a \in Assemblers |-> 0]
  /\ todo = [a \in Assemblers |-> {}]
  /\ calls = 0

-----------------------------------------------------------------------------
(* AssembleWithTimestamp: the loop around getConnection.                   *)

Assemble(a, s) ==
  /\ pc[a] = "idle"
  /\ calls < MaxCalls
  /\ calls' = calls + 1
  /\ call' = [call EXCEPT ![a].op = "assemble", ![a].seg = s]
  /\ Goto(a, "lookup")
  /\ UNCHANGED <<conns, free, nextAlloc, object, streams, used, cur, made, todo>>

\* getConnection up to RUnlock, and its return when a connection was found or
\* none is wanted.
Lookup(a) ==
  LET c == conns[call[a].seg.key]
  IN  /\ pc[a] = "lookup"
      /\ \/ /\ c # 0 \/ call[a].seg.creates
            /\ cur' = [cur EXCEPT ![a] = c]
            /\ Goto(a, IF c # 0 THEN "lock" ELSE "new")
            /\ UNCHANGED call
         \/ /\ c = 0 /\ ~call[a].seg.creates
            /\ Return(a)
      /\ UNCHANGED <<conns, free, nextAlloc, object, streams, used, made, todo, calls>>

\* factory.New, called without any lock.
New(a) ==
  /\ pc[a] = "new"
  /\ streams' = Append(streams, [key |-> call[a].seg.key, state |-> "open"])
  /\ made' = [made EXCEPT ![a] = Len(streams) + 1]
  /\ Goto(a, "insert")
  /\ UNCHANGED <<conns, free, nextAlloc, object, used, call, cur, todo, calls>>

\* The free stack newConnection pops from, after grow() if it was empty.
Stack == IF free # <<>> THEN free
         ELSE [i \in 1 .. nextAlloc |-> Len(object) + i]

\* Mutant: grow allocates one connection too few.
ObjectsOneShort ==
  IF free # <<>> THEN object ELSE object \o [i \in 1 .. nextAlloc - 1 |-> Blank]

Objects == IF free # <<>> THEN object
           ELSE object \o [i \in 1 .. nextAlloc |-> Blank]

\* Mutant: reset forgets the key.
resetKeepsKey(c, k, s) ==
  [c EXCEPT !.stream = s, !.started = FALSE, !.held = <<>>, !.closed = FALSE]

reset(c, k, s) ==
  [c EXCEPT !.key = k, !.stream = s, !.started = FALSE, !.held = <<>>, !.closed = FALSE]

\* Mutant: the new connection is not put in the map.
InsertUnmapped(a) ==
  LET fresh == Stack[Len(Stack)]
  IN  /\ pc[a] = "insert"
      /\ free' = SubSeq(Stack, 1, Len(Stack) - 1)
      /\ nextAlloc' = IF free # <<>> THEN nextAlloc ELSE 2 * nextAlloc
      /\ object' = [Objects EXCEPT
                      ![fresh] = reset(@, call[a].seg.key, made[a])]
      /\ cur' = [cur EXCEPT ![a] = fresh]
      /\ made' = [made EXCEPT ![a] = 0]
      /\ Goto(a, "lock")
      /\ UNCHANGED <<conns, streams, used, call, todo, calls>>

\* The rest of getConnection, under pool.mu: newConnection with its reset(),
\* and then the look whether another assembler was faster.
Insert(a) ==
  LET k     == call[a].seg.key
      fresh == Stack[Len(Stack)]
  IN  /\ pc[a] = "insert"
      /\ free' = SubSeq(Stack, 1, Len(Stack) - 1)
      /\ nextAlloc' = IF free # <<>> THEN nextAlloc ELSE 2 * nextAlloc
      /\ object' = [Objects EXCEPT
                      ![fresh] = reset(@, k, made[a])]
      /\ conns' = IF conns[k] # 0 THEN conns ELSE [conns EXCEPT ![k] = fresh]
      /\ cur' = [cur EXCEPT ![a] = conns'[k]]
      /\ made' = [made EXCEPT ![a] = 0]
      /\ Goto(a, "lock")
      /\ UNCHANGED <<streams, used, call, todo, calls>>

\* Mutant: the mutex of the connection is not waited for.
AcquireAnyway(a) == object' = [object EXCEPT ![cur[a]].mu = a]

Acquire(a) ==
  /\ object[cur[a]].mu = NoAssembler
  /\ object' = [object EXCEPT ![cur[a]].mu = a]

\* Mutant: the closed flag is not looked at.
LockClosed(a) ==
  /\ pc[a] = "lock"
  /\ Acquire(a)
  /\ Goto(a, "work")
  /\ UNCHANGED <<conns, free, nextAlloc, streams, used, call, cur, made, todo, calls>>

\* conn.mu.Lock() on an open connection.
Lock(a) ==
  /\ pc[a] = "lock"
  /\ Acquire(a)
  /\ ~object[cur[a]].closed
  /\ Goto(a, "work")
  /\ UNCHANGED <<conns, free, nextAlloc, streams, used, call, cur, made, todo, calls>>

\* The connection was closed meanwhile: unlock it and look again.  Nobody else
\* can use the connection in between, so that lock and unlock are one step.
Retry(a) ==
  /\ pc[a] = "lock"
  /\ object[cur[a]].mu = NoAssembler
  /\ object[cur[a]].closed
  /\ Goto(a, "lookup")
  /\ UNCHANGED <<conns, free, nextAlloc, object, streams, used, call, cur, made, todo, calls>>

-----------------------------------------------------------------------------
(* Work on the locked connection.  held is the page list: the assembler    *)
(* whose page cache each page was taken from.                              *)

\* A due segment goes to the stream, with n buffered pages that became
\* contiguous; the last thing sent decides whether the connection closes.
Deliver(a) ==
  LET c == object[cur[a]]
  IN  /\ pc[a] = "work"
      /\ \E n \in 0 .. Len(c.held) :
           /\ object' = [object EXCEPT ![cur[a]].held = SubSeq(@, n + 1, Len(@)),
                                       ![cur[a]].started = TRUE]
           /\ used' = [used EXCEPT ![a] = @ - n]
           /\ \/ Goto(a, IF n = 0 /\ call[a].seg.ends THEN "complete" ELSE "unlock")
              \/ n > 0 /\ Goto(a, "complete")
      /\ UNCHANGED <<conns, free, nextAlloc, streams, call, cur, made, todo, calls>>

\* A segment ahead of the expected byte is copied to a page of a's cache.
Buffer(a) ==
  /\ pc[a] = "work"
  /\ object[cur[a]].started
  /\ object' = [object EXCEPT ![cur[a]].held = Append(@, a)]
  /\ used' = [used EXCEPT ![a] = @ + 1]
  /\ Goto(a, "unlock")
  /\ UNCHANGED <<conns, free, nextAlloc, streams, call, cur, made, todo, calls>>

\* Mutant: the connection is not marked closed.
CompleteUnmarked(a) ==
  /\ pc[a] = "complete"
  /\ streams' = [streams EXCEPT ![object[cur[a]].stream].state = "complete"]
  /\ Goto(a, "remove")
  /\ UNCHANGED <<conns, free, nextAlloc, object, used, call, cur, made, todo, calls>>

\* closeConnection: ReassemblyComplete and the closed flag.
Complete(a) ==
  LET c == cur[a]
  IN  /\ pc[a] = "complete"
      /\ streams' = [streams EXCEPT ![object[c].stream].state = "complete"]
      /\ object' = [object EXCEPT ![c].closed = TRUE]
      /\ Goto(a, "remove")
      /\ UNCHANGED <<conns, free, nextAlloc, used, call, cur, made, todo, calls>>

\* Mutant: the closed connection stays in the map.
RemoveKeepsEntry(a) ==
  /\ pc[a] = "remove"
  /\ free' = Append(free, cur[a])
  /\ Goto(a, "replace")
  /\ UNCHANGED <<conns, nextAlloc, object, streams, used, call, cur, made, todo, calls>>

\* closeConnection: StreamPool.remove, under pool.mu.
Remove(a) ==
  /\ pc[a] = "remove"
  /\ conns' = [conns EXCEPT ![object[cur[a]].key] = 0]
  /\ free' = Append(free, cur[a])
  /\ Goto(a, "replace")
  /\ UNCHANGED <<nextAlloc, object, streams, used, call, cur, made, todo, calls>>

\* Mutant: the pages still in the list are not returned.
ReplaceNone(a) ==
  /\ pc[a] = "replace"
  /\ Goto(a, IF call[a].op = "assemble" THEN "unlock" ELSE "push")
  /\ UNCHANGED <<conns, free, nextAlloc, object, streams, used, call, cur, made, todo, calls>>

\* closeConnection: the pages still in the list go to a's page cache.  The
\* connection is in the free list by now, and the loops of the Flush methods
\* look at its closed flag again.
Replace(a) ==
  /\ pc[a] = "replace"
  /\ used' = [used EXCEPT ![a] = @ - Len(object[cur[a]].held)]
  /\ Goto(a, IF call[a].op = "assemble" THEN "unlock" ELSE "push")
  /\ UNCHANGED <<conns, free, nextAlloc, object, streams, call, cur, made, todo, calls>>

\* conn.mu.Unlock() at the end of Assemble, or of one round of a Flush loop.
Unlock(a) ==
  /\ pc[a] = "unlock"
  /\ object' = [object EXCEPT ![cur[a]].mu = NoAssembler]
  /\ \/ call[a].op = "assemble" /\ Return(a)
     \/ call[a].op # "assemble" /\ Goto(a, "flush") /\ UNCHANGED <<call, cur>>
  /\ UNCHANGED <<conns, free, nextAlloc, streams, used, made, todo, calls>>

-----------------------------------------------------------------------------
(* FlushOlderThan and FlushAll: a snapshot of the pool, then one           *)
(* connection after the other.  Which connections are old is left open.    *)

BeginFlush(a, op) ==
  /\ FlushCalls
  /\ pc[a] = "idle"
  /\ calls < MaxCalls
  /\ calls' = calls + 1
  /\ call' = [call EXCEPT ![a].op = op]
  /\ todo' = [todo EXCEPT ![a] = {conns[k] : k \in Keys} \ {0}]
  /\ Goto(a, "flush")
  /\ UNCHANGED <<conns, free, nextAlloc, object, streams, used, cur, made>>

FlushNext(a) ==
  /\ pc[a] = "flush"
  /\ \E c \in todo[a] : /\ cur' = [cur EXCEPT ![a] = c]
                        /\ todo' = [todo EXCEPT ![a] = @ \ {c}]
  /\ Goto(a, "flushLock")
  /\ UNCHANGED <<conns, free, nextAlloc, object, streams, used, call, made, calls>>

FlushReturns(a) ==
  /\ pc[a] = "flush"
  /\ todo[a] = {}
  /\ Return(a)
  /\ UNCHANGED <<conns, free, nextAlloc, object, streams, used, made, todo, calls>>

FlushLock(a) ==
  /\ pc[a] = "flushLock"
  /\ Acquire(a)
  /\ Goto(a, "push")
  /\ UNCHANGED <<conns, free, nextAlloc, streams, used, call, cur, made, todo, calls>>

\* skipFlush: n pages are pushed through, the last one possibly with an End;
\* without pages the connection closes.
Push(a) ==
  LET c == object[cur[a]]
  IN  /\ pc[a] = "push"
      /\ ~c.closed
      /\ \E n \in 0 .. Len(c.held) :
           /\ n > 0 \/ c.held = <<>>
           /\ object' = [object EXCEPT ![cur[a]].held = SubSeq(@, n + 1, Len(@))]
           /\ used' = [used EXCEPT ![a] = @ - n]
           /\ \/ Goto(a, "complete")
              \/ n > 0 /\ Goto(a, "push")
      /\ UNCHANGED <<conns, free, nextAlloc, streams, call, cur, made, todo, calls>>

\* The loop is left when the connection is closed, or by FlushOlderThan when
\* there is nothing old.
PushDone(a) ==
  /\ pc[a] = "push"
  /\ object[cur[a]].closed \/ call[a].op = "older"
  /\ Goto(a, "unlock")
  /\ UNCHANGED <<conns, free, nextAlloc, object, streams, used, call, cur, made, todo, calls>>

-----------------------------------------------------------------------------
Step(a) ==
  \/ Lookup(a) \/ New(a) \/ Insert(a)
  \/ Retry(a) \/ Deliver(a) \/ Buffer(a)
  \/ Complete(a) \/ Remove(a) \/ Replace(a) \/ Unlock(a)
  \/ FlushNext(a) \/ FlushReturns(a) \/ Push(a) \/ PushDone(a)

Next ==
  \E a \in Assemblers :
    \/ \E s \in Segments : Assemble(a, s)
    \/ \E op \in {"older", "all"} : BeginFlush(a, op)
    \/ Step(a)
    \/ Lock(a)
    \/ FlushLock(a)

Spec == Init /\ [][Next]_vars

\* Goroutines keep running, and a sync.Mutex starves no waiter.
FairSpec ==
  /\ Spec
  /\ \A a \in Assemblers : /\ WF_vars(Step(a))
                           /\ SF_vars(Lock(a))
                           /\ SF_vars(FlushLock(a))

-----------------------------------------------------------------------------
Labels ==
  {"idle", "lookup", "new", "insert", "lock", "work", "complete", "remove",
   "replace", "unlock", "flush", "flushLock", "push"}

Refs == 1 .. Len(object)

Connection ==
  [key : Keys, stream : Nat, started : BOOLEAN, held : Seq(Assemblers),
   closed : BOOLEAN, mu : Assemblers \cup {NoAssembler}]

\* Every variable has the type of what it stands for in the code.
TypeOK ==
  /\ conns \in [Keys -> Refs \cup {0}]
  /\ free \in Seq(Refs)
  /\ nextAlloc \in Nat \ {0}
  /\ object \in Seq(Connection)
  /\ streams \in Seq([key : Keys, state : {"open", "complete"}])
  /\ used \in [Assemblers -> Int]
  /\ pc \in [Assemblers -> Labels]
  /\ call \in [Assemblers -> Call]
  /\ cur \in [Assemblers -> Refs \cup {0}]
  /\ made \in [Assemblers -> 0 .. Len(streams)]
  /\ todo \in [Assemblers -> SUBSET Refs]
  /\ calls \in 0 .. MaxCalls

\* A connection found under a key is that key's, and is not free.
PoolMatches ==
  \A k \in Keys : conns[k] # 0 =>
    /\ object[conns[k]].key = k
    /\ \A i \in DOMAIN free : free[i] # conns[k]

\* No connection is in the free list twice, so that it is never given out for
\* two streams at a time.
FreeOnce == \A i, j \in DOMAIN free : i # j => free[i] # free[j]

\* The pool hands out each connection object to one key at a time, whatever
\* assemblers still point to it.
PoolConsistent == PoolMatches /\ FreeOnce

\* Two assemblers never work on the same stream at the same time (the comment
\* of StreamPool: a single stream receives its data serially).
SerialStreams ==
  \A a, b \in Assemblers :
    /\ a # b
    /\ pc[a] \in {"work", "push", "complete"}
    /\ pc[b] \in {"work", "push", "complete"}
    => object[cur[a]].stream # object[cur[b]].stream

\* A stream receives data and is completed only while it is open: never after
\* its ReassemblyComplete, although connection objects are reused.
OnlyOpenStreams ==
  \A a \in Assemblers :
    \/ pc[a] \in {"work", "complete"}
    \/ pc[a] = "push" /\ ~object[cur[a]].closed
    => streams[object[cur[a]].stream].state = "open"

\* The segment is processed on a connection of its own key (the comment of
\* AssembleWithTimestamp: into its appropriate stream).
AppropriateStream ==
  \A a \in Assemblers : pc[a] = "work" =>
    streams[object[cur[a]].stream].key = call[a].seg.key

\* A connection that is closed removes itself, not another one, from the pool
\* (the comment in AssembleWithTimestamp).
RemovesItself ==
  \A a \in Assemblers : pc[a] = "remove" =>
    conns[object[cur[a]].key] = cur[a]

Quiet == \A a \in Assemblers : pc[a] = "idle"

\* When no call is running, every stream that is not complete is the stream of
\* a connection in the pool, where segments and flushes can still complete it
\* (the comment of Stream: ReassemblyComplete is called one time).
NoOrphanStream ==
  Quiet =>
    \A i \in DOMAIN streams : streams[i].state = "open" =>
      \E k \in Keys : conns[k] # 0 /\ object[conns[k]].stream = i

Pooled == {conns[k] : k \in Keys} \ {0}

\* The pages of a's cache that are buffered in connections of the pool.
PagesOf(a) ==
  UNION {{c} \X {i \in DOMAIN object[c].held : object[c].held[i] = a} : c \in Pooled}

\* The pages an assembler has in use are those it buffered in connections of
\* the pool, once no call is running: they come back to its own cache (the
\* comment of Assembler: page caches are Assembler-specific).
PagesReturnHome == Quiet => \A a \in Assemblers : used[a] = Cardinality(PagesOf(a))

\* The streams of each flow that are not complete.
OpenStreams ==
  [k \in Keys |-> {i \in DOMAIN streams : streams[i].key = k /\ streams[i].state = "open"}]

Flows == INSTANCE FlowStreams WITH count <- Len(streams), open <- OpenStreams

\* The pool and its assembler implement FlowStreams: however connections are
\* looked up, made, freed and given out again, a flow gets a new stream only
\* after the last one was completed, and each is completed one time.
OneStreamPerFlow == Flows!Spec

\* Every Assemble and Flush call returns: no lock is waited for in a circle,
\* and the retry loop around getConnection ends.
CallsReturn == \A a \in Assemblers : pc[a] # "idle" ~> pc[a] = "idle"

=============================================================================
