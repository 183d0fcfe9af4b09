-------------------------- MODULE StreamPoolProofs --------------------------
(***************************************************************************)
(* Theorems about StreamPool, for any number of assemblers, flows and      *)
(* calls.  The first part needs no more than the code gives: pool.mu, the  *)
(* mutex of a connection, and its closed flag.  The last part is about a   *)
(* pool with one assembler, as actor.go makes them: only then is a         *)
(* connection always removed as itself, no stream is lost, and pages come  *)
(* back to the cache they were taken from.                                 *)
(***************************************************************************)
EXTENDS StreamPool, TLAPS, SequenceTheorems, FiniteSetTheorems

\* Where an assembler has a connection, and where it has its mutex too.
Holding == {"work", "complete", "remove", "replace", "unlock", "push"}

Pointing == Holding \cup {"lock", "flushLock"}

StreamRec == [key : Keys, state : {"open", "complete"}]

\* The stream of a connection is one the factory made; 0 until the connection
\* is given out the first time.
StreamsKnown == \A c \in Refs : object[c].stream \in 0 .. Len(streams)

CurPoints == \A a \in Assemblers : pc[a] \in Pointing => cur[a] # 0

\* What the pool, an assembler or a flush refers to was given out by Insert,
\* so that it is not one of the blank objects of grow().
GivenOut ==
  /\ \A k \in Keys : conns[k] # 0 => object[conns[k]].stream # 0
  /\ \A a \in Assemblers : cur[a] # 0 => object[cur[a]].stream # 0
  /\ \A a \in Assemblers : \A c \in todo[a] : object[c].stream # 0

\* The stream New returned is open and belongs to nobody else.
MadeIsNew ==
  \A a \in Assemblers :
    /\ pc[a] = "insert" => made[a] # 0
    /\ made[a] # 0 =>
         /\ streams[made[a]].state = "open"
         /\ \A c \in Refs : object[c].stream # made[a]
         /\ \A b \in Assemblers : a # b => made[a] # made[b]

\* No stream is the stream of two connections.
OneConnection ==
  \A c, d \in Refs : c # d /\ object[c].stream # 0 => object[c].stream # object[d].stream

\* The closed flag tells whether the stream of the connection is complete.
OpenWhileLive ==
  \A c \in Refs : object[c].stream # 0 /\ ~object[c].closed =>
    streams[object[c].stream].state = "open"

\* A connection in the free list was closed, or never given out.
FreeIsClosed ==
  \A i \in DOMAIN free : object[free[i]].closed \/ object[free[i]].stream = 0

\* Mutual exclusion, although reset() writes the connection without its mutex.
MutexHeld == \A a \in Assemblers : pc[a] \in Holding => object[cur[a]].mu = a

\* Between the look at the closed flag and closeConnection nobody closes the
\* connection, and between closeConnection and remove nobody frees it.
WorkIsLive ==
  \A a \in Assemblers :
    /\ pc[a] \in {"work", "complete"} => ~object[cur[a]].closed
    /\ pc[a] = "remove" => /\ object[cur[a]].closed
                           /\ \A i \in DOMAIN free : free[i] # cur[a]

PoolInv ==
  /\ TypeOK /\ StreamsKnown /\ CurPoints /\ GivenOut /\ MadeIsNew
  /\ OneConnection /\ OpenWhileLive /\ FreeIsClosed /\ MutexHeld
  /\ WorkIsLive /\ PoolMatches /\ FreeOnce

-----------------------------------------------------------------------------
LEMMA NoCallType == NoCall \in Call
<1>1. PICK k \in Keys : TRUE
  BY StreamPoolAssumption
<1>2. [key |-> k, creates |-> TRUE, ends |-> TRUE] \in Segment
  BY <1>1 DEF Segment
<1>3. (CHOOSE s \in Segment : TRUE) \in Segment
  BY <1>2
<1> QED
  BY <1>3 DEF NoCall, Call

LEMMA BlankType == Blank \in Connection
<1>1. (CHOOSE k \in Keys : TRUE) \in Keys
  BY StreamPoolAssumption
<1>2. <<>> \in Seq(Assemblers)
  OBVIOUS
<1> QED
  BY <1>1, <1>2 DEF Blank, Connection

\* The parts of the invariant hold before the first call.
LEMMA InitInv == Init => PoolInv
<1> SUFFICES ASSUME Init PROVE PoolInv
  OBVIOUS
<1> USE DEF Init
<1>1. TypeOK
  <2>1. /\ object \in Seq(Connection)
        /\ streams \in Seq([key : Keys, state : {"open", "complete"}])
        /\ free \in Seq(Refs)
        /\ Len(streams) = 0
    BY DEF Refs
  <2> QED
    BY <2>1, NoCallType, StreamPoolAssumption DEF TypeOK, Labels
<1>2. StreamsKnown /\ OneConnection /\ OpenWhileLive
  BY DEF StreamsKnown, OneConnection, OpenWhileLive, Refs
<1>3. CurPoints /\ GivenOut /\ MutexHeld /\ WorkIsLive
  BY DEF CurPoints, GivenOut, MutexHeld, WorkIsLive, Pointing, Holding
<1>4. MadeIsNew
  BY DEF MadeIsNew
<1>5. FreeIsClosed /\ FreeOnce /\ PoolMatches
  BY DEF FreeIsClosed, FreeOnce, PoolMatches
<1> QED
  BY <1>1, <1>2, <1>3, <1>4, <1>5 DEF PoolInv

-----------------------------------------------------------------------------
(* What a step does to the connections it does not close or give out.      *)

\* What the pool and the streams depend on: a step that neither gives out nor
\* closes a connection leaves its key, stream and closed flag alone.
SameConnections ==
  /\ Len(object') = Len(object)
  /\ \A c \in Refs : /\ object'[c].key = object[c].key
                     /\ object'[c].stream = object[c].stream
                     /\ object'[c].closed = object[c].closed

LEMMA PoolUntouched ==
  ASSUME PoolInv, SameConnections, UNCHANGED <<conns, free, streams>>
  PROVE  /\ StreamsKnown' /\ OneConnection' /\ OpenWhileLive' /\ FreeIsClosed'
         /\ PoolMatches' /\ FreeOnce'
<1>1. Refs' = Refs
  BY DEF SameConnections, Refs
<1>2. \A i \in DOMAIN free : free[i] \in Refs
  BY DEF PoolInv, TypeOK
<1>3. \A k \in Keys : conns[k] \in Refs \cup {0}
  BY DEF PoolInv, TypeOK
<1>4. StreamsKnown' /\ OneConnection' /\ OpenWhileLive'
  BY <1>1 DEF PoolInv, SameConnections, StreamsKnown, OneConnection, OpenWhileLive
<1>5. FreeIsClosed'
  BY <1>1, <1>2 DEF PoolInv, SameConnections, FreeIsClosed
<1>6. PoolMatches' /\ FreeOnce'
  BY <1>1, <1>3 DEF PoolInv, SameConnections, PoolMatches, FreeOnce
<1> QED
  BY <1>4, <1>5, <1>6

\* A new value for one element of a sequence, and what it leaves alone.
LEMMA Update ==
  ASSUME NEW S, NEW f \in Seq(S), NEW c \in 1 .. Len(f), NEW v \in S,
         NEW g, g = [f EXCEPT ![c] = v]
  PROVE  /\ g \in Seq(S)
         /\ Len(g) = Len(f)
         /\ g[c] = v
         /\ \A d \in 1 .. Len(f) : d # c => g[d] = f[d]
  OBVIOUS

\* The fields of a connection one by one.
LEMMA Fields ==
  ASSUME NEW v \in Connection
  PROVE  /\ v.key \in Keys /\ v.stream \in Nat /\ v.started \in BOOLEAN
         /\ v.held \in Seq(Assemblers) /\ v.closed \in BOOLEAN
         /\ v.mu \in Assemblers \cup {NoAssembler}
  BY DEF Connection

\* The objects, and who points to them, as the actions use them.
LEMMA Pointers ==
  ASSUME TypeOK
  PROVE  /\ \A c \in Refs : object[c] \in Connection
         /\ \A a \in Assemblers : cur[a] \in Refs \cup {0}
         /\ \A k \in Keys : conns[k] \in Refs \cup {0}
         /\ \A a \in Assemblers : todo[a] \subseteq Refs
         /\ \A i \in DOMAIN free : free[i] \in Refs
         /\ Len(object) \in Nat /\ Len(streams) \in Nat /\ Len(free) \in Nat
  BY DEF TypeOK, Refs

\* A step of a that gives out, closes and frees no connection.
LEMMA Frame ==
  ASSUME PoolInv, TypeOK', NEW a \in Assemblers,
         SameConnections, UNCHANGED <<conns, free, streams, made>>,
         \A b \in Assemblers \ {a} :
           pc'[b] = pc[b] /\ cur'[b] = cur[b] /\ todo'[b] = todo[b],
         pc'[a] # "insert", pc'[a] # "remove",
         pc'[a] \in Pointing => cur'[a] # 0,
         cur'[a] # 0 => object[cur'[a]].stream # 0,
         \A c \in todo'[a] : object[c].stream # 0,
         \A c \in Refs : \/ object'[c].mu = object[c].mu
                         \/ object[c].mu \in {NoAssembler, a},
         pc'[a] \in Holding => object'[cur'[a]].mu = a,
         pc'[a] \in {"work", "complete"} => ~object[cur'[a]].closed
  PROVE  PoolInv'
<1>1. Refs' = Refs
  BY DEF SameConnections, Refs
<1>2. /\ StreamsKnown' /\ OneConnection' /\ OpenWhileLive' /\ FreeIsClosed'
      /\ PoolMatches' /\ FreeOnce'
  BY PoolUntouched
<1>3. TypeOK
  BY DEF PoolInv
<1>4. \A b \in Assemblers : /\ cur[b] \in Refs \cup {0} /\ cur'[b] \in Refs \cup {0}
                            /\ todo[b] \subseteq Refs /\ todo'[b] \subseteq Refs
  BY <1>1, <1>3 DEF TypeOK
<1>5. CurPoints'
  BY DEF PoolInv, CurPoints
<1>6. GivenOut'
  <2>1. ASSUME NEW k \in Keys, conns[k] # 0 PROVE object'[conns[k]].stream # 0
    <3>1. conns[k] \in Refs
      BY <1>3, <2>1 DEF TypeOK
    <3> QED
      BY <3>1, <2>1 DEF PoolInv, GivenOut, SameConnections
  <2>2. ASSUME NEW b \in Assemblers, cur'[b] # 0 PROVE object'[cur'[b]].stream # 0
    BY <1>4, <2>2 DEF PoolInv, GivenOut, SameConnections
  <2>3. ASSUME NEW b \in Assemblers, NEW c \in todo'[b] PROVE object'[c].stream # 0
    <3>1. c \in Refs
      BY <1>4
    <3> QED
      BY <3>1 DEF PoolInv, GivenOut, SameConnections
  <2> QED
    BY <2>1, <2>2, <2>3 DEF GivenOut
<1>7. MadeIsNew'
  BY <1>1 DEF PoolInv, MadeIsNew, SameConnections
<1>8. MutexHeld'
  <2>1. ASSUME NEW b \in Assemblers, b # a, pc[b] \in Holding PROVE object'[cur[b]].mu = b
    <3>1. cur[b] \in Refs /\ object[cur[b]].mu = b
      BY <1>4, <2>1 DEF PoolInv, CurPoints, MutexHeld, Pointing
    <3>2. b # NoAssembler
      BY StreamPoolAssumption
    <3> QED
      BY <3>1, <3>2, <2>1
  <2> QED
    BY <2>1 DEF MutexHeld
<1>9. WorkIsLive'
  <2>1. ASSUME NEW b \in Assemblers, b # a, pc[b] \in Holding
        PROVE  object'[cur[b]].closed = object[cur[b]].closed
    <3>1. cur[b] \in Refs
      BY <1>4, <2>1 DEF PoolInv, CurPoints, Pointing
    <3> QED
      BY <3>1 DEF SameConnections
  <2>2. pc'[a] \in {"work", "complete"} => ~object'[cur'[a]].closed
    <3> SUFFICES ASSUME pc'[a] \in {"work", "complete"} PROVE ~object'[cur'[a]].closed
      OBVIOUS
    <3>1. cur'[a] \in Refs
      BY <1>4 DEF Pointing, Holding
    <3> QED
      BY <3>1 DEF SameConnections
  <2>3. ASSUME NEW b \in Assemblers, b # a
        PROVE  /\ pc'[b] \in {"work", "complete"} => ~object'[cur'[b]].closed
               /\ pc'[b] = "remove" => /\ object'[cur'[b]].closed
                                       /\ \A i \in DOMAIN free' : free'[i] # cur'[b]
    BY <2>1, <2>3 DEF PoolInv, WorkIsLive, Holding
  <2> QED
    BY <2>2, <2>3 DEF WorkIsLive
<1> QED
  BY <1>2, <1>5, <1>6, <1>7, <1>8, <1>9 DEF PoolInv

-----------------------------------------------------------------------------
(* The steps that only look, wait or count.                                *)

\* Nothing that the pool or an assembler refers to is the object itself.
LEMMA SameObjects == ASSUME UNCHANGED object PROVE SameConnections
  BY DEF SameConnections

LEMMA AssembleStep ==
  ASSUME PoolInv, NEW a \in Assemblers, NEW s \in Segments, Assemble(a, s)
  PROVE  PoolInv'
<1> USE DEF Assemble, Goto
<1>1. TypeOK'
  <2>1. call' \in [Assemblers -> Call]
    BY SegmentsAssumption DEF PoolInv, TypeOK, Call
  <2> QED
    BY <2>1, StreamPoolAssumption DEF PoolInv, TypeOK, Labels, Refs
<1> QED
  BY <1>1, SameObjects, Frame DEF PoolInv, TypeOK, GivenOut, Pointing, Holding

LEMMA LookupStep ==
  ASSUME PoolInv, NEW a \in Assemblers, Lookup(a)
  PROVE  PoolInv'
<1> USE DEF Lookup, Goto, Return
<1>0. TypeOK /\ call[a].seg.key \in Keys
  BY DEF PoolInv, TypeOK, Call, Segment
<1>1. conns[call[a].seg.key] \in Refs \cup {0}
  BY <1>0, Pointers
<1>2. TypeOK'
  <2>1. call' \in [Assemblers -> Call]
    BY <1>0, NoCallType DEF TypeOK
  <2>2. cur' \in [Assemblers -> Refs \cup {0}]
    BY <1>0, <1>1 DEF TypeOK
  <2>3. pc' \in [Assemblers -> Labels]
    BY <1>0 DEF TypeOK, Labels
  <2> QED
    BY <1>0, <2>1, <2>2, <2>3 DEF TypeOK, Refs
<1>3. /\ cur'[a] # 0 => object[cur'[a]].stream # 0
      /\ pc'[a] \in {"lock", "new", "idle"}
      /\ pc'[a] = "lock" => cur'[a] # 0
  BY <1>0 DEF PoolInv, TypeOK, GivenOut
<1>4. \A b \in Assemblers \ {a} : pc'[b] = pc[b] /\ cur'[b] = cur[b] /\ todo'[b] = todo[b]
  BY <1>0 DEF TypeOK
<1> QED
  BY <1>2, <1>3, <1>4, SameObjects, Frame DEF PoolInv, GivenOut, Pointing, Holding

LEMMA RetryStep ==
  ASSUME PoolInv, NEW a \in Assemblers, Retry(a)
  PROVE  PoolInv'
<1> USE DEF Retry, Goto
<1>1. TypeOK'
  BY DEF PoolInv, TypeOK, Labels, Refs
<1> QED
  BY <1>1, SameObjects, Frame DEF PoolInv, TypeOK, GivenOut, Pointing, Holding

LEMMA ReplaceStep ==
  ASSUME PoolInv, NEW a \in Assemblers, Replace(a)
  PROVE  PoolInv'
<1> USE DEF Replace, Goto
<1>0. TypeOK /\ cur[a] # 0 /\ object[cur[a]].mu = a
  BY DEF PoolInv, CurPoints, MutexHeld, Pointing, Holding
<1>1. Len(object[cur[a]].held) \in Nat
  BY <1>0, Pointers, Fields
<1>2. TypeOK'
  BY <1>0, <1>1, SMTT(30) DEF TypeOK, Labels, Refs
<1> QED
  BY <1>0, <1>2, SameObjects, Frame DEF PoolInv, TypeOK, GivenOut, Pointing, Holding

LEMMA BeginFlushStep ==
  ASSUME PoolInv, NEW a \in Assemblers, NEW op \in {"older", "all"}, BeginFlush(a, op)
  PROVE  PoolInv'
<1> USE DEF BeginFlush, Goto
<1>0. TypeOK
  BY DEF PoolInv
<1>1. todo' \in [Assemblers -> SUBSET Refs] /\ todo'[a] = {conns[k] : k \in Keys} \ {0}
  BY <1>0, Pointers DEF TypeOK
<1>2. call' \in [Assemblers -> Call]
  BY <1>0 DEF TypeOK, Call
<1>3. TypeOK'
  BY <1>0, <1>1, <1>2, StreamPoolAssumption DEF TypeOK, Labels, Refs
<1>4. \A c \in todo'[a] : object[c].stream # 0
  BY <1>1 DEF PoolInv, GivenOut
<1> QED
  BY <1>0, <1>3, <1>4, SameObjects, Frame DEF TypeOK, PoolInv, GivenOut, Pointing, Holding

LEMMA FlushNextStep ==
  ASSUME PoolInv, NEW a \in Assemblers, FlushNext(a)
  PROVE  PoolInv'
<1> USE DEF FlushNext, Goto
<1>0. TypeOK
  BY DEF PoolInv
<1>1. PICK c \in todo[a] : /\ cur' = [cur EXCEPT ![a] = c]
                           /\ todo' = [todo EXCEPT ![a] = @ \ {c}]
  OBVIOUS
<1>2. c \in Refs /\ c # 0 /\ object[c].stream # 0
  BY <1>0, Pointers DEF PoolInv, GivenOut, Refs
<1>3. TypeOK'
  BY <1>0, <1>1, <1>2 DEF TypeOK, Labels, Refs
<1>4. /\ cur'[a] = c /\ todo'[a] \subseteq todo[a] /\ pc'[a] = "flushLock"
      /\ \A b \in Assemblers \ {a} :
           pc'[b] = pc[b] /\ cur'[b] = cur[b] /\ todo'[b] = todo[b]
  BY <1>0, <1>1 DEF TypeOK
<1> QED
  BY <1>2, <1>3, <1>4, SameObjects, Frame DEF PoolInv, GivenOut, Pointing, Holding

LEMMA FlushReturnsStep ==
  ASSUME PoolInv, NEW a \in Assemblers, FlushReturns(a)
  PROVE  PoolInv'
<1> USE DEF FlushReturns, Return, Goto
<1>1. TypeOK'
  BY NoCallType DEF PoolInv, TypeOK, Labels, Refs
<1> QED
  BY <1>1, SameObjects, Frame DEF PoolInv, TypeOK, GivenOut, Pointing, Holding

LEMMA PushDoneStep ==
  ASSUME PoolInv, NEW a \in Assemblers, PushDone(a)
  PROVE  PoolInv'
<1> USE DEF PushDone, Goto
<1>0. TypeOK /\ cur[a] # 0 /\ object[cur[a]].mu = a
  BY DEF PoolInv, CurPoints, MutexHeld, Pointing, Holding
<1>1. TypeOK'
  BY <1>0 DEF TypeOK, Labels, Refs
<1> QED
  BY <1>0, <1>1, SameObjects, Frame DEF PoolInv, TypeOK, GivenOut, Pointing, Holding

-----------------------------------------------------------------------------
(* The steps on a connection whose mutex is taken, held or given back.     *)

\* One connection changes, in its mutex, pages and started flag only.
LEMMA OneChanges ==
  ASSUME object \in Seq(Connection), NEW c \in Refs, NEW v \in Connection,
         object' = [object EXCEPT ![c] = v],
         v.key = object[c].key, v.stream = object[c].stream,
         v.closed = object[c].closed
  PROVE  /\ object' \in Seq(Connection) /\ Refs' = Refs /\ SameConnections
         /\ object'[c] = v
         /\ \A d \in Refs : d # c => object'[d] = object[d]
<1>1. /\ object' \in Seq(Connection) /\ Len(object') = Len(object)
      /\ object'[c] = v
      /\ \A d \in Refs : d # c => object'[d] = object[d]
  BY Update DEF Refs
<1> QED
  BY <1>1 DEF Refs, SameConnections

LEMMA AcquireChanges ==
  ASSUME TypeOK, NEW a \in Assemblers, cur[a] # 0, Acquire(a)
  PROVE  /\ object' \in Seq(Connection) /\ Refs' = Refs /\ SameConnections
         /\ object'[cur[a]].mu = a
         /\ \A c \in Refs : \/ object'[c].mu = object[c].mu
                            \/ object[c].mu = NoAssembler
<1> DEFINE v == [object[cur[a]] EXCEPT !.mu = a]
<1>1. cur[a] \in Refs /\ object[cur[a]] \in Connection
  BY Pointers
<1>2. v \in Connection /\ v.mu = a /\ v.key = object[cur[a]].key
      /\ v.stream = object[cur[a]].stream /\ v.closed = object[cur[a]].closed
  BY <1>1 DEF Connection
<1>3. object' = [object EXCEPT ![cur[a]] = v] /\ object[cur[a]].mu = NoAssembler
  BY DEF Acquire
<1> HIDE DEF v
<1>4. object \in Seq(Connection)
  BY DEF TypeOK
<1> QED
  BY <1>1, <1>2, <1>3, <1>4, OneChanges

LEMMA LockStep ==
  ASSUME PoolInv, NEW a \in Assemblers, Lock(a)
  PROVE  PoolInv'
<1> USE DEF Lock, Goto
<1>0. TypeOK /\ cur[a] # 0 /\ object[cur[a]].stream # 0
  BY DEF PoolInv, CurPoints, GivenOut, Pointing
<1>1. /\ object' \in Seq(Connection) /\ Refs' = Refs /\ SameConnections
      /\ object'[cur[a]].mu = a
      /\ \A c \in Refs : \/ object'[c].mu = object[c].mu
                         \/ object[c].mu = NoAssembler
  BY <1>0, AcquireChanges
<1>2. TypeOK'
  BY <1>0, <1>1 DEF TypeOK, Labels
<1> QED
  BY <1>0, <1>1, <1>2, Frame DEF PoolInv, TypeOK, GivenOut

LEMMA FlushLockStep ==
  ASSUME PoolInv, NEW a \in Assemblers, FlushLock(a)
  PROVE  PoolInv'
<1> USE DEF FlushLock, Goto
<1>0. TypeOK /\ cur[a] # 0 /\ object[cur[a]].stream # 0
  BY DEF PoolInv, CurPoints, GivenOut, Pointing
<1>1. /\ object' \in Seq(Connection) /\ Refs' = Refs /\ SameConnections
      /\ object'[cur[a]].mu = a
      /\ \A c \in Refs : \/ object'[c].mu = object[c].mu
                         \/ object[c].mu = NoAssembler
  BY <1>0, AcquireChanges
<1>2. TypeOK'
  BY <1>0, <1>1 DEF TypeOK, Labels
<1> QED
  BY <1>0, <1>1, <1>2, Frame DEF PoolInv, TypeOK, GivenOut

LEMMA UnlockStep ==
  ASSUME PoolInv, NEW a \in Assemblers, Unlock(a)
  PROVE  PoolInv'
<1> USE DEF Unlock, Goto, Return
<1> DEFINE v == [object[cur[a]] EXCEPT !.mu = NoAssembler]
<1>0. TypeOK /\ cur[a] # 0 /\ object[cur[a]].stream # 0 /\ object[cur[a]].mu = a
  BY DEF PoolInv, CurPoints, GivenOut, MutexHeld, Pointing, Holding
<1>1. cur[a] \in Refs /\ object[cur[a]] \in Connection /\ object \in Seq(Connection)
  BY <1>0, Pointers DEF TypeOK
<1>2. v \in Connection /\ v.key = object[cur[a]].key
      /\ v.stream = object[cur[a]].stream /\ v.closed = object[cur[a]].closed
  BY <1>1 DEF Connection
<1>3. object' = [object EXCEPT ![cur[a]] = v]
  OBVIOUS
<1> HIDE DEF v
<1>4. /\ object' \in Seq(Connection) /\ Refs' = Refs /\ SameConnections
      /\ \A d \in Refs : d # cur[a] => object'[d] = object[d]
  BY <1>1, <1>2, <1>3, OneChanges
<1>5. TypeOK'
  BY <1>0, <1>4, NoCallType, ZenonT(60) DEF TypeOK, Labels
<1>6. /\ pc'[a] \in {"idle", "flush"}
      /\ cur'[a] # 0 => object[cur'[a]].stream # 0
      /\ \A b \in Assemblers \ {a} :
           pc'[b] = pc[b] /\ cur'[b] = cur[b] /\ todo'[b] = todo[b]
  BY <1>0 DEF TypeOK
<1> QED
  BY <1>0, <1>4, <1>5, <1>6, Frame DEF PoolInv, GivenOut, Pointing, Holding

-----------------------------------------------------------------------------
(* Work on the pages of a locked connection.                               *)

\* What is left of a page list when its first n pages were taken.
LEMMA RestOfPages ==
  ASSUME NEW h \in Seq(Assemblers), NEW n \in 0 .. Len(h)
  PROVE  SubSeq(h, n + 1, Len(h)) \in Seq(Assemblers)
  OBVIOUS

\* A step of a that holds the mutex of cur[a] and changes its pages.
LEMMA PagesStep ==
  ASSUME PoolInv, NEW a \in Assemblers, NEW h \in Seq(Assemblers), NEW b \in BOOLEAN,
         pc[a] \in Holding,
         object' = [object EXCEPT ![cur[a]].held = h, ![cur[a]].started = b],
         NEW d \in Int, used' = [used EXCEPT ![a] = d],
         NEW label \in {"unlock", "complete", "push"}, Goto(a, label),
         label = "complete" => ~object[cur[a]].closed,
         UNCHANGED <<conns, free, nextAlloc, streams, call, cur, made, todo, calls>>
  PROVE  PoolInv'
<1> DEFINE v == [object[cur[a]] EXCEPT !.held = h, !.started = b]
<1> USE DEF Goto
<1>0. TypeOK /\ cur[a] # 0 /\ object[cur[a]].stream # 0 /\ object[cur[a]].mu = a
  BY DEF PoolInv, CurPoints, GivenOut, MutexHeld, Pointing
<1>1. cur[a] \in Refs /\ object[cur[a]] \in Connection /\ object \in Seq(Connection)
  BY <1>0, Pointers DEF TypeOK
<1>2. v \in Connection /\ v.key = object[cur[a]].key /\ v.mu = object[cur[a]].mu
      /\ v.stream = object[cur[a]].stream /\ v.closed = object[cur[a]].closed
  BY <1>1 DEF Connection
<1>3. object' = [object EXCEPT ![cur[a]] = v]
  BY <1>1
<1> HIDE DEF v
<1>4. /\ object' \in Seq(Connection) /\ Refs' = Refs /\ SameConnections
      /\ object'[cur[a]] = v
      /\ \A c \in Refs : c # cur[a] => object'[c] = object[c]
  BY <1>1, <1>2, <1>3, OneChanges
<1>5. TypeOK'
  BY <1>0, <1>4 DEF TypeOK, Labels
<1>6. pc'[a] = label /\ \A c \in Assemblers \ {a} : pc'[c] = pc[c]
  BY <1>0 DEF TypeOK
<1>7. \A c \in Refs : object'[c].mu = object[c].mu
  BY <1>1, <1>2, <1>4
<1>8. \A c \in todo[a] : object[c].stream # 0
  BY DEF PoolInv, GivenOut
<1>9. pc'[a] \in Holding => object'[cur'[a]].mu = a
  BY <1>0, <1>1, <1>7
<1> QED
  BY <1>0, <1>4, <1>5, <1>6, <1>7, <1>8, <1>9, Frame

LEMMA DeliverStep ==
  ASSUME PoolInv, NEW a \in Assemblers, Deliver(a)
  PROVE  PoolInv'
<1>0. TypeOK /\ cur[a] # 0 /\ pc[a] = "work" /\ ~object[cur[a]].closed
  BY DEF Deliver, PoolInv, CurPoints, WorkIsLive, Pointing, Holding
<1>1. cur[a] \in Refs /\ object[cur[a]] \in Connection /\ object[cur[a]].held \in Seq(Assemblers)
  BY <1>0, Pointers, Fields
<1> DEFINE h(n) == SubSeq(object[cur[a]].held, n + 1, Len(object[cur[a]].held))
<1>2. PICK n \in 0 .. Len(object[cur[a]].held) :
        /\ object' = [object EXCEPT ![cur[a]].held = h(n), ![cur[a]].started = TRUE]
        /\ used' = [used EXCEPT ![a] = used[a] - n]
        /\ \/ Goto(a, IF n = 0 /\ call[a].seg.ends THEN "complete" ELSE "unlock")
           \/ n > 0 /\ Goto(a, "complete")
  BY <1>0, <1>1 DEF Deliver, TypeOK
<1>3. PICK label \in {"unlock", "complete", "push"} : Goto(a, label)
  BY <1>2
<1>4. h(n) \in Seq(Assemblers)
  BY <1>1, RestOfPages
<1> HIDE DEF h
<1>5. used[a] - n \in Int
  BY <1>0, <1>1 DEF TypeOK
<1>6. UNCHANGED <<conns, free, nextAlloc, streams, call, cur, made, todo, calls>>
  BY DEF Deliver
<1> QED
  BY <1>0, <1>2, <1>3, <1>4, <1>5, <1>6, PagesStep DEF Holding

LEMMA BufferStep ==
  ASSUME PoolInv, NEW a \in Assemblers, Buffer(a)
  PROVE  PoolInv'
<1>0. TypeOK /\ cur[a] # 0 /\ pc[a] = "work" /\ object[cur[a]].started
  BY DEF Buffer, PoolInv, CurPoints, Pointing, Holding
<1>1. cur[a] \in Refs /\ object[cur[a]] \in Connection /\ object \in Seq(Connection)
      /\ object[cur[a]].held \in Seq(Assemblers) /\ object[cur[a]].started \in BOOLEAN
  BY <1>0, Pointers, Fields DEF TypeOK
<1> DEFINE h == Append(object[cur[a]].held, a)
<1>2. [object[cur[a]] EXCEPT !.held = h] = [object[cur[a]] EXCEPT !.held = h, !.started = TRUE]
  <2> HIDE DEF h
  <2> QED
    BY <1>0, <1>1 DEF Connection
<1>3. h \in Seq(Assemblers)
  BY <1>1
<1>4. object' = [object EXCEPT ![cur[a]].held = h]
  BY DEF Buffer
<1>5. object' = [object EXCEPT ![cur[a]].held = h, ![cur[a]].started = TRUE]
  <2> HIDE DEF h
  <2> QED
    BY <1>1, <1>2, <1>4
<1> HIDE DEF h
<1>6. used' = [used EXCEPT ![a] = used[a] + 1] /\ used[a] + 1 \in Int
  BY <1>0 DEF Buffer, TypeOK
<1>7. UNCHANGED <<conns, free, nextAlloc, streams, call, cur, made, todo, calls>> /\ Goto(a, "unlock")
  BY DEF Buffer
<1> QED
  BY <1>0, <1>3, <1>5, <1>6, <1>7, PagesStep DEF Holding

LEMMA PushStep ==
  ASSUME PoolInv, NEW a \in Assemblers, Push(a)
  PROVE  PoolInv'
<1>0. TypeOK /\ cur[a] # 0 /\ pc[a] = "push" /\ ~object[cur[a]].closed
  BY DEF Push, PoolInv, CurPoints, Pointing, Holding
<1>1. cur[a] \in Refs /\ object[cur[a]] \in Connection /\ object \in Seq(Connection)
      /\ object[cur[a]].held \in Seq(Assemblers) /\ object[cur[a]].started \in BOOLEAN
  BY <1>0, Pointers, Fields DEF TypeOK
<1> DEFINE h(n) == SubSeq(object[cur[a]].held, n + 1, Len(object[cur[a]].held))
<1>2. PICK n \in 0 .. Len(object[cur[a]].held) :
        /\ object' = [object EXCEPT ![cur[a]].held = h(n)]
        /\ used' = [used EXCEPT ![a] = used[a] - n]
        /\ \/ Goto(a, "complete")
           \/ n > 0 /\ Goto(a, "push")
  BY <1>0, <1>1 DEF Push, TypeOK
<1>3. PICK label \in {"unlock", "complete", "push"} : Goto(a, label)
  BY <1>2
<1>4. h(n) \in Seq(Assemblers)
  BY <1>1, RestOfPages
<1> HIDE DEF h
<1>5. used[a] - n \in Int
  BY <1>0, <1>1 DEF TypeOK
<1>6. UNCHANGED <<conns, free, nextAlloc, streams, call, cur, made, todo, calls>>
  BY DEF Push
<1>7. [object[cur[a]] EXCEPT !.held = h(n)]
        = [object[cur[a]] EXCEPT !.held = h(n), !.started = object[cur[a]].started]
  BY <1>1 DEF Connection
<1>8. object' = [object EXCEPT ![cur[a]].held = h(n),
                               ![cur[a]].started = object[cur[a]].started]
  BY <1>1, <1>2, <1>7
<1> QED
  BY <1>0, <1>1, <1>2, <1>3, <1>4, <1>5, <1>6, <1>8, PagesStep DEF Holding

-----------------------------------------------------------------------------
(* The steps that make, give out, close and free a connection.             *)

LEMMA NewStep ==
  ASSUME PoolInv, NEW a \in Assemblers, New(a)
  PROVE  PoolInv'
<1> USE DEF New, Goto
<1> DEFINE fresh == [key |-> call[a].seg.key, state |-> "open"]
<1>0. TypeOK /\ call[a].seg.key \in Keys
  BY DEF PoolInv, TypeOK, Call, Segment
<1>1. fresh \in [key : Keys, state : {"open", "complete"}] /\ fresh.state = "open"
      /\ streams' = Append(streams, fresh)
  BY <1>0
<1> HIDE DEF fresh
<1>2. /\ streams' \in Seq([key : Keys, state : {"open", "complete"}])
      /\ Len(streams) \in Nat /\ Len(streams') = Len(streams) + 1
      /\ streams'[Len(streams) + 1] = fresh
      /\ \A i \in 1 .. Len(streams) : streams'[i] = streams[i]
  BY <1>0, <1>1 DEF TypeOK
<1>3. made' \in [Assemblers -> 0 .. Len(streams')] /\ made'[a] = Len(streams) + 1
      /\ \A b \in Assemblers : b # a => made'[b] = made[b]
  BY <1>0, <1>2 DEF TypeOK
<1>4. TypeOK'
  BY <1>0, <1>2, <1>3 DEF TypeOK, Labels, Refs
<1>5. StreamsKnown'
  BY <1>2 DEF PoolInv, StreamsKnown, Refs
<1>6. MadeIsNew'
  <2>1. ASSUME NEW b \in Assemblers, made'[b] # 0
        PROVE  /\ streams'[made'[b]].state = "open"
               /\ \A c \in Refs' : object'[c].stream # made'[b]
    <3>1. CASE b = a
      BY <3>1, <1>1, <1>2, <1>3 DEF PoolInv, StreamsKnown, Refs
    <3>2. CASE b # a
      <4>1. made[b] \in 1 .. Len(streams) /\ made'[b] = made[b]
        BY <3>2, <2>1, <1>0, <1>3 DEF TypeOK
      <4> QED
        BY <4>1, <1>2 DEF PoolInv, MadeIsNew, Refs
    <3> QED
      BY <3>1, <3>2
  <2>2. ASSUME NEW b \in Assemblers, NEW c \in Assemblers, made'[b] # 0, b # c
        PROVE  made'[b] # made'[c]
    <3>1. made[b] \in 0 .. Len(streams) /\ made[c] \in 0 .. Len(streams)
      BY <1>0 DEF TypeOK
    <3> QED
      BY <3>1, <2>2, <1>2, <1>3 DEF PoolInv, MadeIsNew
  <2>3. ASSUME NEW b \in Assemblers, pc'[b] = "insert" PROVE made'[b] # 0
    BY <2>3, <1>0, <1>2, <1>3 DEF PoolInv, MadeIsNew, TypeOK
  <2> QED
    BY <2>1, <2>2, <2>3 DEF MadeIsNew
<1>7. OpenWhileLive'
  <2>1. \A c \in Refs : object[c].stream # 0 => object[c].stream \in 1 .. Len(streams)
    BY <1>0, Pointers DEF PoolInv, StreamsKnown, Refs
  <2> QED
    BY <2>1, <1>2 DEF PoolInv, OpenWhileLive, Refs
<1>8. CurPoints' /\ MutexHeld' /\ WorkIsLive' /\ GivenOut'
  BY <1>0 DEF PoolInv, CurPoints, MutexHeld, WorkIsLive, GivenOut, TypeOK, Pointing, Holding
<1>9. OneConnection' /\ FreeIsClosed' /\ PoolMatches' /\ FreeOnce'
  BY DEF PoolInv, OneConnection, FreeIsClosed, PoolMatches, FreeOnce, Refs
<1> QED
  BY <1>4, <1>5, <1>6, <1>7, <1>8, <1>9 DEF PoolInv

LEMMA CompleteStep ==
  ASSUME PoolInv, NEW a \in Assemblers, Complete(a)
  PROVE  PoolInv'
<1> USE DEF Complete, Goto
<1> DEFINE c == cur[a]
           v == [object[c] EXCEPT !.closed = TRUE]
           s == object[c].stream
           w == [streams[s] EXCEPT !.state = "complete"]
<1>0. TypeOK /\ c \in Refs /\ object[c].mu = a /\ ~object[c].closed /\ s # 0
      /\ pc[a] = "complete"
  BY Pointers DEF PoolInv, CurPoints, GivenOut, MutexHeld, WorkIsLive, Pointing, Holding
<1>1. object[c] \in Connection /\ s \in 1 .. Len(streams) /\ object \in Seq(Connection)
  BY <1>0, Pointers DEF PoolInv, StreamsKnown, TypeOK
<1>2. v \in Connection /\ v.key = object[c].key /\ v.stream = s /\ v.closed /\ v.mu = a
  BY <1>0, <1>1 DEF Connection
<1>3. object' = [object EXCEPT ![c] = v]
  OBVIOUS
<1>4. streams' = [streams EXCEPT ![s] = w]
  OBVIOUS
<1>41. streams \in Seq(StreamRec)
  BY <1>0 DEF TypeOK, StreamRec
<1>42. w \in StreamRec
  <2> HIDE DEF s
  <2>1. streams[s] \in StreamRec
    BY <1>1, <1>41
  <2> QED
    BY <2>1 DEF StreamRec
<1> HIDE DEF v, w, s, c
<1>5. /\ object' \in Seq(Connection) /\ Len(object') = Len(object) /\ object'[c] = v
      /\ \A d \in Refs : d # c => object'[d] = object[d]
  BY <1>0, <1>1, <1>2, <1>3, Update DEF Refs
<1>6. Refs' = Refs
  BY <1>5 DEF Refs
<1>7. \A d \in Refs : /\ object'[d].key = object[d].key
                      /\ object'[d].stream = object[d].stream
                      /\ object'[d].mu = object[d].mu
                      /\ d # c => object'[d].closed = object[d].closed
                      /\ object[d].closed => object'[d].closed
  BY <1>0, <1>2, <1>5 DEF s, c
<1>8. /\ streams' \in Seq(StreamRec)
      /\ Len(streams') = Len(streams)
      /\ \A i \in 1 .. Len(streams) : i # s => streams'[i] = streams[i]
  <2> HIDE DEF Complete, Goto
  <2> QED
    BY <1>1, <1>4, <1>41, <1>42, Update
<1>9. TypeOK'
  BY <1>0, <1>5, <1>6, <1>8 DEF TypeOK, Labels, StreamRec
<1>10. StreamsKnown' /\ OneConnection'
  BY <1>6, <1>7, <1>8 DEF PoolInv, StreamsKnown, OneConnection
<1>11. OpenWhileLive'
  <2> SUFFICES ASSUME NEW d \in Refs, object[d].stream # 0, ~object'[d].closed
               PROVE  streams'[object[d].stream].state = "open"
    BY <1>6, <1>7 DEF OpenWhileLive
  <2>1. d # c /\ ~object[d].closed
    BY <1>2, <1>5, <1>7
  <2>2. object[d].stream # s
    BY <2>1, <1>0 DEF PoolInv, OneConnection, s, c
  <2>3. object[d].stream \in 1 .. Len(streams)
    BY <1>0, Pointers DEF PoolInv, StreamsKnown
  <2> QED
    BY <2>1, <2>2, <2>3, <1>8 DEF PoolInv, OpenWhileLive
<1>12. FreeIsClosed'
  BY <1>0, <1>7, Pointers DEF PoolInv, FreeIsClosed
<1>13. PoolMatches' /\ FreeOnce'
  BY <1>0, <1>7, Pointers DEF PoolInv, PoolMatches, FreeOnce
<1>14. CurPoints'
  BY <1>0 DEF PoolInv, CurPoints, TypeOK, Pointing, Holding
<1>15. GivenOut'
  <2>1. \A k \in Keys : conns[k] # 0 => object'[conns[k]].stream # 0
    BY <1>0, <1>7, Pointers DEF PoolInv, GivenOut
  <2>2. \A b \in Assemblers : cur[b] # 0 => object'[cur[b]].stream # 0
    BY <1>0, <1>7, Pointers DEF PoolInv, GivenOut
  <2>3. ASSUME NEW b \in Assemblers, NEW d \in todo[b] PROVE object'[d].stream # 0
    <3>1. d \in Refs
      BY <1>0, Pointers
    <3> QED
      BY <3>1, <1>7 DEF PoolInv, GivenOut
  <2> QED
    BY <2>1, <2>2, <2>3 DEF GivenOut
<1>16. MutexHeld'
  <2> SUFFICES ASSUME NEW b \in Assemblers, pc'[b] \in Holding PROVE object'[cur[b]].mu = b
    BY DEF MutexHeld
  <2>1. pc[b] \in Holding
    BY <1>0 DEF Holding, TypeOK
  <2>2. cur[b] \in Refs
    BY <2>1, <1>0, Pointers DEF PoolInv, CurPoints, Pointing
  <2> QED
    BY <2>1, <2>2, <1>7 DEF PoolInv, MutexHeld
<1>17. \A b \in Assemblers : b # a /\ pc[b] \in Holding => cur[b] \in Refs /\ cur[b] # c
  BY <1>0, Pointers DEF PoolInv, CurPoints, MutexHeld, Pointing
<1>18. \A i \in DOMAIN free : free[i] # c
  BY <1>0 DEF PoolInv, FreeIsClosed, s, c
<1>19. WorkIsLive'
  <2>1. ASSUME NEW b \in Assemblers, b # a
        PROVE  /\ pc'[b] = pc[b]
               /\ pc[b] \in {"work", "complete"} => ~object'[cur[b]].closed
               /\ pc[b] = "remove" => /\ object'[cur[b]].closed
                                      /\ \A i \in DOMAIN free : free[i] # cur[b]
    <3>1. pc'[b] = pc[b]
      BY <2>1, <1>0 DEF TypeOK
    <3>2. pc[b] \in {"work", "complete", "remove"} =>
            object'[cur[b]].closed = object[cur[b]].closed
      BY <2>1, <1>7, <1>17 DEF Holding
    <3> QED
      BY <3>1, <3>2 DEF PoolInv, WorkIsLive
  <2>2. object'[c].closed /\ pc'[a] = "remove"
    BY <1>0, <1>2, <1>5 DEF TypeOK
  <2> QED
    BY <2>1, <2>2, <1>18 DEF WorkIsLive, c
<1>20. MadeIsNew'
  <2>1. ASSUME NEW b \in Assemblers, made[b] # 0
        PROVE  streams'[made[b]].state = "open"
    <3>1. made[b] \in 1 .. Len(streams) /\ made[b] # s
      BY <2>1, <1>0 DEF PoolInv, MadeIsNew, TypeOK, s, c
    <3> QED
      BY <2>1, <3>1, <1>8 DEF PoolInv, MadeIsNew
  <2> QED
    BY <2>1, <1>0, <1>6, <1>7 DEF PoolInv, MadeIsNew, TypeOK
<1> QED
  BY <1>9, <1>10, <1>11, <1>12, <1>13, <1>14, <1>15, <1>16, <1>19, <1>20 DEF PoolInv

LEMMA RemoveStep ==
  ASSUME PoolInv, NEW a \in Assemblers, Remove(a)
  PROVE  PoolInv'
<1> USE DEF Remove, Goto
<1>0. TypeOK /\ cur[a] \in Refs /\ object[cur[a]].mu = a /\ object[cur[a]].closed
      /\ pc[a] = "remove" /\ \A i \in DOMAIN free : free[i] # cur[a]
  BY Pointers DEF PoolInv, CurPoints, MutexHeld, WorkIsLive, Pointing, Holding
<1>1. object[cur[a]].key \in Keys
  BY <1>0, Pointers, Fields
<1>2. /\ free' \in Seq(Refs) /\ Len(free') = Len(free) + 1 /\ Len(free) \in Nat
      /\ free'[Len(free) + 1] = cur[a]
      /\ \A i \in 1 .. Len(free) : free'[i] = free[i]
  BY <1>0 DEF TypeOK
<1>3. /\ conns' \in [Keys -> Refs \cup {0}]
      /\ \A k \in Keys : conns'[k] = IF k = object[cur[a]].key THEN 0 ELSE conns[k]
  BY <1>0, <1>1 DEF TypeOK
<1>4. TypeOK'
  BY <1>0, <1>2, <1>3 DEF TypeOK, Labels, Refs
<1>5. StreamsKnown' /\ OneConnection' /\ OpenWhileLive' /\ MadeIsNew'
  BY <1>0 DEF PoolInv, StreamsKnown, OneConnection, OpenWhileLive, MadeIsNew, Refs, TypeOK
<1>6. CurPoints' /\ MutexHeld'
  BY <1>0 DEF PoolInv, CurPoints, MutexHeld, Pointing, Holding, TypeOK
<1>7. GivenOut'
  BY <1>3 DEF PoolInv, GivenOut
<1>8. FreeIsClosed'
  BY <1>0, <1>2 DEF PoolInv, FreeIsClosed
<1>9. FreeOnce'
  BY <1>0, <1>2 DEF PoolInv, FreeOnce
<1>10. PoolMatches'
  BY <1>0, <1>2, <1>3 DEF PoolInv, PoolMatches
<1>11. WorkIsLive'
  <2>1. ASSUME NEW b \in Assemblers, b # a, pc[b] \in Holding PROVE cur[b] # cur[a]
    BY <2>1, <1>0 DEF PoolInv, MutexHeld
  <2> QED
    BY <2>1, <1>0, <1>2 DEF PoolInv, WorkIsLive, Holding, TypeOK
<1> QED
  BY <1>4, <1>5, <1>6, <1>7, <1>8, <1>9, <1>10, <1>11 DEF PoolInv

\* A sequence without its last element, and one behind another.
LEMMA Popped ==
  ASSUME NEW S, NEW f \in Seq(S), NEW n \in Nat, Len(f) = n + 1
  PROVE  /\ SubSeq(f, 1, n) \in Seq(S)
         /\ DOMAIN SubSeq(f, 1, n) = 1 .. n
         /\ \A i \in 1 .. n : SubSeq(f, 1, n)[i] = f[i]
  OBVIOUS

LEMMA Behind ==
  ASSUME NEW S, NEW f \in Seq(S), NEW g \in Seq(S), NEW h, h = f \o g
  PROVE  /\ h \in Seq(S) /\ Len(h) = Len(f) + Len(g)
         /\ \A i \in 1 .. Len(f) : h[i] = f[i]
         /\ \A i \in 1 .. Len(h) : i > Len(f) => i - Len(f) \in 1 .. Len(g) /\ h[i] = g[i - Len(f)]
  OBVIOUS

\* grow() makes blank connections beyond those there are, and all of them are
\* put on the free stack.
LEMMA Grown ==
  ASSUME PoolInv
  PROVE  /\ Objects \in Seq(Connection)
         /\ Len(Objects) \in Nat /\ Len(object) \in Nat /\ Len(Objects) >= Len(object)
         /\ \A c \in Refs : Objects[c] = object[c]
         /\ \A c \in 1 .. Len(Objects) : c \notin Refs => Objects[c] = Blank
         /\ Stack \in Seq(1 .. Len(Objects)) /\ Len(Stack) \in Nat \ {0}
         /\ \A i, j \in 1 .. Len(Stack) : i # j => Stack[i] # Stack[j]
         /\ \A i \in 1 .. Len(Stack) : Stack[i] \in Refs =>
              \E j \in DOMAIN free : free[j] = Stack[i]
<1>0. TypeOK /\ object \in Seq(Connection) /\ free \in Seq(Refs) /\ nextAlloc \in Nat \ {0}
  BY DEF PoolInv, TypeOK
<1>1. CASE free # <<>>
  <2>1. Objects = object /\ Stack = free
    BY <1>1 DEF Objects, Stack
  <2>2. Len(free) \in Nat \ {0}
    BY <1>0, <1>1
  <2>3. \A i, j \in 1 .. Len(free) : i # j => free[i] # free[j]
    BY <1>0 DEF PoolInv, FreeOnce
  <2> QED
    BY <1>0, <2>1, <2>2, <2>3 DEF Refs
<1>2. CASE free = <<>>
  <2> DEFINE more == [i \in 1 .. nextAlloc |-> Blank]
             st   == [i \in 1 .. nextAlloc |-> Len(object) + i]
  <2>1. Objects = object \o more /\ Stack = st
    BY <1>2 DEF Objects, Stack
  <2>2. more \in Seq(Connection) /\ Len(more) = nextAlloc
        /\ \A i \in 1 .. nextAlloc : more[i] = Blank
    BY <1>0, BlankType
  <2> HIDE DEF more
  <2>3. /\ Objects \in Seq(Connection) /\ Len(Objects) = Len(object) + nextAlloc
        /\ \A c \in 1 .. Len(object) : Objects[c] = object[c]
        /\ \A c \in 1 .. Len(Objects) : c > Len(object) => Objects[c] = Blank
    <3>1. /\ Objects \in Seq(Connection) /\ Len(Objects) = Len(object) + Len(more)
          /\ \A c \in 1 .. Len(object) : Objects[c] = object[c]
          /\ \A c \in 1 .. Len(Objects) : c > Len(object) =>
               c - Len(object) \in 1 .. Len(more) /\ Objects[c] = more[c - Len(object)]
      <4>1. object \in Seq(Connection) /\ more \in Seq(Connection) /\ Objects = object \o more
        BY <1>0, <2>1, <2>2
      <4> QED
        BY <4>1, Behind
    <3> QED
      BY <3>1, <2>2
  <2>4. st \in Seq(1 .. Len(Objects)) /\ Len(st) = nextAlloc
        /\ \A i \in 1 .. nextAlloc : st[i] = Len(object) + i
    BY <1>0, <2>3
  <2> HIDE DEF st
  <2> QED
    BY <1>0, <2>1, <2>3, <2>4 DEF Refs
<1> QED
  BY <1>1, <1>2

\* The connection that newConnection pops.
Fresh == Stack[Len(Stack)]

\* What getConnection gives out: a connection that the pool does not refer to
\* and nobody works on, with the new stream and the key of the segment.
LEMMA InsertGives ==
  ASSUME PoolInv, NEW a \in Assemblers, Insert(a)
  PROVE  /\ call[a].seg.key \in Keys /\ made[a] # 0
         /\ Fresh \in Refs' /\ Fresh # 0
         /\ Refs' = 1 .. Len(Objects) /\ Refs \subseteq Refs'
         /\ object' \in Seq(Connection)
         /\ object'[Fresh].key = call[a].seg.key /\ object'[Fresh].stream = made[a]
         /\ ~object'[Fresh].closed /\ object'[Fresh].held = <<>>
         /\ \A d \in Refs : object'[d].mu = object[d].mu
         /\ \A d \in Refs : d # Fresh => object'[d] = object[d]
         /\ \A d \in Refs' : d \notin Refs /\ d # Fresh => object'[d] = Blank
         /\ Fresh \in Refs => /\ object[Fresh].closed \/ object[Fresh].stream = 0
                              /\ \A x \in Keys : conns[x] # Fresh
                              /\ \E j \in DOMAIN free : free[j] = Fresh
<1> DEFINE k     == call[a].seg.key
           fresh == Fresh
           v     == reset(Objects[fresh], k, made[a])
<1>0. TypeOK /\ k \in Keys /\ pc[a] = "insert" /\ made[a] # 0
  BY DEF PoolInv, TypeOK, Call, Segment, Insert, MadeIsNew
<1>1. object' = [Objects EXCEPT ![fresh] = v]
  BY DEF Insert, Fresh
<1>2. /\ Objects \in Seq(Connection)
      /\ Len(Objects) \in Nat /\ Len(object) \in Nat /\ Len(Objects) >= Len(object)
      /\ \A c \in Refs : Objects[c] = object[c]
      /\ \A c \in 1 .. Len(Objects) : c \notin Refs => Objects[c] = Blank
      /\ Stack \in Seq(1 .. Len(Objects)) /\ Len(Stack) \in Nat \ {0}
      /\ \A i, j \in 1 .. Len(Stack) : i # j => Stack[i] # Stack[j]
      /\ \A i \in 1 .. Len(Stack) : Stack[i] \in Refs =>
           \E j \in DOMAIN free : free[j] = Stack[i]
  BY Grown
<1>3. fresh \in 1 .. Len(Objects) /\ fresh # 0
  BY <1>2 DEF Fresh
<1>4. /\ v \in Connection /\ v.key = k /\ v.stream = made[a] /\ ~v.closed
      /\ v.mu = Objects[fresh].mu /\ v.held = <<>>
  <2>1. Objects[fresh] \in Connection /\ made[a] \in Nat
    BY <1>0, <1>2, <1>3 DEF TypeOK
  <2>2. \A o \in Connection, m \in Nat, x \in Keys :
          /\ reset(o, x, m) \in Connection /\ reset(o, x, m).key = x
          /\ reset(o, x, m).stream = m /\ ~reset(o, x, m).closed
          /\ reset(o, x, m).mu = o.mu /\ reset(o, x, m).held = <<>>
    <3>1. <<>> \in Seq(Assemblers)
      OBVIOUS
    <3> QED
      BY <3>1, ZenonT(60) DEF reset, Connection
  <2> HIDE DEF fresh, k
  <2> QED
    BY <1>0, <2>1, <2>2
<1>5. fresh \in Refs => \E j \in DOMAIN free : free[j] = fresh
  BY <1>2 DEF Fresh
<1>6. fresh \in Refs => /\ object[fresh].closed \/ object[fresh].stream = 0
                        /\ \A x \in Keys : conns[x] # fresh
  <2> SUFFICES ASSUME fresh \in Refs
               PROVE  /\ object[fresh].closed \/ object[fresh].stream = 0
                      /\ \A x \in Keys : conns[x] # fresh
    OBVIOUS
  <2>1. PICK j \in DOMAIN free : free[j] = fresh
    BY <1>5
  <2> HIDE DEF fresh
  <2> QED
    BY <2>1, <1>3 DEF PoolInv, FreeIsClosed, PoolMatches
<1> HIDE DEF v, fresh, k
<1>7. /\ object' \in Seq(Connection) /\ Len(object') = Len(Objects) /\ object'[fresh] = v
      /\ \A d \in 1 .. Len(Objects) : d # fresh => object'[d] = Objects[d]
  BY <1>1, <1>2, <1>3, <1>4, Update
<1>8. /\ Refs' = 1 .. Len(Objects) /\ Refs \subseteq Refs'
      /\ \A d \in Refs : d # fresh => object'[d] = object[d]
      /\ \A d \in Refs' : d \notin Refs /\ d # fresh => object'[d] = Blank
  <2>1. /\ Len(Objects) \in Nat /\ Len(object) \in Nat /\ Len(Objects) >= Len(object)
        /\ \A c \in Refs : Objects[c] = object[c]
        /\ \A c \in 1 .. Len(Objects) : c \notin Refs => Objects[c] = Blank
    BY <1>2
  <2>2. Refs' = 1 .. Len(Objects)
    BY <1>7 DEF Refs
  <2>3. Refs \subseteq Refs'
    BY <2>1, <2>2 DEF Refs
  <2>4. ASSUME NEW d \in Refs, d # fresh PROVE object'[d] = object[d]
    <3>1. d \in 1 .. Len(Objects)
      BY <2>2, <2>3
    <3>2. object'[d] = Objects[d]
      BY <1>7, <2>4, <3>1
    <3> QED BY <2>1, <3>2
  <2>5. ASSUME NEW d \in Refs', d \notin Refs, d # fresh PROVE object'[d] = Blank
    <3>1. d \in 1 .. Len(Objects)
      BY <2>2
    <3>2. object'[d] = Objects[d]
      BY <1>7, <2>5, <3>1
    <3> QED BY <2>1, <2>5, <3>1, <3>2
  <2> QED BY <2>2, <2>3, <2>4, <2>5
<1>9. \A d \in Refs : object'[d].mu = object[d].mu
  <2>1. \A d \in Refs : d # fresh => object'[d].mu = object[d].mu
    BY <1>8
  <2>2. fresh \in Refs => object'[fresh].mu = object[fresh].mu
    <3>1. fresh \in Refs => Objects[fresh] = object[fresh]
      BY <1>2
    <3>2. object'[fresh].mu = Objects[fresh].mu
      BY <1>4, <1>7
    <3> QED
      BY <3>1, <3>2
  <2> QED
    BY <2>1, <2>2
<1> QED
  BY <1>0, <1>3, <1>4, <1>5, <1>6, <1>7, <1>8, <1>9 DEF k, fresh

LEMMA InsertStep ==
  ASSUME PoolInv, NEW a \in Assemblers, Insert(a)
  PROVE  PoolInv'
<1> DEFINE k     == call[a].seg.key
           fresh == Fresh
<1>0. TypeOK /\ k \in Keys /\ pc[a] = "insert" /\ made[a] # 0
  BY DEF PoolInv, TypeOK, Call, Segment, Insert, MadeIsNew
<1>1. /\ free' = SubSeq(Stack, 1, Len(Stack) - 1)
      /\ nextAlloc' = IF free # <<>> THEN nextAlloc ELSE 2 * nextAlloc
      /\ conns' = IF conns[k] # 0 THEN conns ELSE [conns EXCEPT ![k] = fresh]
      /\ cur' = [cur EXCEPT ![a] = conns'[k]]
      /\ made' = [made EXCEPT ![a] = 0]
      /\ pc' = [pc EXCEPT ![a] = "lock"]
      /\ UNCHANGED <<streams, used, call, todo, calls>>
  BY DEF Insert, Goto, Fresh
<1>2. /\ Len(Objects) \in Nat
      /\ Stack \in Seq(1 .. Len(Objects)) /\ Len(Stack) \in Nat \ {0}
      /\ \A i, j \in 1 .. Len(Stack) : i # j => Stack[i] # Stack[j]
      /\ \A i \in 1 .. Len(Stack) : Stack[i] \in Refs =>
           \E j \in DOMAIN free : free[j] = Stack[i]
  BY Grown
<1>3. /\ k \in Keys /\ made[a] # 0 /\ fresh \in Refs' /\ fresh # 0
      /\ object' \in Seq(Connection)
      /\ object'[fresh].key = k /\ object'[fresh].stream = made[a]
      /\ ~object'[fresh].closed
  BY InsertGives
<1>5. fresh \in Refs => /\ object[fresh].closed \/ object[fresh].stream = 0
                        /\ \A x \in Keys : conns[x] # fresh
  BY InsertGives
<1>6. fresh \in Refs => \E j \in DOMAIN free : free[j] = fresh
  BY InsertGives
<1>8. /\ Refs' = 1 .. Len(Objects) /\ Refs \subseteq Refs'
      /\ \A d \in Refs : d # fresh => object'[d] = object[d]
      /\ \A d \in Refs' : d \notin Refs /\ d # fresh => object'[d] = Blank
  BY InsertGives
<1>9. \A d \in Refs : object'[d].mu = object[d].mu
  BY InsertGives
<1> HIDE DEF fresh, k
<1>10. Blank.stream = 0
  BY DEF Blank
<1>11. /\ free' \in Seq(Refs') /\ Len(free') = Len(Stack) - 1
       /\ DOMAIN free' = 1 .. Len(Stack) - 1
       /\ \A i \in 1 .. Len(Stack) - 1 : free'[i] = Stack[i] /\ free'[i] # fresh
  <2> DEFINE n == Len(Stack) - 1
  <2>1. Stack \in Seq(1 .. Len(Objects)) /\ n \in Nat /\ Len(Stack) = n + 1
    BY <1>2
  <2> HIDE DEF n
  <2>2. /\ SubSeq(Stack, 1, n) \in Seq(1 .. Len(Objects))
        /\ DOMAIN SubSeq(Stack, 1, n) = 1 .. n
        /\ \A i \in 1 .. n : SubSeq(Stack, 1, n)[i] = Stack[i]
    BY <2>1, Popped
  <2>3. \A i \in 1 .. Len(Stack) - 1 : Stack[i] # fresh
    BY <1>2 DEF fresh, Fresh
  <2>4. free' = SubSeq(Stack, 1, n)
    BY <1>1 DEF n
  <2>5. /\ free' \in Seq(1 .. Len(Objects)) /\ DOMAIN free' = 1 .. n
        /\ \A i \in 1 .. n : free'[i] = Stack[i]
    BY <2>2, <2>4
  <2>6. Len(free') = n
    BY <2>1, <2>5
  <2> QED
    BY <2>3, <2>5, <2>6, <1>8 DEF n
<1>12. /\ conns' \in [Keys -> Refs' \cup {0}]
       /\ \A x \in Keys : conns'[x] \in {conns[x], fresh}
       /\ \A x \in Keys : conns'[x] = fresh => x = k
       /\ conns'[k] # 0
  <2>1. \A x \in Keys : conns[x] \in Refs \cup {0} /\ conns[x] # fresh
    BY <1>0, <1>3, <1>5, Pointers
  <2>2. conns \in [Keys -> Refs' \cup {0}]
    BY <1>0, <1>8 DEF TypeOK
  <2> QED
    BY <1>0, <1>1, <1>3, <1>8, <2>1, <2>2
<1>13. /\ \A b \in Assemblers : b # a => cur'[b] = cur[b] /\ pc'[b] = pc[b] /\ made'[b] = made[b]
       /\ cur'[a] = conns'[k] /\ pc'[a] = "lock" /\ made'[a] = 0
  BY <1>0, <1>1 DEF TypeOK
<1>14. TypeOK'
  <2>1. nextAlloc' \in Nat \ {0}
    BY <1>0, <1>1 DEF TypeOK
  <2>2. cur' \in [Assemblers -> Refs' \cup {0}]
    BY <1>0, <1>1, <1>8, <1>12 DEF TypeOK
  <2>3. todo' \in [Assemblers -> SUBSET Refs']
    BY <1>0, <1>1, <1>8 DEF TypeOK
  <2>4. pc' \in [Assemblers -> Labels] /\ made' \in [Assemblers -> 0 .. Len(streams')]
    BY <1>0, <1>1, Pointers DEF TypeOK, Labels
  <2>5. /\ streams' \in Seq([key : Keys, state : {"open", "complete"}])
        /\ used' \in [Assemblers -> Int] /\ call' \in [Assemblers -> Call]
        /\ calls' \in 0 .. MaxCalls
    BY <1>0, <1>1 DEF TypeOK
  <2> QED
    BY <2>1, <2>2, <2>3, <2>4, <2>5, <1>3, <1>11, <1>12 DEF TypeOK
<1>15. StreamsKnown'
  <2>1. made[a] \in 0 .. Len(streams) /\ 0 \in 0 .. Len(streams)
    BY <1>0, Pointers DEF TypeOK
  <2> QED
    BY <2>1, <1>1, <1>3, <1>8, <1>10 DEF PoolInv, StreamsKnown
<1>16. \A d \in Refs' : d # fresh => object'[d].stream # made[a]
  BY <1>0, <1>8, <1>10 DEF PoolInv, MadeIsNew
<1>17. OneConnection'
  BY <1>3, <1>8, <1>10, <1>16 DEF PoolInv, OneConnection
<1>18. OpenWhileLive'
  BY <1>0, <1>1, <1>3, <1>8, <1>10, SMTT(30) DEF PoolInv, OpenWhileLive, MadeIsNew
<1>19. FreeIsClosed'
  <2> SUFFICES ASSUME NEW i \in 1 .. Len(Stack) - 1
               PROVE  object'[free'[i]].closed \/ object'[free'[i]].stream = 0
    BY <1>11 DEF FreeIsClosed
  <2>0. i \in 1 .. Len(Stack)
    BY <1>2
  <2>1. free'[i] = Stack[i] /\ free'[i] # fresh /\ free'[i] \in Refs'
    BY <2>0, <1>2, <1>8, <1>11
  <2>2. CASE Stack[i] \in Refs
    <3>1. PICK j \in DOMAIN free : free[j] = Stack[i]
      BY <2>0, <1>2, <2>2
    <3> QED
      BY <2>1, <2>2, <3>1, <1>8 DEF PoolInv, FreeIsClosed
  <2>3. CASE Stack[i] \notin Refs
    BY <2>1, <2>3, <1>8, <1>10
  <2> QED
    BY <2>2, <2>3
<1>20. FreeOnce'
  <2>1. \A i \in 1 .. Len(Stack) - 1 : i \in 1 .. Len(Stack)
    BY <1>2
  <2> QED
    BY <2>1, <1>2, <1>11 DEF FreeOnce
<1>21. PoolMatches'
  <2> SUFFICES ASSUME NEW x \in Keys, conns'[x] # 0
               PROVE  /\ object'[conns'[x]].key = x
                      /\ \A i \in 1 .. Len(Stack) - 1 : free'[i] # conns'[x]
    BY <1>11 DEF PoolMatches
  <2>1. CASE conns'[x] = fresh
    BY <2>1, <1>3, <1>11, <1>12
  <2>2. CASE conns'[x] # fresh
    <3>1. conns'[x] = conns[x] /\ conns[x] \in Refs
      BY <2>2, <1>0, <1>12, Pointers
    <3>2. object'[conns'[x]].key = x
      BY <3>1, <2>2, <1>8, ZenonT(60) DEF PoolInv, PoolMatches
    <3>3. \A j \in DOMAIN free : free[j] # conns[x]
      BY <3>1 DEF PoolInv, PoolMatches
    <3>4. ASSUME NEW i \in 1 .. Len(Stack) - 1, free'[i] = conns[x] PROVE FALSE
      <4>1. Stack[i] = conns[x] /\ i \in 1 .. Len(Stack)
        BY <3>4, <1>2, <1>11
      <4> QED
        BY <4>1, <3>1, <3>3, <1>2
    <3> QED
      BY <3>1, <3>2, <3>4
  <2> QED
    BY <2>1, <2>2
<1>22. GivenOut'
  <2>0. object'[fresh].stream # 0
    BY <1>3
  <2>1. \A x \in Keys : conns'[x] # 0 => object'[conns'[x]].stream # 0
    BY <2>0, <1>0, <1>8, <1>12, Pointers DEF PoolInv, GivenOut
  <2>2. \A b \in Assemblers : cur'[b] # 0 => object'[cur'[b]].stream # 0
    BY <2>0, <2>1, <1>0, <1>8, <1>13, Pointers DEF PoolInv, GivenOut
  <2>3. ASSUME NEW b \in Assemblers, NEW d \in todo[b] PROVE object'[d].stream # 0
    <3>1. d \in Refs
      BY <1>0, Pointers
    <3> QED
      BY <3>1, <2>0, <1>8 DEF PoolInv, GivenOut
  <2> QED
    BY <2>1, <2>2, <2>3, <1>1 DEF GivenOut
<1>23. CurPoints'
  BY <1>12, <1>13 DEF PoolInv, CurPoints, Pointing, Holding
<1>24. MadeIsNew'
  <2> SUFFICES ASSUME NEW b \in Assemblers
               PROVE  /\ pc'[b] = "insert" => made'[b] # 0
                      /\ made'[b] # 0 =>
                           /\ streams'[made'[b]].state = "open"
                           /\ \A c \in Refs' : object'[c].stream # made'[b]
                           /\ \A c \in Assemblers : b # c => made'[b] # made'[c]
    BY DEF MadeIsNew
  <2>1. CASE b = a
    BY <2>1, <1>13
  <2>2. CASE b # a
    <3>1. made'[b] = made[b] /\ pc'[b] = pc[b]
      BY <2>2, <1>13
    <3>2. made[b] # 0 => made[b] # made[a]
      BY <2>2 DEF PoolInv, MadeIsNew
    <3>3. made[b] # 0 => \A c \in Refs' : object'[c].stream # made[b]
      BY <3>2, <1>3, <1>8, <1>10 DEF PoolInv, MadeIsNew
    <3>4. made[b] # 0 => \A c \in Assemblers : b # c => made'[b] # made'[c]
      BY <3>1, <1>13 DEF PoolInv, MadeIsNew
    <3> QED
      BY <3>1, <3>3, <3>4, <1>1 DEF PoolInv, MadeIsNew
  <2> QED
    BY <2>1, <2>2
<1>25. \A b \in Assemblers : pc'[b] \in Holding =>
         pc'[b] = pc[b] /\ cur'[b] = cur[b] /\ cur[b] \in Refs
  BY <1>0, <1>13, Pointers DEF PoolInv, CurPoints, Pointing, Holding
<1>26. MutexHeld'
  BY <1>9, <1>25 DEF PoolInv, MutexHeld
<1>27. WorkIsLive'
  <2> SUFFICES ASSUME NEW b \in Assemblers, pc'[b] \in {"work", "complete", "remove"}
               PROVE  /\ pc[b] \in {"work", "complete"} => ~object'[cur[b]].closed
                      /\ pc[b] = "remove" => /\ object'[cur[b]].closed
                                             /\ \A i \in DOMAIN free' : free'[i] # cur[b]
    BY <1>25 DEF WorkIsLive, Holding
  <2>1. pc'[b] = pc[b] /\ cur'[b] = cur[b] /\ cur[b] \in Refs /\ cur[b] # 0
    BY <1>25 DEF Holding, Refs
  <2>2. cur[b] # fresh
    <3>1. CASE pc[b] \in {"work", "complete"}
      BY <2>1, <3>1, <1>5 DEF PoolInv, WorkIsLive, GivenOut
    <3>2. CASE pc[b] = "remove"
      BY <2>1, <3>2, <1>6 DEF PoolInv, WorkIsLive
    <3> QED
      BY <2>1, <3>1, <3>2
  <2>3. object'[cur[b]] = object[cur[b]]
    BY <2>1, <2>2, <1>8
  <2>4. ASSUME pc[b] = "remove", NEW i \in 1 .. Len(Stack) - 1 PROVE free'[i] # cur[b]
    <3> SUFFICES ASSUME free'[i] = cur[b] PROVE FALSE
      OBVIOUS
    <3>0. Stack[i] = cur[b] /\ i \in 1 .. Len(Stack)
      <4>1. i \in 1 .. Len(Stack)
        BY <1>2
      <4>2. free'[i] = Stack[i]
        BY <1>11
      <4> QED
        BY <4>1, <4>2
    <3>1. PICK j \in DOMAIN free : free[j] = cur[b]
      BY <2>1, <3>0, <1>2
    <3> QED
      BY <3>1, <2>4 DEF PoolInv, WorkIsLive
  <2> QED
    BY <2>3, <2>4, <1>11 DEF PoolInv, WorkIsLive
<1> QED
  BY <1>14, <1>15, <1>17, <1>18, <1>19, <1>20, <1>21, <1>22, <1>23, <1>24, <1>26, <1>27
  DEF PoolInv

-----------------------------------------------------------------------------
\* Every step of every assembler preserves the invariant.
LEMMA NextStep == PoolInv /\ [Next]_vars => PoolInv'
<1> SUFFICES ASSUME PoolInv, [Next]_vars PROVE PoolInv'
  OBVIOUS
<1>1. ASSUME NEW a \in Assemblers, NEW s \in Segments, Assemble(a, s) PROVE PoolInv'
  BY <1>1, AssembleStep
<1>2. ASSUME NEW a \in Assemblers, NEW op \in {"older", "all"}, BeginFlush(a, op)
      PROVE  PoolInv'
  BY <1>2, BeginFlushStep
<1>3. ASSUME NEW a \in Assemblers, Step(a) PROVE PoolInv'
  BY <1>3, LookupStep, NewStep, InsertStep, RetryStep, DeliverStep, BufferStep,
     CompleteStep, RemoveStep, ReplaceStep, UnlockStep, FlushNextStep,
     FlushReturnsStep, PushStep, PushDoneStep DEF Step
<1>4. ASSUME NEW a \in Assemblers, Lock(a) \/ FlushLock(a) PROVE PoolInv'
  BY <1>4, LockStep, FlushLockStep
<1>5. CASE UNCHANGED vars
  <2>1. SameConnections
    BY <1>5 DEF vars, SameConnections
  <2>2. /\ StreamsKnown' /\ OneConnection' /\ OpenWhileLive' /\ FreeIsClosed'
        /\ PoolMatches' /\ FreeOnce'
    BY <1>5, <2>1, PoolUntouched DEF vars
  <2>3. TypeOK'
    BY <1>5 DEF PoolInv, TypeOK, vars, Refs
  <2>4. CurPoints' /\ GivenOut' /\ MadeIsNew' /\ MutexHeld' /\ WorkIsLive'
    BY <1>5 DEF PoolInv, CurPoints, GivenOut, MadeIsNew, MutexHeld, WorkIsLive, vars, Refs
  <2> QED
    BY <2>2, <2>3, <2>4 DEF PoolInv
<1> QED
  BY <1>1, <1>2, <1>3, <1>4, <1>5 DEF Next

LEMMA PoolInvariant == Spec => []PoolInv
  BY InitInv, NextStep, PTL DEF Spec

\* TypeOK, for any number of assemblers.
THEOREM PoolTypeCorrect == Spec => []TypeOK
<1>1. PoolInv => TypeOK
  BY DEF PoolInv
<1> QED
  BY <1>1, PoolInvariant, PTL

\* PoolConsistent: however the assemblers interleave, a connection in the pool
\* is its key's and is not free, and none is in the free list twice.
THEOREM PoolIsConsistent == Spec => []PoolConsistent
<1>1. PoolInv => PoolConsistent
  BY DEF PoolInv, PoolConsistent
<1> QED
  BY <1>1, PoolInvariant, PTL

\* SerialStreams: no two assemblers are working on the same stream.
THEOREM StreamsAreSerial == Spec => []SerialStreams
<1>1. PoolInv => SerialStreams
  <2> SUFFICES ASSUME PoolInv, NEW a \in Assemblers, NEW b \in Assemblers, a # b,
                      pc[a] \in {"work", "push", "complete"},
                      pc[b] \in {"work", "push", "complete"}
               PROVE  object[cur[a]].stream # object[cur[b]].stream
    BY DEF SerialStreams
  <2>1. pc[a] \in Holding /\ pc[b] \in Holding
    BY DEF Holding
  <2>2. cur[a] # cur[b]
    BY <2>1 DEF PoolInv, MutexHeld
  <2>3. cur[a] \in Refs /\ cur[b] \in Refs /\ object[cur[a]].stream # 0
    BY <2>1, Pointers DEF PoolInv, CurPoints, GivenOut, Pointing
  <2> QED
    BY <2>2, <2>3 DEF PoolInv, OneConnection
<1> QED
  BY <1>1, PoolInvariant, PTL

\* OnlyOpenStreams: no stream is touched after its ReassemblyComplete, although
\* its connection object may have been given out again.
THEOREM StreamsAreOpen == Spec => []OnlyOpenStreams
<1>1. PoolInv => OnlyOpenStreams
  <2> SUFFICES ASSUME PoolInv, NEW a \in Assemblers,
                      \/ pc[a] \in {"work", "complete"}
                      \/ (pc[a] = "push" /\ ~object[cur[a]].closed)
               PROVE  streams[object[cur[a]].stream].state = "open"
    BY DEF OnlyOpenStreams
  <2>1. pc[a] \in Holding /\ ~object[cur[a]].closed
    BY DEF PoolInv, WorkIsLive, Holding
  <2>2. cur[a] \in Refs /\ object[cur[a]].stream # 0
    BY <2>1, Pointers DEF PoolInv, CurPoints, GivenOut, Pointing
  <2> QED
    BY <2>1, <2>2 DEF PoolInv, OpenWhileLive
<1> QED
  BY <1>1, PoolInvariant, PTL

-----------------------------------------------------------------------------
(* A pool with one assembler.                                              *)

OneAssembler == \A a, b \in Assemblers : a = b

\* A connection and the stream made for it are of the same flow.
KeysAgree ==
  /\ \A c \in Refs : object[c].stream # 0 =>
       streams[object[c].stream].key = object[c].key
  /\ \A a \in Assemblers : made[a] # 0 =>
       pc[a] = "insert" /\ streams[made[a]].key = call[a].seg.key

\* An open connection is found under its key.
LiveIsPooled ==
  \A c \in Refs : object[c].stream # 0 /\ ~object[c].closed =>
    conns[object[c].key] = c

\* Nobody comes between the steps of a call.
Undisturbed ==
  \A a \in Assemblers :
    /\ pc[a] \in {"new", "insert"} => conns[call[a].seg.key] = 0
    /\ pc[a] \in {"lock", "work"} => object[cur[a]].key = call[a].seg.key
    /\ pc[a] = "remove" => conns[object[cur[a]].key] = cur[a]

\* An open stream belongs to an open connection, or is about to get one.
NoStreamLost ==
  \A i \in DOMAIN streams : streams[i].state = "open" =>
    \/ \E c \in Refs : object[c].stream = i /\ ~object[c].closed
    \/ \E a \in Assemblers : made[a] = i

\* The pages in use are those of the pooled connections, and between remove
\* and replace those of the connection just removed.
PagesCounted ==
  \A a \in Assemblers :
    /\ IsFiniteSet(PagesOf(a))
    /\ used[a] = Cardinality(PagesOf(a))
                   + (IF pc[a] = "replace" THEN Len(object[cur[a]].held) ELSE 0)

SingleInv == KeysAgree /\ LiveIsPooled /\ Undisturbed /\ NoStreamLost

LEMMA SingleInit == Init => SingleInv
<1> SUFFICES ASSUME Init PROVE SingleInv
  OBVIOUS
<1> USE DEF Init
<1>1. KeysAgree /\ LiveIsPooled
  BY DEF KeysAgree, LiveIsPooled, Refs
<1>2. Undisturbed /\ NoStreamLost
  BY DEF Undisturbed, NoStreamLost
<1> QED
  BY <1>1, <1>2 DEF SingleInv

\* A step that gives out, closes and frees no connection, of the only assembler.
LEMMA SingleFrame ==
  ASSUME PoolInv, PoolInv', SingleInv, OneAssembler, NEW a \in Assemblers, SameConnections,
         UNCHANGED <<conns, streams, made>>, pc[a] # "insert",
         pc'[a] \in {"new", "insert"} => conns[call'[a].seg.key] = 0,
         pc'[a] \in {"lock", "work"} =>
           cur'[a] \in Refs /\ object[cur'[a]].key = call'[a].seg.key,
         pc'[a] # "remove"
  PROVE  SingleInv'
<1>1. Refs' = Refs /\ \A b \in Assemblers : b = a
  BY DEF SameConnections, Refs, OneAssembler
<1>2. made[a] = 0
  BY DEF SingleInv, KeysAgree
<1>3. KeysAgree'
  BY <1>1, <1>2 DEF SingleInv, KeysAgree, SameConnections
<1>4. LiveIsPooled'
  BY <1>1 DEF SingleInv, LiveIsPooled, SameConnections
<1>5. Undisturbed'
  BY <1>1 DEF Undisturbed, SameConnections
<1>6. NoStreamLost'
  BY <1>1 DEF SingleInv, NoStreamLost, SameConnections
<1> QED
  BY <1>3, <1>4, <1>5, <1>6 DEF SingleInv

\* The steps that change a field of one connection, other than its identity.
LEMMA HeldChanges ==
  ASSUME object \in Seq(Connection), NEW c \in Refs, NEW h \in Seq(Assemblers),
         object' = [object EXCEPT ![c].held = h]
  PROVE  /\ SameConnections /\ object'[c].held = h
         /\ \A d \in Refs : d # c => object'[d] = object[d]
<1> DEFINE v == [object[c] EXCEPT !.held = h]
<1>1. object[c] \in Connection
  BY DEF Refs
<1>2. v \in Connection /\ v.key = object[c].key /\ v.stream = object[c].stream
      /\ v.closed = object[c].closed /\ v.held = h
  BY <1>1 DEF Connection
<1>3. object' = [object EXCEPT ![c] = v]
  OBVIOUS
<1> HIDE DEF v
<1> QED
  BY <1>2, <1>3, OneChanges, ZenonT(60)

LEMMA StartedChanges ==
  ASSUME object \in Seq(Connection), NEW c \in Refs, NEW h \in Seq(Assemblers),
         object' = [object EXCEPT ![c].held = h, ![c].started = TRUE]
  PROVE  /\ SameConnections /\ object'[c].held = h
         /\ \A d \in Refs : d # c => object'[d] = object[d]
<1> DEFINE v == [object[c] EXCEPT !.held = h, !.started = TRUE]
<1>1. object[c] \in Connection
  BY DEF Refs
<1>2. v \in Connection /\ v.key = object[c].key /\ v.stream = object[c].stream
      /\ v.closed = object[c].closed /\ v.held = h
  BY <1>1 DEF Connection
<1>3. object' = [object EXCEPT ![c] = v]
  BY <1>1
<1> HIDE DEF v
<1> QED
  BY <1>2, <1>3, OneChanges

LEMMA MutexChanges ==
  ASSUME object \in Seq(Connection), NEW c \in Refs, NEW m \in Assemblers \cup {NoAssembler},
         object' = [object EXCEPT ![c].mu = m]
  PROVE  /\ SameConnections
         /\ \A d \in Refs : object'[d].held = object[d].held
<1> DEFINE v == [object[c] EXCEPT !.mu = m]
<1>1. object[c] \in Connection
  BY DEF Refs
<1>2. v \in Connection /\ v.key = object[c].key /\ v.stream = object[c].stream
      /\ v.closed = object[c].closed /\ v.held = object[c].held
  BY <1>1 DEF Connection
<1>3. object' = [object EXCEPT ![c] = v]
  OBVIOUS
<1> HIDE DEF v
<1>4. /\ SameConnections /\ object'[c] = v
      /\ \A d \in Refs : d # c => object'[d] = object[d]
  BY <1>2, <1>3, OneChanges
<1>5. \A d \in Refs : object'[d].held = object[d].held
  BY <1>2, <1>4
<1> QED
  BY <1>4, <1>5

\* Where an assembler points to a connection it may work on.
LEMMA Pointed ==
  ASSUME PoolInv, NEW a \in Assemblers, pc[a] \in Pointing
  PROVE  /\ cur[a] \in Refs /\ object[cur[a]] \in Connection /\ object[cur[a]].stream # 0
         /\ object \in Seq(Connection) /\ object[cur[a]].held \in Seq(Assemblers)
         /\ Len(object[cur[a]].held) \in Nat
<1>1. TypeOK /\ cur[a] \in Refs /\ object[cur[a]].stream # 0
  BY Pointers DEF PoolInv, CurPoints, GivenOut
<1>2. object[cur[a]] \in Connection /\ object \in Seq(Connection)
  BY <1>1, Pointers DEF TypeOK
<1>3. object[cur[a]].held \in Seq(Assemblers)
  BY <1>2, Fields
<1> QED
  BY <1>1, <1>2, <1>3

\* What Deliver and Push take from the page list, and what Buffer adds.
LEMMA DeliverPages ==
  ASSUME PoolInv, NEW a \in Assemblers, Deliver(a) \/ Push(a)
  PROVE  /\ cur[a] \in Refs /\ ~object[cur[a]].closed /\ object[cur[a]].stream # 0
         /\ SameConnections
         /\ \E n \in 0 .. Len(object[cur[a]].held) :
              /\ object'[cur[a]].held
                   = SubSeq(object[cur[a]].held, n + 1, Len(object[cur[a]].held))
              /\ used' = [used EXCEPT ![a] = used[a] - n]
         /\ \A d \in Refs : d # cur[a] => object'[d] = object[d]
         /\ pc[a] \in {"work", "push"} /\ pc'[a] \in {"complete", "unlock", "push"}
         /\ UNCHANGED <<conns, streams, made>>
<1>0. TypeOK /\ pc[a] \in {"work", "push"} /\ ~object[cur[a]].closed
  BY DEF PoolInv, Deliver, Push, WorkIsLive
<1>1. /\ cur[a] \in Refs /\ object[cur[a]] \in Connection /\ object[cur[a]].stream # 0
      /\ object \in Seq(Connection) /\ object[cur[a]].held \in Seq(Assemblers)
  BY <1>0, Pointed DEF Pointing, Holding
<1> DEFINE h(n) == SubSeq(object[cur[a]].held, n + 1, Len(object[cur[a]].held))
<1>2. PICK n \in 0 .. Len(object[cur[a]].held) :
        /\ \/ object' = [object EXCEPT ![cur[a]].held = h(n)]
           \/ object' = [object EXCEPT ![cur[a]].held = h(n), ![cur[a]].started = TRUE]
        /\ used' = [used EXCEPT ![a] = used[a] - n]
        /\ \E label \in {"complete", "unlock", "push"} : Goto(a, label)
  <2>1. CASE Deliver(a)
    <3>1. PICK n \in 0 .. Len(object[cur[a]].held) :
            /\ object' = [object EXCEPT ![cur[a]].held = h(n), ![cur[a]].started = TRUE]
            /\ used' = [used EXCEPT ![a] = used[a] - n]
            /\ \/ Goto(a, IF n = 0 /\ call[a].seg.ends THEN "complete" ELSE "unlock")
               \/ n > 0 /\ Goto(a, "complete")
      BY <2>1, <1>0, <1>1 DEF Deliver, TypeOK
    <3>2. \E label \in {"complete", "unlock", "push"} : Goto(a, label)
      BY <3>1
    <3> HIDE DEF h
    <3> QED
      BY <3>1, <3>2
  <2>2. CASE Push(a)
    <3>1. PICK n \in 0 .. Len(object[cur[a]].held) :
            /\ object' = [object EXCEPT ![cur[a]].held = h(n)]
            /\ used' = [used EXCEPT ![a] = used[a] - n]
            /\ \/ Goto(a, "complete")
               \/ n > 0 /\ Goto(a, "push")
      BY <2>2, <1>0, <1>1 DEF Push, TypeOK
    <3>2. \E label \in {"complete", "unlock", "push"} : Goto(a, label)
      BY <3>1
    <3> HIDE DEF h
    <3> QED
      BY <3>1, <3>2
  <2> QED
    BY <2>1, <2>2
<1>3. h(n) \in Seq(Assemblers)
  BY <1>1, RestOfPages
<1> HIDE DEF h
<1>4. /\ SameConnections /\ object'[cur[a]].held = h(n)
      /\ \A d \in Refs : d # cur[a] => object'[d] = object[d]
  BY <1>1, <1>2, <1>3, HeldChanges, StartedChanges
<1>5. pc'[a] \in {"complete", "unlock", "push"}
  BY <1>0, <1>2 DEF Goto, TypeOK
<1>6. UNCHANGED <<conns, streams, made>>
  BY DEF Deliver, Push
<1> QED
  BY <1>0, <1>1, <1>2, <1>4, <1>5, <1>6 DEF h

LEMMA BufferPages ==
  ASSUME PoolInv, NEW a \in Assemblers, Buffer(a)
  PROVE  /\ cur[a] \in Refs /\ ~object[cur[a]].closed /\ object[cur[a]].stream # 0
         /\ SameConnections
         /\ object'[cur[a]].held = Append(object[cur[a]].held, a)
         /\ used' = [used EXCEPT ![a] = used[a] + 1]
         /\ \A d \in Refs : d # cur[a] => object'[d] = object[d]
         /\ pc[a] = "work" /\ pc'[a] = "unlock"
         /\ UNCHANGED <<conns, streams, made>>
<1>0. TypeOK /\ pc[a] = "work" /\ ~object[cur[a]].closed
  BY DEF PoolInv, Buffer, WorkIsLive
<1>1. /\ cur[a] \in Refs /\ object[cur[a]] \in Connection /\ object[cur[a]].stream # 0
      /\ object \in Seq(Connection) /\ object[cur[a]].held \in Seq(Assemblers)
  BY <1>0, Pointed DEF Pointing, Holding
<1> DEFINE h == Append(object[cur[a]].held, a)
<1>2. h \in Seq(Assemblers)
  BY <1>1
<1>3. /\ object' = [object EXCEPT ![cur[a]].held = h]
      /\ used' = [used EXCEPT ![a] = used[a] + 1]
      /\ Goto(a, "unlock") /\ UNCHANGED <<conns, streams, made>>
  BY DEF Buffer
<1> HIDE DEF h
<1>4. /\ SameConnections /\ object'[cur[a]].held = h
      /\ \A d \in Refs : d # cur[a] => object'[d] = object[d]
  BY <1>1, <1>2, <1>3, HeldChanges
<1> QED
  BY <1>0, <1>1, <1>3, <1>4 DEF h, Goto, TypeOK

\* The steps that only look, wait, lock or move pages.
LEMMA SingleQuiet ==
  ASSUME PoolInv, PoolInv', SingleInv, OneAssembler, NEW a \in Assemblers,
         \/ \E s \in Segments : Assemble(a, s)
         \/ \E op \in {"older", "all"} : BeginFlush(a, op)
         \/ Lookup(a) \/ Retry(a) \/ Replace(a) \/ FlushNext(a) \/ FlushReturns(a)
         \/ PushDone(a)
  PROVE  /\ SingleInv' /\ object' = object /\ conns' = conns
         /\ pc'[a] # "remove" /\ pc[a] # "insert"
<1>0. TypeOK /\ TypeOK'
  BY DEF PoolInv
<1>1. /\ UNCHANGED <<conns, object, streams, made>> /\ pc[a] # "insert"
      /\ pc'[a] \notin {"insert", "work", "remove"}
      /\ ~Lookup(a) => pc'[a] \notin {"new", "lock"}
  BY <1>0, SMTT(30) DEF Assemble, BeginFlush, Lookup, Retry, Replace, FlushNext, FlushReturns,
       PushDone, Goto, Return, TypeOK
<1>2. ASSUME Lookup(a)
      PROVE  /\ pc'[a] = "new" => conns[call'[a].seg.key] = 0
             /\ pc'[a] = "lock" => cur'[a] \in Refs /\ object[cur'[a]].key = call'[a].seg.key
  <2>1. call[a].seg.key \in Keys
    BY <1>0 DEF TypeOK, Call, Segment
  <2>2. conns[call[a].seg.key] \in Refs \cup {0}
    BY <1>0, <2>1, Pointers
  <2>3. pc'[a] \in {"new", "lock"} =>
          /\ call' = call /\ cur'[a] = conns[call[a].seg.key]
          /\ pc'[a] = "lock" <=> conns[call[a].seg.key] # 0
    BY <1>0, <1>2 DEF Lookup, Goto, Return, TypeOK
  <2> QED
    BY <2>1, <2>2, <2>3 DEF PoolInv, PoolMatches
<1> QED
  BY <1>1, <1>2, SameObjects, SingleFrame

LEMMA SingleLocks ==
  ASSUME PoolInv, PoolInv', SingleInv, OneAssembler, NEW a \in Assemblers,
         Lock(a) \/ FlushLock(a) \/ Unlock(a)
  PROVE  /\ SingleInv' /\ SameConnections /\ conns' = conns
         /\ \A d \in Refs : object'[d].held = object[d].held
<1>0. TypeOK /\ a \in Assemblers \cup {NoAssembler} /\ NoAssembler \in Assemblers \cup {NoAssembler}
  BY DEF PoolInv
<1>1. pc[a] \in Pointing
  BY DEF Lock, FlushLock, Unlock, Pointing, Holding
<1>2. cur[a] \in Refs /\ object \in Seq(Connection)
  BY <1>1, Pointed
<1>3. \/ object' = [object EXCEPT ![cur[a]].mu = a]
      \/ object' = [object EXCEPT ![cur[a]].mu = NoAssembler]
  BY DEF Lock, FlushLock, Unlock, Acquire
<1>4. SameConnections /\ \A d \in Refs : object'[d].held = object[d].held
  BY <1>0, <1>2, <1>3, MutexChanges
<1>5. /\ UNCHANGED <<conns, streams, made>> /\ pc[a] # "insert"
      /\ pc'[a] \in {"work", "push", "idle", "flush"}
      /\ pc'[a] = "work" => Lock(a) /\ cur'[a] = cur[a] /\ call' = call /\ pc[a] = "lock"
  BY <1>0 DEF Lock, FlushLock, Unlock, Goto, Return, TypeOK
<1>6. pc[a] = "lock" => object[cur[a]].key = call[a].seg.key
  BY DEF SingleInv, Undisturbed
<1> QED
  BY <1>2, <1>4, <1>5, <1>6, SingleFrame

LEMMA SinglePages ==
  ASSUME PoolInv, PoolInv', SingleInv, OneAssembler, NEW a \in Assemblers,
         Deliver(a) \/ Push(a) \/ Buffer(a)
  PROVE  SingleInv'
<1>1. /\ SameConnections /\ UNCHANGED <<conns, streams, made>>
      /\ pc[a] # "insert" /\ pc'[a] \in {"complete", "unlock", "push"}
  BY DeliverPages, BufferPages
<1> QED
  BY <1>1, SingleFrame

LEMMA SingleNew ==
  ASSUME PoolInv, SingleInv, OneAssembler, NEW a \in Assemblers, New(a)
  PROVE  SingleInv'
<1> DEFINE fresh == [key |-> call[a].seg.key, state |-> "open"]
<1>0. TypeOK /\ Refs' = Refs /\ pc[a] = "new" /\ \A b \in Assemblers : b = a
  BY DEF PoolInv, New, Refs, OneAssembler
<1>1. streams' = Append(streams, fresh) /\ fresh.key = call[a].seg.key /\ made' = [made EXCEPT ![a] = Len(streams) + 1]
      /\ UNCHANGED <<object, conns, call, cur>>
  BY DEF New
<1> HIDE DEF fresh
<1>2. /\ Len(streams) \in Nat /\ Len(streams') = Len(streams) + 1
      /\ streams'[Len(streams) + 1] = fresh
      /\ \A i \in 1 .. Len(streams) : streams'[i] = streams[i]
      /\ DOMAIN streams' = 1 .. Len(streams) + 1 /\ DOMAIN streams = 1 .. Len(streams)
  BY <1>0, <1>1 DEF TypeOK
<1>3. made'[a] = Len(streams) + 1 /\ pc'[a] = "insert"
  BY <1>0, <1>1 DEF TypeOK, New, Goto
<1>4. made[a] = 0
  BY <1>0 DEF SingleInv, KeysAgree
<1>5. \A c \in Refs : object[c].stream # 0 => object[c].stream \in 1 .. Len(streams)
  BY <1>0, Pointers DEF PoolInv, StreamsKnown
<1>6. KeysAgree'
  BY <1>0, <1>1, <1>2, <1>3, <1>5 DEF SingleInv, KeysAgree
<1>7. LiveIsPooled'
  BY <1>0, <1>1 DEF SingleInv, LiveIsPooled
<1>8. Undisturbed'
  BY <1>0, <1>1, <1>3 DEF SingleInv, Undisturbed
<1>9. NoStreamLost'
  <2> SUFFICES ASSUME NEW i \in 1 .. Len(streams) + 1, streams'[i].state = "open"
               PROVE  \/ \E c \in Refs : object[c].stream = i /\ ~object[c].closed
                      \/ \E b \in Assemblers : made'[b] = i
    BY <1>0, <1>1, <1>2 DEF NoStreamLost
  <2>1. CASE i = Len(streams) + 1
    BY <2>1, <1>3
  <2>2. CASE i # Len(streams) + 1
    <3>1. i \in 1 .. Len(streams) /\ streams[i].state = "open"
      BY <2>2, <1>2
    <3>2. \A b \in Assemblers : made[b] # i
      BY <3>1, <1>0, <1>4
    <3> QED
      BY <3>1, <3>2, <1>2 DEF SingleInv, NoStreamLost
  <2> QED
    BY <2>1, <2>2
<1> QED
  BY <1>6, <1>7, <1>8, <1>9 DEF SingleInv

LEMMA SingleInsert ==
  ASSUME PoolInv, SingleInv, OneAssembler, NEW a \in Assemblers, Insert(a)
  PROVE  SingleInv' /\ conns[call[a].seg.key] = 0
<1> DEFINE k     == call[a].seg.key
           fresh == Fresh
<1>0. TypeOK /\ pc[a] = "insert" /\ conns[k] = 0 /\ \A b \in Assemblers : b = a
  BY DEF PoolInv, Insert, SingleInv, Undisturbed, OneAssembler
<1>1. /\ k \in Keys /\ made[a] # 0 /\ fresh \in Refs' /\ fresh # 0
      /\ Refs \subseteq Refs'
      /\ object'[fresh].key = k /\ object'[fresh].stream = made[a]
      /\ ~object'[fresh].closed
      /\ \A d \in Refs : d # fresh => object'[d] = object[d]
      /\ \A d \in Refs' : d \notin Refs /\ d # fresh => object'[d] = Blank
      /\ fresh \in Refs => object[fresh].closed \/ object[fresh].stream = 0
  BY InsertGives
<1>2. Blank.stream = 0
  BY DEF Blank
<1>3. conns' = [conns EXCEPT ![k] = fresh] /\ conns'[k] = fresh
      /\ \A x \in Keys : x # k => conns'[x] = conns[x]
  BY <1>0, <1>1 DEF Insert, Fresh, TypeOK
<1>4. cur'[a] = fresh /\ pc'[a] = "lock" /\ made'[a] = 0 /\ call' = call /\ streams' = streams
  <2> HIDE DEF fresh
  <2>1. cur' = [cur EXCEPT ![a] = conns'[k]] /\ pc' = [pc EXCEPT ![a] = "lock"]
        /\ made' = [made EXCEPT ![a] = 0] /\ call' = call /\ streams' = streams
    BY DEF Insert, Goto
  <2> QED
    BY <2>1, <1>0, <1>3 DEF TypeOK
<1> HIDE DEF fresh, k
<1>5. KeysAgree'
  <2>1. streams[made[a]].key = k
    BY <1>1 DEF SingleInv, KeysAgree, k
  <2> QED
    BY <2>1, <1>0, <1>1, <1>2, <1>4 DEF SingleInv, KeysAgree
<1>6. LiveIsPooled'
  <2> SUFFICES ASSUME NEW c \in Refs', object'[c].stream # 0, ~object'[c].closed
               PROVE  conns'[object'[c].key] = c
    BY DEF LiveIsPooled
  <2>1. CASE c = fresh
    BY <2>1, <1>1, <1>3
  <2>2. CASE c # fresh
    <3>1. c \in Refs /\ object'[c] = object[c] /\ c # 0
      BY <2>2, <1>1, <1>2 DEF Refs
    <3>2. conns[object[c].key] = c
      BY <3>1 DEF SingleInv, LiveIsPooled
    <3>3. object[c].key \in Keys /\ object[c].key # k
      BY <3>1, <3>2, <1>0, Pointers, Fields
    <3> QED
      BY <3>1, <3>2, <3>3, <1>3
  <2> QED
    BY <2>1, <2>2
<1>7. Undisturbed'
  BY <1>0, <1>1, <1>4 DEF Undisturbed, k
<1>8. NoStreamLost'
  <2> SUFFICES ASSUME NEW i \in DOMAIN streams, streams[i].state = "open"
               PROVE  \E c \in Refs' : object'[c].stream = i /\ ~object'[c].closed
    BY <1>4 DEF NoStreamLost
  <2>1. CASE made[a] = i
    BY <2>1, <1>1
  <2>2. CASE made[a] # i
    <3>1. PICK c \in Refs : object[c].stream = i /\ ~object[c].closed
      BY <2>2, <1>0 DEF SingleInv, NoStreamLost
    <3>2. i # 0
      BY <1>0 DEF TypeOK
    <3>3. c # fresh
      BY <3>1, <3>2, <1>1
    <3> QED
      BY <3>1, <3>3, <1>1
  <2> QED
    BY <2>1, <2>2
<1> QED
  BY <1>0, <1>5, <1>6, <1>7, <1>8 DEF SingleInv, k

\* closeConnection marks the connection, and what that leaves of it.
LEMMA CompleteGives ==
  ASSUME PoolInv, NEW a \in Assemblers, Complete(a)
  PROVE  /\ cur[a] \in Refs /\ Refs' = Refs /\ ~object[cur[a]].closed
         /\ object[cur[a]].stream \in 1 .. Len(streams)
         /\ streams \in Seq(StreamRec) /\ streams' \in Seq(StreamRec)
         /\ Len(streams') = Len(streams)
         /\ object'[cur[a]].closed
         /\ streams'[object[cur[a]].stream].state = "complete"
         /\ \A i \in 1 .. Len(streams) : streams'[i].key = streams[i].key
         /\ \A i \in 1 .. Len(streams) :
              i # object[cur[a]].stream => streams'[i] = streams[i]
         /\ \A d \in Refs : /\ object'[d].key = object[d].key
                            /\ object'[d].stream = object[d].stream
                            /\ object'[d].held = object[d].held
                            /\ d # cur[a] => object'[d].closed = object[d].closed
<1> DEFINE c == cur[a]
           v == [object[c] EXCEPT !.closed = TRUE]
           s == object[c].stream
           w == [streams[s] EXCEPT !.state = "complete"]
<1>0. TypeOK /\ c \in Refs /\ ~object[c].closed /\ s # 0 /\ object[c] \in Connection
  BY Pointed DEF PoolInv, WorkIsLive, Complete, Pointing, Holding
<1>1. s \in 1 .. Len(streams) /\ object \in Seq(Connection) /\ streams \in Seq(StreamRec)
  BY <1>0, Pointers DEF PoolInv, StreamsKnown, TypeOK, StreamRec
<1>2. v \in Connection /\ v.key = object[c].key /\ v.stream = s /\ v.closed
      /\ v.held = object[c].held
  BY <1>0 DEF Connection
<1>3. object' = [object EXCEPT ![c] = v] /\ streams' = [streams EXCEPT ![s] = w]
  BY DEF Complete
<1>4. w \in StreamRec /\ w.key = streams[s].key /\ w.state = "complete"
  <2> HIDE DEF s
  <2>1. streams[s] \in StreamRec
    BY <1>1
  <2> QED
    BY <2>1 DEF StreamRec
<1> HIDE DEF v, w, s, c
<1>5. /\ object' \in Seq(Connection) /\ Len(object') = Len(object) /\ object'[c] = v
      /\ \A d \in Refs : d # c => object'[d] = object[d]
  BY <1>0, <1>1, <1>2, <1>3, Update DEF Refs
<1>6. /\ streams' \in Seq(StreamRec) /\ Len(streams') = Len(streams) /\ streams'[s] = w
      /\ \A i \in 1 .. Len(streams) : i # s => streams'[i] = streams[i]
  BY <1>1, <1>3, <1>4, Update
<1>7. Refs' = Refs
  BY <1>5 DEF Refs
<1>8. \A d \in Refs : /\ object'[d].key = object[d].key
                      /\ object'[d].stream = object[d].stream
                      /\ object'[d].held = object[d].held
                      /\ d # c => object'[d].closed = object[d].closed
  BY <1>2, <1>5 DEF s
<1>9. \A i \in 1 .. Len(streams) : streams'[i].key = streams[i].key
  BY <1>4, <1>6
<1> QED
  BY <1>0, <1>1, <1>2, <1>4, <1>5, <1>6, <1>7, <1>8, <1>9 DEF c, s

LEMMA SingleComplete ==
  ASSUME PoolInv, SingleInv, OneAssembler, NEW a \in Assemblers, Complete(a)
  PROVE  SingleInv'
<1> DEFINE c == cur[a]
           s == object[c].stream
<1>0. TypeOK /\ pc[a] = "complete" /\ \A b \in Assemblers : b = a
  BY DEF PoolInv, Complete, OneAssembler
<1>1. /\ c \in Refs /\ Refs' = Refs /\ ~object[c].closed
      /\ s \in 1 .. Len(streams)
      /\ streams \in Seq(StreamRec) /\ streams' \in Seq(StreamRec)
      /\ Len(streams') = Len(streams)
      /\ object'[c].closed
      /\ streams'[s].state = "complete"
      /\ \A i \in 1 .. Len(streams) : streams'[i].key = streams[i].key
      /\ \A i \in 1 .. Len(streams) : i # s => streams'[i] = streams[i]
      /\ \A d \in Refs : /\ object'[d].key = object[d].key
                         /\ object'[d].stream = object[d].stream
                         /\ d # c => object'[d].closed = object[d].closed
  BY CompleteGives
<1>2. /\ pc'[a] = "remove" /\ UNCHANGED <<conns, call, cur, made>>
  BY <1>0 DEF Complete, Goto, TypeOK
<1>3. made[a] = 0
  BY <1>0 DEF SingleInv, KeysAgree
<1>4. \A d \in Refs : object[d].stream # 0 => object[d].stream \in 1 .. Len(streams)
  BY <1>0, Pointers DEF PoolInv, StreamsKnown
<1>5. KeysAgree'
  BY <1>0, <1>1, <1>2, <1>3, <1>4 DEF SingleInv, KeysAgree
<1>6. LiveIsPooled'
  BY <1>1, <1>2 DEF SingleInv, LiveIsPooled
<1>7. conns[object[c].key] = c
  BY <1>1 DEF SingleInv, LiveIsPooled
<1>8. Undisturbed'
  BY <1>0, <1>1, <1>2, <1>7 DEF Undisturbed
<1>9. NoStreamLost'
  <2> SUFFICES ASSUME NEW i \in 1 .. Len(streams), streams'[i].state = "open"
               PROVE  \E d \in Refs : object'[d].stream = i /\ ~object'[d].closed
    BY <1>1 DEF NoStreamLost
  <2>1. i # s /\ streams[i].state = "open" /\ i # 0
    BY <1>1
  <2>2. PICK d \in Refs : object[d].stream = i /\ ~object[d].closed
    BY <2>1, <1>0, <1>1, <1>3 DEF SingleInv, NoStreamLost
  <2> QED
    BY <2>1, <2>2, <1>1
<1> QED
  BY <1>5, <1>6, <1>8, <1>9 DEF SingleInv

LEMMA SingleRemove ==
  ASSUME PoolInv, SingleInv, OneAssembler, NEW a \in Assemblers, Remove(a)
  PROVE  SingleInv'
<1>0. TypeOK /\ pc[a] = "remove" /\ \A b \in Assemblers : b = a
  BY DEF PoolInv, Remove, OneAssembler
<1>1. cur[a] \in Refs /\ object[cur[a]].closed /\ conns[object[cur[a]].key] = cur[a]
  BY <1>0, Pointed DEF PoolInv, WorkIsLive, SingleInv, Undisturbed, Pointing, Holding
<1>2. /\ pc'[a] = "replace" /\ Refs' = Refs /\ UNCHANGED <<object, streams, call, cur, made>>
      /\ conns' = [conns EXCEPT ![object[cur[a]].key] = 0]
  BY <1>0 DEF Remove, Goto, TypeOK, Refs
<1>3. made[a] = 0
  BY <1>0 DEF SingleInv, KeysAgree
<1>4. KeysAgree' /\ Undisturbed' /\ NoStreamLost'
  BY <1>0, <1>2, <1>3 DEF SingleInv, KeysAgree, Undisturbed, NoStreamLost
<1>5. LiveIsPooled'
  <2> SUFFICES ASSUME NEW c \in Refs, object[c].stream # 0, ~object[c].closed
               PROVE  conns'[object[c].key] = c
    BY <1>2 DEF LiveIsPooled
  <2>1. conns[object[c].key] = c /\ object[c].key \in Keys
    BY <1>0, Pointers, Fields DEF SingleInv, LiveIsPooled
  <2>2. object[c].key # object[cur[a]].key
    BY <2>1, <1>1
  <2> QED
    BY <2>1, <2>2, <1>0, <1>2 DEF TypeOK
<1> QED
  BY <1>4, <1>5 DEF SingleInv

-----------------------------------------------------------------------------
(* Counting pages.                                                         *)

\* The pages of a in the connections of pool, of the objects o.
PagesIn(o, pool, a) ==
  UNION {{c} \X {i \in DOMAIN o[c].held : o[c].held[i] = a} : c \in pool}

\* The pages of the connections count separately.
LEMMA PagesSplit ==
  ASSUME NEW o, NEW pool, NEW a, NEW c \in pool, NEW n \in Nat,
         {i \in DOMAIN o[c].held : o[c].held[i] = a} = 1 .. n,
         IsFiniteSet(PagesIn(o, pool \ {c}, a))
  PROVE  /\ IsFiniteSet(PagesIn(o, pool, a))
         /\ Cardinality(PagesIn(o, pool, a)) = Cardinality(PagesIn(o, pool \ {c}, a)) + n
<1> DEFINE mine == {c} \X (1 .. n)
           rest == PagesIn(o, pool \ {c}, a)
<1>1. PagesIn(o, pool, a) = rest \cup mine
  <2>1. PagesIn(o, pool, a) = rest \cup ({c} \X {i \in DOMAIN o[c].held : o[c].held[i] = a})
    BY DEF PagesIn
  <2> QED
    BY <2>1
<1>2. rest \cap mine = {}
  BY DEF PagesIn
<1>3. IsFiniteSet(1 .. n) /\ Cardinality(1 .. n) = n
  BY FS_Interval
<1>4. [i \in 1 .. n |-> <<c, i>>] \in Bijection(1 .. n, mine)
  <2> DEFINE f == [i \in 1 .. n |-> <<c, i>>]
  <2>1. f \in [1 .. n -> mine]
    OBVIOUS
  <2>2. ASSUME NEW i \in 1 .. n, NEW j \in 1 .. n, f[i] = f[j] PROVE i = j
    BY <2>2
  <2>3. ASSUME NEW p \in mine PROVE \E i \in 1 .. n : f[i] = p
    BY <2>3
  <2> HIDE DEF f
  <2>4. f \in Injection(1 .. n, mine)
    BY <2>1, <2>2 DEF Injection, IsInjective
  <2>5. f \in Surjection(1 .. n, mine)
    BY <2>1, <2>3 DEF Surjection
  <2> QED
    BY <2>4, <2>5 DEF Bijection, f
<1>5. IsFiniteSet(mine) /\ Cardinality(mine) = n
  BY <1>3, <1>4, FS_Bijection DEF ExistsBijection
<1> HIDE DEF mine, rest
<1>6. IsFiniteSet(rest)
  BY DEF rest
<1>7. /\ IsFiniteSet(rest \cup mine)
      /\ Cardinality(rest \cup mine) = Cardinality(rest) + Cardinality(mine) - Cardinality({})
  BY <1>2, <1>5, <1>6, FS_Union
<1>8. Cardinality({}) = 0 /\ Cardinality(rest) \in Nat
  BY <1>6, FS_EmptySet, FS_CardinalityType
<1> QED
  BY <1>1, <1>5, <1>7, <1>8 DEF rest

\* A part of a finite set of pages is finite.
LEMMA PagesSub ==
  ASSUME NEW o, NEW pool, NEW a, NEW c, IsFiniteSet(PagesIn(o, pool, a))
  PROVE  IsFiniteSet(PagesIn(o, pool \ {c}, a))
<1>1. PagesIn(o, pool \ {c}, a) \in SUBSET PagesIn(o, pool, a)
  BY DEF PagesIn
<1> QED
  BY <1>1, FS_Subset

\* Only the page lists of the pooled connections count.
LEMMA PagesSame ==
  ASSUME NEW o, NEW u, NEW pool, NEW a, \A c \in pool : u[c].held = o[c].held
  PROVE  PagesIn(u, pool, a) = PagesIn(o, pool, a)
  BY DEF PagesIn

\* With one assembler every page of a list is its own.
LEMMA OwnPages ==
  ASSUME OneAssembler, NEW a \in Assemblers, NEW h \in Seq(Assemblers)
  PROVE  {i \in DOMAIN h : h[i] = a} = 1 .. Len(h)
  BY DEF OneAssembler

LEMMA CountInit == Init => PagesCounted
<1> SUFFICES ASSUME Init PROVE PagesCounted
  OBVIOUS
<1> USE DEF Init
<1>1. Pooled = {}
  BY DEF Pooled
<1>2. ASSUME NEW a \in Assemblers PROVE PagesOf(a) = {}
  BY <1>1 DEF PagesOf
<1> QED
  BY <1>2, FS_EmptySet DEF PagesCounted

\* Outside closeConnection the pages in use are those of the pool.
LEMMA CountedNow ==
  ASSUME PagesCounted, NEW a \in Assemblers, pc[a] # "replace"
  PROVE  /\ IsFiniteSet(PagesIn(object, Pooled, a))
         /\ used[a] = Cardinality(PagesIn(object, Pooled, a))
<1>1. PagesOf(a) = PagesIn(object, Pooled, a)
  BY DEF PagesOf, PagesIn
<1>2. /\ IsFiniteSet(PagesOf(a))
      /\ used[a] = Cardinality(PagesOf(a)) + 0
  BY DEF PagesCounted
<1>3. Cardinality(PagesOf(a)) \in Nat
  BY <1>2, FS_CardinalityType
<1> QED
  BY <1>1, <1>2, <1>3

LEMMA CountedNext ==
  ASSUME OneAssembler, NEW a \in Assemblers, pc'[a] # "replace",
         IsFiniteSet(PagesIn(object', Pooled', a)),
         used'[a] = Cardinality(PagesIn(object', Pooled', a))
  PROVE  PagesCounted'
<1>1. PagesOf(a)' = PagesIn(object', Pooled', a)
  BY DEF PagesOf, PagesIn
<1>2. Cardinality(PagesIn(object', Pooled', a)) \in Nat
  BY FS_CardinalityType
<1>3. used'[a] = Cardinality(PagesIn(object', Pooled', a)) + 0
  BY <1>2
<1>4. \A b \in Assemblers : b = a
  BY DEF OneAssembler
<1> QED
  BY <1>1, <1>3, <1>4 DEF PagesCounted

\* A step that changes no page list of a pooled connection.
LEMMA CountFrame ==
  ASSUME PagesCounted, OneAssembler, NEW a \in Assemblers,
         \A d \in Pooled : object'[d].held = object[d].held,
         UNCHANGED <<conns, used>>, pc[a] # "replace", pc'[a] # "replace"
  PROVE  PagesCounted'
<1>1. Pooled' = Pooled
  BY DEF Pooled
<1>2. PagesIn(object', Pooled, a) = PagesIn(object, Pooled, a)
  BY PagesSame
<1>3. PagesOf(a)' = PagesOf(a)
  BY <1>1, <1>2 DEF PagesOf, PagesIn
<1>4. \A b \in Assemblers : b = a
  BY DEF OneAssembler
<1> QED
  BY <1>3, <1>4 DEF PagesCounted

\* A step that changes the page list of one pooled connection.
LEMMA CountOne ==
  ASSUME PoolInv, PagesCounted, OneAssembler, NEW a \in Assemblers, NEW c \in Pooled,
         NEW h \in Seq(Assemblers), object'[c].held = h,
         \A d \in Refs : d # c => object'[d] = object[d],
         used' = [used EXCEPT ![a] = used[a] - Len(object[c].held) + Len(h)],
         UNCHANGED conns, pc[a] # "replace", pc'[a] # "replace"
  PROVE  PagesCounted'
<1>0. TypeOK /\ Pooled \subseteq Refs /\ Pooled' = Pooled
  BY Pointers DEF PoolInv, Pooled
<1>1. object[c].held \in Seq(Assemblers)
  BY <1>0, Pointers, Fields
<1> DEFINE rest == PagesIn(object, Pooled \ {c}, a)
           n == Len(object[c].held)
           m == Len(h)
<1>2. /\ IsFiniteSet(PagesIn(object, Pooled, a))
      /\ used[a] = Cardinality(PagesIn(object, Pooled, a))
  BY CountedNow
<1>3. IsFiniteSet(rest)
  BY <1>2, PagesSub
<1>4. n \in Nat /\ m \in Nat
  BY <1>1
<1>5. /\ {i \in DOMAIN object[c].held : object[c].held[i] = a} = 1 .. n
      /\ {i \in DOMAIN object'[c].held : object'[c].held[i] = a} = 1 .. m
  BY <1>1, OwnPages
<1>6. PagesIn(object', Pooled \ {c}, a) = rest
  <2>1. \A d \in Pooled \ {c} : object'[d].held = object[d].held
    BY <1>0
  <2> QED
    BY <2>1, PagesSame
<1>7. Cardinality(PagesIn(object, Pooled, a)) = Cardinality(rest) + n
  BY <1>3, <1>4, <1>5, PagesSplit
<1>8. /\ IsFiniteSet(PagesIn(object', Pooled, a))
      /\ Cardinality(PagesIn(object', Pooled, a)) = Cardinality(rest) + m
  <2> HIDE DEF rest, m, n
  <2>1. IsFiniteSet(PagesIn(object', Pooled \ {c}, a))
    BY <1>3, <1>6
  <2> QED
    BY <2>1, <1>4, <1>5, <1>6, PagesSplit
<1>9. Cardinality(rest) \in Nat
  BY <1>3, FS_CardinalityType
<1>10. used'[a] = used[a] - n + m
  BY <1>0 DEF TypeOK
<1> HIDE DEF rest, n, m
<1>11. used'[a] = Cardinality(PagesIn(object', Pooled, a))
  BY <1>2, <1>4, <1>7, <1>8, <1>9, <1>10
<1> QED
  BY <1>0, <1>8, <1>11, CountedNext

\* The connection that is worked on is in the pool.
LEMMA WorkPooled ==
  ASSUME PoolInv, SingleInv, NEW c \in Refs, object[c].stream # 0, ~object[c].closed
  PROVE  c \in Pooled
<1>1. conns[object[c].key] = c /\ object[c].key \in Keys /\ c # 0
  BY Pointers, Fields DEF PoolInv, SingleInv, LiveIsPooled, Refs
<1> QED
  BY <1>1 DEF Pooled

LEMMA CountDeliver ==
  ASSUME PoolInv, SingleInv, PagesCounted, OneAssembler, NEW a \in Assemblers,
         Deliver(a) \/ Push(a)
  PROVE  PagesCounted'
<1>1. /\ cur[a] \in Refs /\ ~object[cur[a]].closed /\ object[cur[a]].stream # 0
      /\ \A d \in Refs : d # cur[a] => object'[d] = object[d]
      /\ pc[a] \in {"work", "push"} /\ pc'[a] \in {"complete", "unlock", "push"}
      /\ conns' = conns
  BY DeliverPages
<1>2. PICK n \in 0 .. Len(object[cur[a]].held) :
        /\ object'[cur[a]].held
             = SubSeq(object[cur[a]].held, n + 1, Len(object[cur[a]].held))
        /\ used' = [used EXCEPT ![a] = used[a] - n]
  BY DeliverPages
<1>3. cur[a] \in Pooled
  BY <1>1, WorkPooled
<1>4. object[cur[a]].held \in Seq(Assemblers) /\ used[a] \in Int
  BY <1>1, Pointers, Fields DEF PoolInv, TypeOK
<1> DEFINE h == object'[cur[a]].held
<1>5. h \in Seq(Assemblers) /\ Len(h) = Len(object[cur[a]].held) - n
  BY <1>2, <1>4
<1>6. used[a] - Len(object[cur[a]].held) + Len(h) = used[a] - n
  <2>1. Len(object[cur[a]].held) \in Nat
    BY <1>4
  <2> HIDE DEF h
  <2> QED
    BY <2>1, <1>4, <1>5
<1>7. used' = [used EXCEPT ![a] = used[a] - Len(object[cur[a]].held) + Len(h)]
  <2> HIDE DEF h
  <2> QED
    BY <1>2, <1>6
<1> QED
  BY <1>1, <1>3, <1>5, <1>7, CountOne

LEMMA CountBuffer ==
  ASSUME PoolInv, SingleInv, PagesCounted, OneAssembler, NEW a \in Assemblers, Buffer(a)
  PROVE  PagesCounted'
<1>1. /\ cur[a] \in Refs /\ ~object[cur[a]].closed /\ object[cur[a]].stream # 0
      /\ object'[cur[a]].held = Append(object[cur[a]].held, a)
      /\ used' = [used EXCEPT ![a] = used[a] + 1]
      /\ \A d \in Refs : d # cur[a] => object'[d] = object[d]
      /\ pc[a] = "work" /\ pc'[a] = "unlock" /\ conns' = conns
  BY BufferPages
<1>3. cur[a] \in Pooled
  BY <1>1, WorkPooled
<1>4. object[cur[a]].held \in Seq(Assemblers) /\ used[a] \in Int
  BY <1>1, Pointers, Fields DEF PoolInv, TypeOK
<1> DEFINE h == object'[cur[a]].held
<1>5. h \in Seq(Assemblers) /\ Len(h) = Len(object[cur[a]].held) + 1
      /\ Len(object[cur[a]].held) \in Nat
  BY <1>1, <1>4
<1>6. used[a] - Len(object[cur[a]].held) + Len(h) = used[a] + 1
  <2> HIDE DEF h
  <2> QED
    BY <1>4, <1>5
<1>7. used' = [used EXCEPT ![a] = used[a] - Len(object[cur[a]].held) + Len(h)]
  <2> HIDE DEF h
  <2> QED
    BY <1>1, <1>6
<1> QED
  BY <1>1, <1>3, <1>5, <1>7, CountOne

LEMMA CountRemove ==
  ASSUME PoolInv, SingleInv, PagesCounted, OneAssembler, NEW a \in Assemblers, Remove(a)
  PROVE  PagesCounted'
<1> DEFINE c == cur[a]
<1>0. TypeOK /\ pc[a] = "remove" /\ \A b \in Assemblers : b = a
  BY DEF PoolInv, Remove, OneAssembler
<1>1. c \in Refs /\ conns[object[c].key] = c /\ object[c].key \in Keys
      /\ object[c].held \in Seq(Assemblers) /\ c # 0
  BY <1>0, Pointed, Pointers, Fields
  DEF PoolInv, SingleInv, Undisturbed, Pointing, Holding, Refs
<1>2. /\ pc'[a] = "replace" /\ UNCHANGED <<object, used, cur>>
      /\ conns' = [conns EXCEPT ![object[c].key] = 0]
  BY <1>0 DEF Remove, Goto, TypeOK
<1>3. c \in Pooled /\ Pooled' = Pooled \ {c}
  <2>1. \A k \in Keys : k # object[c].key => conns[k] # c
    BY <1>1 DEF PoolInv, PoolMatches
  <2>2. \A k \in Keys : conns'[k] = IF k = object[c].key THEN 0 ELSE conns[k]
    BY <1>0, <1>1, <1>2 DEF TypeOK
  <2> QED
    BY <2>1, <2>2, <1>1 DEF Pooled
<1> HIDE DEF c
<1>4. /\ IsFiniteSet(PagesIn(object, Pooled, a))
      /\ used[a] = Cardinality(PagesIn(object, Pooled, a))
  BY <1>0, CountedNow
<1>5. IsFiniteSet(PagesIn(object, Pooled \ {c}, a))
  BY <1>4, PagesSub
<1>6. Len(object[c].held) \in Nat
      /\ {i \in DOMAIN object[c].held : object[c].held[i] = a} = 1 .. Len(object[c].held)
  BY <1>1, OwnPages
<1>7. used[a] = Cardinality(PagesIn(object, Pooled \ {c}, a)) + Len(object[c].held)
  BY <1>3, <1>4, <1>5, <1>6, PagesSplit
<1>8. PagesOf(a)' = PagesIn(object, Pooled \ {c}, a)
  BY <1>2, <1>3 DEF PagesOf, PagesIn
<1> QED
  BY <1>0, <1>2, <1>5, <1>7, <1>8 DEF PagesCounted, c

LEMMA CountReplace ==
  ASSUME PoolInv, PagesCounted, OneAssembler, NEW a \in Assemblers, Replace(a)
  PROVE  PagesCounted'
<1>0. TypeOK /\ pc[a] = "replace" /\ \A b \in Assemblers : b = a
  BY DEF PoolInv, Replace, OneAssembler
<1>1. Len(object[cur[a]].held) \in Nat /\ used[a] \in Int
  BY <1>0, Pointed DEF PoolInv, TypeOK, Pointing, Holding
<1>2. /\ pc'[a] # "replace" /\ UNCHANGED <<object, conns, cur>>
      /\ used'[a] = used[a] - Len(object[cur[a]].held)
  BY <1>0 DEF Replace, Goto, TypeOK
<1>3. PagesOf(a)' = PagesOf(a)
  BY <1>2 DEF PagesOf, Pooled
<1>4. /\ IsFiniteSet(PagesOf(a))
      /\ used[a] = Cardinality(PagesOf(a)) + Len(object[cur[a]].held)
  BY <1>0 DEF PagesCounted
<1>5. Cardinality(PagesOf(a)) \in Nat
  BY <1>4, FS_CardinalityType
<1>6. used'[a] = Cardinality(PagesOf(a))
  BY <1>1, <1>2, <1>4, <1>5
<1> QED
  BY <1>0, <1>2, <1>3, <1>4, <1>5, <1>6 DEF PagesCounted

LEMMA CountInsert ==
  ASSUME PoolInv, SingleInv, PagesCounted, OneAssembler, NEW a \in Assemblers, Insert(a)
  PROVE  PagesCounted'
<1> DEFINE k == call[a].seg.key
           fresh == Fresh
<1>0. TypeOK /\ pc[a] = "insert" /\ \A b \in Assemblers : b = a
  BY DEF PoolInv, Insert, OneAssembler
<1>1. /\ k \in Keys /\ conns[k] = 0 /\ fresh # 0 /\ object'[fresh].held = <<>>
      /\ \A d \in Refs : d # fresh => object'[d] = object[d]
      /\ fresh \in Refs => \A x \in Keys : conns[x] # fresh
  BY InsertGives, SingleInsert
<1>2. /\ conns' = [conns EXCEPT ![k] = fresh] /\ used' = used
  BY <1>1 DEF Insert, Fresh
<1>3. pc'[a] = "lock"
  BY <1>0 DEF Insert, Goto, TypeOK
<1>4. Pooled \subseteq Refs /\ fresh \notin Pooled
  BY <1>0, <1>1, Pointers DEF Pooled
<1> HIDE DEF k, fresh
<1>5. Pooled' = Pooled \cup {fresh}
  <2>1. \A x \in Keys : conns'[x] = IF x = k THEN fresh ELSE conns[x]
    BY <1>0, <1>1, <1>2 DEF TypeOK
  <2> QED
    BY <2>1, <1>1 DEF Pooled
<1>6. Pooled' \ {fresh} = Pooled /\ fresh \in Pooled'
  BY <1>4, <1>5
<1>7. PagesIn(object', Pooled, a) = PagesIn(object, Pooled, a)
  <2>1. \A d \in Pooled : object'[d].held = object[d].held
    BY <1>1, <1>4
  <2> QED
    BY <2>1, PagesSame
<1>8. /\ IsFiniteSet(PagesIn(object, Pooled, a))
      /\ used[a] = Cardinality(PagesIn(object, Pooled, a))
  BY <1>0, CountedNow
<1>9. {i \in DOMAIN object'[fresh].held : object'[fresh].held[i] = a} = 1 .. 0
  BY <1>1
<1>10. IsFiniteSet(PagesIn(object', Pooled' \ {fresh}, a))
  BY <1>6, <1>7, <1>8
<1>11. /\ IsFiniteSet(PagesIn(object', Pooled', a))
       /\ Cardinality(PagesIn(object', Pooled', a))
            = Cardinality(PagesIn(object', Pooled' \ {fresh}, a)) + 0
  BY <1>6, <1>9, <1>10, PagesSplit
<1>12. Cardinality(PagesIn(object, Pooled, a)) \in Nat
  BY <1>8, FS_CardinalityType
<1>13. used'[a] = Cardinality(PagesIn(object', Pooled', a))
  BY <1>2, <1>6, <1>7, <1>8, <1>11, <1>12
<1> QED
  BY <1>3, <1>11, <1>13, CountedNext

-----------------------------------------------------------------------------
\* Every step of the only assembler preserves the invariant.
LEMMA SingleNext ==
  ASSUME OneAssembler
  PROVE  PoolInv /\ PoolInv' /\ SingleInv /\ PagesCounted /\ [Next]_vars
           => SingleInv' /\ PagesCounted'
<1> SUFFICES ASSUME PoolInv, PoolInv', SingleInv, PagesCounted, [Next]_vars
             PROVE  SingleInv' /\ PagesCounted'
  OBVIOUS
<1>0. Pooled \subseteq Refs
  BY Pointers DEF PoolInv, Pooled
<1>1. ASSUME NEW a \in Assemblers,
             \/ \E s \in Segments : Assemble(a, s)
             \/ \E op \in {"older", "all"} : BeginFlush(a, op)
             \/ Lookup(a) \/ Retry(a) \/ FlushNext(a) \/ FlushReturns(a) \/ PushDone(a)
      PROVE  SingleInv' /\ PagesCounted'
  <2>1. SingleInv' /\ object' = object /\ conns' = conns
    BY <1>1, SingleQuiet
  <2>2. used' = used /\ pc[a] # "replace" /\ pc'[a] # "replace"
    BY <1>1 DEF PoolInv, TypeOK, Assemble, BeginFlush, Lookup, Retry, FlushNext,
         FlushReturns, PushDone, Goto, Return
  <2> QED
    BY <2>1, <2>2, CountFrame
<1>2. ASSUME NEW a \in Assemblers, Lock(a) \/ FlushLock(a) \/ Unlock(a)
      PROVE  SingleInv' /\ PagesCounted'
  <2>1. SingleInv' /\ conns' = conns /\ \A d \in Refs : object'[d].held = object[d].held
    BY <1>2, SingleLocks
  <2>2. used' = used /\ pc[a] # "replace" /\ pc'[a] # "replace"
    BY <1>2 DEF PoolInv, TypeOK, Lock, FlushLock, Unlock, Goto, Return
  <2> QED
    BY <1>0, <2>1, <2>2, CountFrame
<1>3. ASSUME NEW a \in Assemblers, Deliver(a) \/ Push(a) \/ Buffer(a)
      PROVE  SingleInv' /\ PagesCounted'
  BY <1>3, SinglePages, CountDeliver, CountBuffer
<1>4. ASSUME NEW a \in Assemblers, New(a) PROVE SingleInv' /\ PagesCounted'
  <2>1. UNCHANGED <<object, conns, used>> /\ pc[a] # "replace" /\ pc'[a] # "replace"
    BY <1>4 DEF PoolInv, TypeOK, New, Goto
  <2> QED
    BY <1>4, <2>1, SingleNew, CountFrame
<1>5. ASSUME NEW a \in Assemblers, Insert(a) PROVE SingleInv' /\ PagesCounted'
  BY <1>5, SingleInsert, CountInsert
<1>6. ASSUME NEW a \in Assemblers, Complete(a) PROVE SingleInv' /\ PagesCounted'
  <2>1. \A d \in Pooled : object'[d].held = object[d].held
    BY <1>0, <1>6, CompleteGives
  <2>2. UNCHANGED <<conns, used>> /\ pc[a] # "replace" /\ pc'[a] # "replace"
    BY <1>6 DEF PoolInv, TypeOK, Complete, Goto
  <2> QED
    BY <1>6, <2>1, <2>2, SingleComplete, CountFrame
<1>7. ASSUME NEW a \in Assemblers, Remove(a) PROVE SingleInv' /\ PagesCounted'
  BY <1>7, SingleRemove, CountRemove
<1>8. ASSUME NEW a \in Assemblers, Replace(a) PROVE SingleInv' /\ PagesCounted'
  BY <1>8, SingleQuiet, CountReplace
<1>9. CASE UNCHANGED vars
  <2>1. SingleInv'
    BY <1>9 DEF vars, SingleInv, KeysAgree, LiveIsPooled, Undisturbed, NoStreamLost, Refs
  <2>2. ASSUME NEW a \in Assemblers PROVE PagesOf(a)' = PagesOf(a)
    BY <1>9 DEF vars, PagesOf, Pooled
  <2>3. PagesCounted'
    BY <1>9, <2>2 DEF vars, PagesCounted
  <2> QED
    BY <2>1, <2>3
<1> QED
  BY <1>1, <1>2, <1>3, <1>4, <1>5, <1>6, <1>7, <1>8, <1>9 DEF Next, Step

LEMMA SingleInvariant ==
  ASSUME OneAssembler
  PROVE  Spec => [](SingleInv /\ PagesCounted)
<1>1. PoolInv /\ PoolInv' /\ SingleInv /\ PagesCounted /\ [Next]_vars
        => SingleInv' /\ PagesCounted'
  BY SingleNext
<1> QED
  BY <1>1, SingleInit, CountInit, PoolInvariant, PTL DEF Spec

\* AppropriateStream: with one assembler a segment is processed on a connection
\* of its own flow.
THEOREM SegmentsFindTheirStream ==
  ASSUME OneAssembler
  PROVE  Spec => []AppropriateStream
<1>1. PoolInv /\ SingleInv => AppropriateStream
  <2> SUFFICES ASSUME PoolInv, SingleInv, NEW a \in Assemblers, pc[a] = "work"
               PROVE  streams[object[cur[a]].stream].key = call[a].seg.key
    BY DEF AppropriateStream
  <2>1. cur[a] \in Refs /\ object[cur[a]].stream # 0
    BY Pointed DEF Pointing, Holding
  <2> QED
    BY <2>1 DEF SingleInv, KeysAgree, Undisturbed
<1> QED
  BY <1>1, SingleInvariant, PoolInvariant, PTL

\* RemovesItself: with one assembler a closed connection removes itself.
THEOREM ClosedRemovesItself ==
  ASSUME OneAssembler
  PROVE  Spec => []RemovesItself
<1>1. SingleInv => RemovesItself
  BY DEF SingleInv, Undisturbed, RemovesItself
<1> QED
  BY <1>1, SingleInvariant, PTL

\* NoOrphanStream: with one assembler no open stream is out of reach between
\* the calls.
THEOREM StreamsStayInReach ==
  ASSUME OneAssembler
  PROVE  Spec => []NoOrphanStream
<1>1. PoolInv /\ SingleInv => NoOrphanStream
  <2> SUFFICES ASSUME PoolInv, SingleInv, Quiet,
                      NEW i \in DOMAIN streams, streams[i].state = "open"
               PROVE  \E k \in Keys : conns[k] # 0 /\ object[conns[k]].stream = i
    BY DEF NoOrphanStream
  <2>1. i # 0
    BY DEF PoolInv, TypeOK
  <2>2. \A a \in Assemblers : made[a] # i
    BY <2>1 DEF SingleInv, KeysAgree, Quiet
  <2>3. PICK c \in Refs : object[c].stream = i /\ ~object[c].closed
    BY <2>2 DEF SingleInv, NoStreamLost
  <2>4. c \in Pooled
    BY <2>1, <2>3, WorkPooled
  <2> QED
    BY <2>3, <2>4 DEF Pooled
<1> QED
  BY <1>1, SingleInvariant, PoolInvariant, PTL

\* PagesReturnHome: with one assembler the pages in use are those buffered in
\* the pool, however its connections were opened, closed and given out again.
THEOREM PagesComeBack ==
  ASSUME OneAssembler
  PROVE  Spec => []PagesReturnHome
<1>1. PagesCounted => PagesReturnHome
  <2> SUFFICES ASSUME PagesCounted, Quiet, NEW a \in Assemblers
               PROVE  used[a] = Cardinality(PagesOf(a))
    BY DEF PagesReturnHome
  <2>1. pc[a] # "replace"
    BY DEF Quiet
  <2>2. PagesOf(a) = PagesIn(object, Pooled, a)
    BY DEF PagesOf, PagesIn
  <2> QED
    BY <2>1, <2>2, CountedNow
<1> QED
  BY <1>1, SingleInvariant, PTL

-----------------------------------------------------------------------------
(* The pool of one assembler implements FlowStreams.                       *)

\* Every stream that is open is the one of its flow's connection in the pool,
\* or was just made for a flow without a connection.
LEMMA OpenIsPooled ==
  ASSUME PoolInv, SingleInv, NEW i \in DOMAIN streams, streams[i].state = "open"
  PROVE  \/ \E c \in Refs : /\ object[c].stream = i /\ ~object[c].closed
                            /\ conns[streams[i].key] = c
         \/ \E a \in Assemblers : made[a] = i /\ pc[a] = "insert"
<1>1. i # 0
  BY DEF PoolInv, TypeOK
<1>2. CASE \E a \in Assemblers : made[a] = i
  BY <1>1, <1>2 DEF SingleInv, KeysAgree
<1>3. ASSUME NEW c \in Refs, object[c].stream = i, ~object[c].closed
      PROVE  conns[streams[i].key] = c
  BY <1>1, <1>3 DEF SingleInv, KeysAgree, LiveIsPooled
<1> QED
  BY <1>2, <1>3 DEF SingleInv, NoStreamLost

\* New makes a stream for a flow that has none open.
LEMMA NewImplements ==
  ASSUME PoolInv, SingleInv, OneAssembler, NEW a \in Assemblers, New(a)
  PROVE  Flows!New(call[a].seg.key)
<1> DEFINE k     == call[a].seg.key
           fresh == [key |-> k, state |-> "open"]
           n     == Len(streams)
<1>0. TypeOK /\ pc[a] = "new" /\ \A b \in Assemblers : b = a
  BY DEF PoolInv, New, OneAssembler
<1>1. streams' = Append(streams, fresh) /\ fresh.key = k /\ fresh.state = "open"
  BY DEF New
<1>2. conns[k] = 0 /\ k \in Keys
  <2>1. call[a] \in Call
    BY <1>0 DEF TypeOK
  <2> QED
    BY <1>0, <2>1 DEF SingleInv, Undisturbed, Call, Segment
<1> HIDE DEF fresh, k
<1>3. /\ n \in Nat /\ Len(streams') = n + 1 /\ streams'[n + 1] = fresh
      /\ \A i \in 1 .. n : streams'[i] = streams[i]
      /\ DOMAIN streams' = 1 .. n + 1 /\ DOMAIN streams = 1 .. n
  BY <1>0, <1>1 DEF TypeOK
<1> HIDE DEF n
<1>4. OpenStreams[k] = {}
  <2> SUFFICES ASSUME NEW i \in DOMAIN streams, streams[i].key = k, streams[i].state = "open"
               PROVE  FALSE
    BY <1>2 DEF OpenStreams
  <2>1. 0 \notin Refs
    BY <1>0 DEF Refs
  <2> QED
    BY <1>0, <1>2, <2>1, OpenIsPooled
<1>5. ASSUME NEW x \in Keys
      PROVE  OpenStreams'[x] = IF x = k THEN {n + 1} ELSE OpenStreams[x]
  <2>1. OpenStreams'[x] =
          {i \in 1 .. n + 1 : streams'[i].key = x /\ streams'[i].state = "open"}
    BY <1>3 DEF OpenStreams
  <2>2. OpenStreams[x] = {i \in 1 .. n : streams[i].key = x /\ streams[i].state = "open"}
    BY <1>3 DEF OpenStreams
  <2>3. 1 .. n + 1 = (1 .. n) \cup {n + 1}
    BY <1>3
  <2>4. OpenStreams'[x] = OpenStreams[x] \cup (IF x = k THEN {n + 1} ELSE {})
    BY <1>1, <1>3, <2>1, <2>2, <2>3
  <2> QED
    BY <1>4, <2>4
<1>6. OpenStreams' = [OpenStreams EXCEPT ![k] = {n + 1}]
  BY <1>5 DEF OpenStreams
<1> QED
  BY <1>3, <1>4, <1>6 DEF Flows!New, k, n

\* closeConnection completes the only open stream of its flow.
LEMMA CompleteImplements ==
  ASSUME PoolInv, SingleInv, OneAssembler, NEW a \in Assemblers, Complete(a)
  PROVE  \E k \in Keys : Flows!ReassemblyComplete(k)
<1> DEFINE c == cur[a]
           s == object[c].stream
           k == streams[s].key
           n == Len(streams)
<1>0. TypeOK /\ pc[a] = "complete" /\ \A b \in Assemblers : b = a
  BY DEF PoolInv, Complete, OneAssembler
<1>1. /\ c \in Refs /\ ~object[c].closed /\ s \in 1 .. n
      /\ streams \in Seq(StreamRec) /\ streams' \in Seq(StreamRec)
      /\ Len(streams') = n
      /\ streams'[s].state = "complete"
      /\ \A i \in 1 .. n : streams'[i].key = streams[i].key
      /\ \A i \in 1 .. n : i # s => streams'[i] = streams[i]
  BY CompleteGives
<1>2. k \in Keys /\ n \in Nat /\ DOMAIN streams = 1 .. n /\ DOMAIN streams' = 1 .. n
  <2>1. streams[s] \in StreamRec
    BY <1>1
  <2> QED
    BY <1>1, <2>1 DEF StreamRec
<1>3. s # 0 /\ streams[s].state = "open" /\ conns[k] = c
  <2>1. s # 0
    BY <1>1
  <2> QED
    BY <1>1, <2>1 DEF PoolInv, OpenWhileLive, SingleInv, LiveIsPooled, KeysAgree
<1> HIDE DEF c, s, k, n
<1>4. ASSUME NEW i \in 1 .. n, streams[i].key = k, streams[i].state = "open"
      PROVE  i = s
  <2>1. \A b \in Assemblers : pc[b] # "insert"
    BY <1>0
  <2> QED
    BY <1>2, <1>3, <1>4, <2>1, OpenIsPooled DEF s, c
<1>5. OpenStreams[k] # {}
  BY <1>1, <1>2, <1>3 DEF OpenStreams, k
<1>6. ASSUME NEW x \in Keys
      PROVE  OpenStreams'[x] = IF x = k THEN {} ELSE OpenStreams[x]
  <2>1. OpenStreams'[x] =
          {i \in 1 .. n : streams'[i].key = x /\ streams'[i].state = "open"}
    BY <1>2 DEF OpenStreams
  <2>2. OpenStreams[x] = {i \in 1 .. n : streams[i].key = x /\ streams[i].state = "open"}
    BY <1>2 DEF OpenStreams
  <2>3. CASE x = k
    BY <1>1, <1>4, <2>1, <2>3
  <2>4. CASE x # k
    BY <1>1, <1>3, <2>1, <2>2, <2>4 DEF k
  <2> QED
    BY <2>3, <2>4
<1>7. OpenStreams' = [OpenStreams EXCEPT ![k] = {}]
  BY <1>6 DEF OpenStreams
<1>8. Len(streams') = Len(streams)
  BY <1>1 DEF n
<1> QED
  BY <1>2, <1>5, <1>7, <1>8 DEF Flows!ReassemblyComplete

\* Every step is one of FlowStreams, or none of its own.
LEMMA StepImplements ==
  ASSUME OneAssembler
  PROVE  PoolInv /\ SingleInv /\ [Next]_vars => [Flows!Next]_(Flows!vars)
<1> SUFFICES ASSUME PoolInv, SingleInv, [Next]_vars
             PROVE  [Flows!Next]_(Flows!vars)
  OBVIOUS
<1>1. ASSUME NEW a \in Assemblers, New(a) PROVE Flows!Next
  <2>1. call[a].seg.key \in Keys
    BY DEF PoolInv, TypeOK, Call, Segment
  <2> QED
    BY <1>1, <2>1, NewImplements DEF Flows!Next
<1>2. ASSUME NEW a \in Assemblers, Complete(a) PROVE Flows!Next
  BY <1>2, CompleteImplements DEF Flows!Next
<1>3. ASSUME UNCHANGED streams PROVE UNCHANGED Flows!vars
  BY <1>3 DEF Flows!vars, OpenStreams
<1>4. ASSUME NEW a \in Assemblers,
             \/ \E s \in Segments : Assemble(a, s)
             \/ \E op \in {"older", "all"} : BeginFlush(a, op)
             \/ Lookup(a) \/ Insert(a) \/ Retry(a)
      PROVE  UNCHANGED streams
  BY <1>4 DEF Assemble, BeginFlush, Lookup, Insert, Retry
<1>5. ASSUME NEW a \in Assemblers,
             Deliver(a) \/ Buffer(a) \/ Remove(a) \/ Replace(a) \/ Unlock(a) \/ Lock(a)
      PROVE  UNCHANGED streams
  BY <1>5 DEF Deliver, Buffer, Remove, Replace, Unlock, Lock
<1>6. ASSUME NEW a \in Assemblers,
             FlushLock(a) \/ FlushNext(a) \/ FlushReturns(a) \/ Push(a) \/ PushDone(a)
      PROVE  UNCHANGED streams
  BY <1>6 DEF FlushLock, FlushNext, FlushReturns, Push, PushDone
<1>7. CASE UNCHANGED vars
  BY <1>3, <1>7 DEF vars
<1> QED
  BY <1>1, <1>2, <1>3, <1>4, <1>5, <1>6, <1>7 DEF Next, Step

\* No stream was made.
LEMMA InitImplements == Init => Flows!Init
BY DEF Init, Flows!Init, OpenStreams

\* OneStreamPerFlow: a pool with one assembler implements FlowStreams.  However
\* its connections are looked up, made, freed and given out again, a flow gets a
\* new stream only after the last one was completed, each is completed one time,
\* and none is opened again.
THEOREM FlowsHaveOneStream ==
  ASSUME OneAssembler
  PROVE  Spec => OneStreamPerFlow
<1>1. PoolInv /\ SingleInv /\ [Next]_vars => [Flows!Next]_(Flows!vars)
  BY StepImplements
<1> QED
  BY <1>1, InitImplements, SingleInvariant, PoolInvariant, PTL DEF Spec, OneStreamPerFlow, Flows!Spec
=============================================================================
