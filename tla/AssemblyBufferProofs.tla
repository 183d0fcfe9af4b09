------------------------ MODULE AssemblyBufferProofs ------------------------
(***************************************************************************)
(* Theorems about what the assembler buffers: the pages in use are those   *)
(* the connections hold, the limits hold, nothing that is due is held      *)
(* back, and a flush leaves nothing behind that it promised to push.       *)
(***************************************************************************)
EXTENDS AssemblyProofs

\* Every segment fits in one page, as long as none is longer than 1900 bytes.
OnePage == \A p \in Packets : PagesOf(p) = 1

-----------------------------------------------------------------------------
(* Every step changes the list of one connection at most, and by as many   *)
(* pages as it takes from the cache or gives back.                         *)

\* The connection k changes, and its pages with those in use.
Balanced(k) ==
  /\ conns'[k] \in Conn(Page)
  /\ cache' \in Cache
  /\ cache'.used - Len(conns'[k].list) = cache.used - Len(conns[k].list)
  /\ \A j \in Keys : j # k => conns'[j] = conns[j]

\* addNextFromConn gives back the page it takes from the list.
LEMMA PopBalance ==
  ASSUME NEW w \in Work(Page), w.conn.list # <<>>
  PROVE  /\ addNextFromConn(w).conn \in Conn(Page)
         /\ addNextFromConn(w).cache \in Cache
         /\ addNextFromConn(w).cache.used = w.cache.used - 1
         /\ addNextFromConn(w).conn.pages = w.conn.pages - 1
<1> DEFINE v == addNextFromConn(w)
<1>1. /\ v \in Work(Page) /\ v.conn.list = Tail(w.conn.list)
      /\ v.cache.used = w.cache.used - 1
  BY addNextFromConnType
<1> HIDE DEF v
<1>2. v.conn \in Conn(Page) /\ v.cache \in Cache /\ w.conn \in Conn(Page)
  BY <1>1 DEF Work
<1>3. v.conn.pages = Len(v.conn.list) /\ w.conn.pages = Len(w.conn.list)
      /\ w.conn.list \in Seq(Page)
  BY <1>2, ConnFields
<1>4. Len(Tail(w.conn.list)) = Len(w.conn.list) - 1
  BY <1>3, HeadTailProperties
<1> QED BY <1>1, <1>2, <1>3, <1>4 DEF v

\* insertIntoConn takes the pages it adds to the list, and leaves no limit
\* reached if a segment is one page.
LEMMA InsertBalance ==
  ASSUME NEW p \in Packets, NEW ts \in Nat,
         NEW c \in Conn(Page), NEW h \in Cache, NEW r \in Seq(ChunkType)
  PROVE  LET w == insertIntoConn([conn |-> c, cache |-> h, ret |-> r], p, ts)
         IN  /\ w.conn \in Conn(Page) /\ w.cache \in Cache
             /\ w.cache.used - Len(w.conn.list) = h.used - Len(c.list)
             /\ OnePage /\ ~ HitsLimit(c, h) => ~ HitsLimit(w.conn, w.cache)
<1> DEFINE v == [conn |-> c, cache |-> h, ret |-> r]
           w == insertIntoConn(v, p, ts)
           run == pagesFromTCP(p, v.cache, ts)
           i == traverseConn(v.conn.list, seqOf(p))
<1>1. v \in Work(Page) /\ v.conn = c /\ v.cache = h
  BY DEF Work
<1> HIDE DEF v
<1>2. run \in Seq(Page) /\ Len(run) = PagesOf(p)
  BY <1>1, pagesFromTCPType
<1>3. PICK put \in Work(Page) :
           /\ put.conn.list # <<>>
           /\ put.conn.list = pushBetween(v.conn.list, i, run)
           /\ put.cache.used = v.cache.used + PagesOf(p)
           /\ w = IF HitsLimit(put.conn, put.cache) THEN addNextFromConn(put) ELSE put
  BY <1>1, <1>2, insertIntoConnType
<1> SUFFICES /\ w.conn \in Conn(Page) /\ w.cache \in Cache
             /\ w.cache.used - Len(w.conn.list) = h.used - Len(c.list)
             /\ OnePage /\ ~ HitsLimit(c, h) => ~ HitsLimit(w.conn, w.cache)
  BY Zenon DEF v
<1> HIDE DEF w
<1>4. /\ c.list \in Seq(Page) /\ c.pages = Len(c.list) /\ Len(c.list) \in Nat
      /\ put.conn \in Conn(Page) /\ put.cache \in Cache
      /\ put.conn.pages = Len(put.conn.list)
      /\ h.used \in Int /\ PagesOf(p) \in Nat
  <2>1. put.conn \in Conn(Page) /\ put.cache \in Cache
    BY DEF Work
  <2>2. h.used \in Int
    BY DEF Cache, PageCache
  <2>3. PagesOf(p) \in Nat
    BY PagesOfProperties, AssemblyAssumption
  <2> QED BY <2>1, <2>2, <2>3, ConnFields
<1>5. Len(put.conn.list) = Len(c.list) + PagesOf(p)
  <2>1. i \in 0 .. Len(v.conn.list)
    BY <1>1, <1>4, traverseConnType
  <2> HIDE DEF i, run
  <2>2. Len(pushBetween(v.conn.list, i, run)) = Len(v.conn.list) + Len(run)
    BY <1>1, <1>2, <1>4, <2>1, pushBetweenType
  <2> QED BY <1>1, <1>2, <1>3, <2>2
<1>6. put.cache.used = h.used + PagesOf(p)
  BY <1>1, <1>3
<1>7. CASE ~ HitsLimit(put.conn, put.cache)
  <2>1. w = put
    BY <1>3, <1>7
  <2>2. put.cache.used - Len(put.conn.list) = h.used - Len(c.list)
    BY <1>4, <1>5, <1>6
  <2> QED BY <1>4, <1>7, <2>1, <2>2, Zenon
<1>8. CASE HitsLimit(put.conn, put.cache)
  <2>1. w = addNextFromConn(put)
    BY <1>3, <1>8
  <2>2. /\ w.conn \in Conn(Page) /\ w.cache \in Cache
        /\ w.cache.used = put.cache.used - 1 /\ w.conn.pages = put.conn.pages - 1
    BY <1>3, <2>1, PopBalance
  <2>3. w.conn.pages = Len(w.conn.list)
    BY <2>2, ConnFields
  <2>4. w.cache.used - Len(w.conn.list) = h.used - Len(c.list)
    BY <1>4, <1>5, <1>6, <2>2, <2>3
  <2>5. ASSUME OnePage, ~ HitsLimit(c, h) PROVE ~ HitsLimit(w.conn, w.cache)
    <3>1. w.conn.pages = c.pages /\ w.cache.used = h.used
      BY <1>4, <1>5, <1>6, <2>2, <2>3, <2>5 DEF OnePage
    <3> QED BY <2>5, <3>1 DEF HitsLimit
  <2> QED BY <2>2, <2>4, <2>5
<1> QED BY <1>7, <1>8

\* What a step does to the pages: nothing, or it changes one connection.
LEMMA StepBalance ==
  ASSUME WellFormed(Page), [Next]_vars
  PROVE  \/ UNCHANGED <<conns, cache>>
         \/ \E k \in Keys :
              /\ Balanced(k)
              /\ OnePage /\ BufferLimits => ~ HitsLimit(conns'[k], cache')
<1>0. /\ Page \in SUBSET Page /\ now \in Nat /\ key \in Keys /\ cache \in Cache
      /\ ret \in Seq(ChunkType) /\ <<>> \in Seq(ChunkType)
      /\ \A k \in Keys : /\ conns[k] \in Conn(Page)
                         /\ conns[k].pages = Len(conns[k].list) /\ Len(conns[k].list) \in Nat
  BY WellFormedFacts, ConnFields
<1>1. ASSUME BufferLimits, NEW k \in Keys PROVE ~ HitsLimit(conns[k], cache)
  <2>1. conns[k].pages \in Nat /\ cache.used \in Int
    BY <1>0 DEF Cache, PageCache
  <2>2. MaxBufferedPagesPerConnection > 0 => conns[k].pages < MaxBufferedPagesPerConnection
    BY <1>1 DEF BufferLimits
  <2>3. MaxBufferedPagesTotal > 0 => cache.used < MaxBufferedPagesTotal
    BY <1>1 DEF BufferLimits
  <2> QED BY <2>1, <2>2, <2>3, AssemblyAssumption DEF HitsLimit
<1>2. ASSUME NEW k \in Keys, NEW w \in Work(Page), Commit(k, w)
      PROVE  /\ conns'[k] = w.conn /\ cache' = w.cache
             /\ \A j \in Keys : j # k => conns'[j] = conns[j]
  BY <1>2, Zenon DEF Commit, WellFormed
<1>3. ASSUME NEW k \in Keys, NEW p \in Packets, NEW c \in Conn(Page), c.open,
             Len(c.list) = Len(conns[k].list), c.pages = conns[k].pages,
             NEW r \in Seq(ChunkType),
             Commit(k, insertIntoConn([conn |-> c, cache |-> cache, ret |-> r], p, now))
      PROVE  Balanced(k) /\ (OnePage /\ BufferLimits => ~ HitsLimit(conns'[k], cache'))
  <2> DEFINE w == insertIntoConn([conn |-> c, cache |-> cache, ret |-> r], p, now)
  <2>1. w \in Work(Page)
    BY <1>0, <1>3, HoldsPage, InsertType
  <2>2. /\ w.conn \in Conn(Page) /\ w.cache \in Cache
        /\ w.cache.used - Len(w.conn.list) = cache.used - Len(c.list)
        /\ OnePage /\ ~ HitsLimit(c, cache) => ~ HitsLimit(w.conn, w.cache)
    BY <1>0, InsertBalance
  <2>3. /\ conns'[k] = w.conn /\ cache' = w.cache
        /\ \A j \in Keys : j # k => conns'[j] = conns[j]
    BY <1>2, <1>3, <2>1
  <2> HIDE DEF w
  <2>4. BufferLimits => ~ HitsLimit(c, cache)
    BY <1>1, <1>3 DEF HitsLimit
  <2> QED BY <1>3, <2>2, <2>3, <2>4 DEF Balanced
<1>4. ASSUME NEW k \in Keys, NEW p \in Packets, AssembleFirst(k, p)
      PROVE  Balanced(k) /\ (OnePage /\ BufferLimits => ~ HitsLimit(conns'[k], cache'))
  <2> DEFINE n == Add(seqOf(p), p.len + (IF p.syn THEN 1 ELSE 0))
             b == Seen(reset)
             c == [b EXCEPT !.nextSeq = n]
             x == [at |-> p.pos + (IF p.syn THEN 1 ELSE 0), len |-> p.len,
                   skip |-> IF p.syn THEN 0 ELSE -1, start |-> p.syn, end |-> FALSE]
  <2>1. n \in Sequence
    <3>1. p.pos \in Nat /\ p.len \in Nat /\ p.syn \in BOOLEAN
      BY PacketsAssumption DEF Segment
    <3>2. p.len + (IF p.syn THEN 1 ELSE 0) \in Nat
      BY <3>1
    <3> QED BY <3>2, seqOfType, AddInSequence
  <2>2. b \in Conn(Page) /\ b.open /\ b.list = <<>>
    BY <1>0, NoConnectionType, SeenType
  <2>3. Commit(k, insertIntoConn([conn |-> c, cache |-> cache, ret |-> <<x>>], p, now))
    BY <1>4, Zenon DEF AssembleFirst
  <2>4. x \in ChunkType
    BY FirstChunkType
  <2> HIDE DEF b, n, x
  <2>5. c \in Conn(Page) /\ c.open /\ c.list = <<>>
    BY <1>0, <2>1, <2>2, NextSeqType
  <2> HIDE DEF c
  <2>6. <<x>> \in Seq(ChunkType)
    BY <2>4, SingletonSeq
  <2>7. conns[k].list = <<>>
    BY <1>4 DEF AssembleFirst, WellFormed
  <2>8. c.pages = Len(c.list)
    BY <2>5, ConnFields
  <2> QED BY <1>0, <1>3, <2>3, <2>5, <2>6, <2>7, <2>8
<1>5. ASSUME NEW k \in Keys, NEW p \in Packets, AssembleAhead(k, p)
      PROVE  Balanced(k) /\ (OnePage /\ BufferLimits => ~ HitsLimit(conns'[k], cache'))
  <2> DEFINE c == Seen(conns[k])
  <2>1. Commit(k, insertIntoConn([conn |-> c, cache |-> cache, ret |-> <<>>], p, now))
    BY <1>5, Zenon DEF AssembleAhead
  <2>2. c \in Conn(Page) /\ c.open /\ c.list = conns[k].list
    BY <1>0, <1>5, SeenType DEF AssembleAhead
  <2> HIDE DEF c
  <2>3. c.pages = Len(c.list)
    BY <2>2, ConnFields
  <2> QED BY <1>0, <1>3, <2>1, <2>2, <2>3
<1>6. ASSUME NEW k \in Keys, NEW p \in Packets, AssembleDue(k, p)
      PROVE  Balanced(k) /\ (OnePage /\ BufferLimits => ~ HitsLimit(conns'[k], cache'))
  <2> DEFINE c == Seen(conns[k])
             span == byteSpan(c.nextSeq, seqOf(p), p.len)
             d == [c EXCEPT !.nextSeq = span.next]
  <2>1. c \in Conn(Page) /\ c.list = conns[k].list
    BY <1>0, SeenType
  <2>2. conns'[k] = d /\ cache' = cache /\ \A j \in Keys : j # k => conns'[j] = conns[j]
    <3>1. /\ conns' = [conns EXCEPT ![k] = d]
          /\ cache' = cache
      BY <1>6 DEF AssembleDue, Commit
    <3> QED BY <3>1 DEF WellFormed
  <2> HIDE DEF c
  <2>3. span \in [cut : Nat, len : Nat, next : Sequence]
    <3>1. p.len \in Nat
      BY PacketsAssumption DEF Segment
    <3> QED BY <2>1, <3>1, ConnFields, seqOfType, byteSpanType
  <2> HIDE DEF span
  <2>4. d \in Conn(Page) /\ d.list = conns[k].list
    BY <1>0, <2>1, <2>3, NextSeqType
  <2> HIDE DEF d
  <2>5. d.pages = conns[k].pages
    BY <1>0, <2>4, ConnFields
  <2>6. BufferLimits => ~ HitsLimit(d, cache)
    BY <1>1, <2>5 DEF HitsLimit
  <2> QED BY <1>0, <2>2, <2>4, <2>6 DEF Balanced
<1>7. ASSUME NEW k \in Keys, NEW r \in Seq(ChunkType), conns[k].list # <<>>,
             Commit(k, addNextFromConn([conn |-> conns[k], cache |-> cache, ret |-> r]))
      PROVE  Balanced(k) /\ (OnePage /\ BufferLimits => ~ HitsLimit(conns'[k], cache'))
  <2> DEFINE v == [conn |-> conns[k], cache |-> cache, ret |-> r]
             w == addNextFromConn(v)
  <2>1. v \in Work(Page) /\ v.conn = conns[k] /\ v.cache = cache
    BY <1>0 DEF Work
  <2>2. conns'[k] = w.conn /\ cache' = w.cache
        /\ \A j \in Keys : j # k => conns'[j] = conns[j]
    <3>1. conns' = [conns EXCEPT ![k] = w.conn] /\ cache' = w.cache
      BY <1>7 DEF Commit
    <3> HIDE DEF w
    <3> QED BY <3>1 DEF WellFormed
  <2> HIDE DEF v
  <2>3. /\ w.conn \in Conn(Page) /\ w.cache \in Cache
        /\ w.cache.used = cache.used - 1 /\ w.conn.pages = conns[k].pages - 1
    BY <1>7, <2>1, PopBalance
  <2> HIDE DEF w
  <2>4. w.conn.pages = Len(w.conn.list) /\ cache.used \in Int
    BY <1>0, <2>3, ConnFields DEF Cache, PageCache
  <2>5. BufferLimits => ~ HitsLimit(w.conn, w.cache)
    BY <1>0, <1>1, <2>3, <2>4, AssemblyAssumption, SMTT(30) DEF HitsLimit
  <2>6. w.cache.used - Len(w.conn.list) = cache.used - Len(conns[k].list)
    <3>1. /\ Len(conns[k].list) = conns[k].pages /\ conns[k].pages \in Int
          /\ Len(w.conn.list) = conns[k].pages - 1
      BY <1>0, <2>3, <2>4
    <3> QED BY <2>3, <2>4, <3>1
  <2>7. Balanced(k)
    BY <2>2, <2>3, <2>6 DEF Balanced
  <2> QED BY <2>2, <2>5, <2>7
<1>8. CASE closeConnection
  <2>1. /\ conns'[key] = NoConnection /\ cache' = replace(cache, conns[key].list)
        /\ \A j \in Keys : j # key => conns'[j] = conns[j]
    BY <1>0, <1>8 DEF closeConnection, WellFormed
  <2>2. NoConnection \in Conn(Page) /\ NoConnection.list = <<>> /\ NoConnection.pages = 0
    BY <1>0, NoConnectionType DEF NoConnection
  <2>3. /\ cache' \in Cache
        /\ cache'.used = cache.used - Len(conns[key].list)
    BY <1>0, <2>1, replaceType, ConnFields
  <2>4. cache.used \in Int
    BY <1>0 DEF Cache, PageCache
  <2>5. Balanced(key)
    BY <1>0, <2>1, <2>2, <2>3, <2>4 DEF Balanced
  <2>6. BufferLimits => ~ HitsLimit(conns'[key], cache')
    BY <1>0, <1>1, <2>1, <2>2, <2>3, <2>4, AssemblyAssumption DEF HitsLimit
  <2> QED BY <1>0, <2>5, <2>6
<1>9. CASE addContiguous
  BY <1>0, <1>7, <1>9 DEF addContiguous, FirstIsDue
<1>10. ASSUME NEW k \in Keys, skipFlush(k)
       PROVE  Balanced(k) /\ (OnePage /\ BufferLimits => ~ HitsLimit(conns'[k], cache'))
  BY <1>0, <1>7, <1>10 DEF skipFlush, MustPush
<1>11. CASE \/ Tick \/ FlushOlderThan \/ FlushAll \/ sendToConnection \/ FlushReturns
            \/ (\E k \in Keys : FlushCloses(k) \/ FlushNextConn(k)) \/ UNCHANGED vars
  BY <1>11 DEF Tick, FlushOlderThan, FlushAll, BeginFlush, sendToConnection, FlushReturns,
     FlushCloses, FlushNextConn, vars
<1> QED BY <1>4, <1>5, <1>6, <1>8, <1>9, <1>10, <1>11 DEF Next, Call, Continue

-----------------------------------------------------------------------------
(* Page accounting.                                                        *)

HeldBy(cs, T) == UNION {{k} \X DOMAIN cs[k].list : k \in T}

\* The pages of one connection are as many as its list is long.
LEMMA HeldSplit ==
  ASSUME NEW cs, NEW T, NEW k \in T, cs[k].list \in Seq(Page), IsFiniteSet(HeldBy(cs, T \ {k}))
  PROVE  /\ IsFiniteSet(HeldBy(cs, T))
         /\ Cardinality(HeldBy(cs, T)) = Cardinality(HeldBy(cs, T \ {k})) + Len(cs[k].list)
<1> DEFINE n    == Len(cs[k].list)
           mine == {k} \X (1 .. n)
           rest == HeldBy(cs, T \ {k})
<1>0. n \in Nat /\ DOMAIN cs[k].list = 1 .. n
  BY LenProperties
<1>1. HeldBy(cs, T) = rest \cup mine
  <2>1. HeldBy(cs, T) = rest \cup ({k} \X DOMAIN cs[k].list)
    BY DEF HeldBy
  <2> QED BY <1>0, <2>1
<1>2. rest \cap mine = {}
  BY DEF HeldBy
<1> HIDE DEF n
<1>3. IsFiniteSet(1 .. n) /\ Cardinality(1 .. n) = n
  BY <1>0, FS_Interval
<1>4. [i \in 1 .. n |-> <<k, i>>] \in Bijection(1 .. n, mine)
  <2> DEFINE f == [i \in 1 .. n |-> <<k, i>>]
  <2>1. f \in [1 .. n -> mine]
    OBVIOUS
  <2>2. ASSUME NEW i \in 1 .. n, NEW j \in 1 .. n, f[i] = f[j] PROVE i = j
    BY <2>2
  <2>3. ASSUME NEW q \in mine PROVE \E i \in 1 .. n : f[i] = q
    BY <2>3
  <2> HIDE DEF f
  <2>4. f \in Injection(1 .. n, mine)
    BY <2>1, <2>2 DEF Injection, IsInjective
  <2>5. f \in Surjection(1 .. n, mine)
    BY <2>1, <2>3 DEF Surjection
  <2> QED BY <2>4, <2>5 DEF Bijection, f
<1>5. IsFiniteSet(mine) /\ Cardinality(mine) = n
  BY <1>3, <1>4, FS_Bijection DEF ExistsBijection
<1> HIDE DEF mine, rest
<1>6. IsFiniteSet(rest)
  BY DEF rest
<1>7. /\ IsFiniteSet(rest \cup mine)
      /\ Cardinality(rest \cup mine) = Cardinality(rest) + Cardinality(mine) - Cardinality({})
  BY <1>2, <1>5, <1>6, FS_Union, SMTT(30)
<1>8. Cardinality({}) = 0 /\ Cardinality(rest) \in Nat
  BY <1>6, FS_EmptySet, FS_CardinalityType
<1> QED BY <1>0, <1>1, <1>5, <1>7, <1>8 DEF rest, n

\* The pages in use are those the connections hold, finitely many.
Accounted ==
  /\ WellFormed(Page)
  /\ IsFiniteSet(Buffered)
  /\ UsedIsBuffered

\* A step that changes one connection and balances it keeps the account.
LEMMA BalancedAccount ==
  ASSUME Accounted, NEW k \in Keys, Balanced(k)
  PROVE  IsFiniteSet(Buffered') /\ UsedIsBuffered'
<1> DEFINE rest == HeldBy(conns, Keys \ {k})
<1>1. /\ conns[k].list \in Seq(Page) /\ Len(conns[k].list) \in Nat
      /\ conns'[k].list \in Seq(Page) /\ Len(conns'[k].list) \in Nat
  BY ConnFields, WellFormedFacts DEF Balanced, Accounted
<1>2. /\ Buffered = HeldBy(conns, Keys) /\ Buffered' = HeldBy(conns', Keys)
  BY DEF Buffered, HeldBy
<1>3. HeldBy(conns', Keys \ {k}) = rest
  BY DEF HeldBy, Balanced
<1>4. IsFiniteSet(rest) /\ Cardinality(rest) \in Nat
  <2>1. rest \subseteq Buffered
    BY DEF Buffered, HeldBy
  <2> QED BY <2>1, FS_Subset, FS_CardinalityType DEF Accounted
<1>5. Cardinality(Buffered) = Cardinality(rest) + Len(conns[k].list)
  BY <1>1, <1>2, <1>4, HeldSplit
<1>6. /\ IsFiniteSet(Buffered')
      /\ Cardinality(Buffered') = Cardinality(rest) + Len(conns'[k].list)
  BY <1>1, <1>2, <1>3, <1>4, HeldSplit
<1>7. cache.used = Cardinality(Buffered) /\ cache.used \in Int /\ cache'.used \in Int
  BY DEF Accounted, UsedIsBuffered, Balanced, WellFormed, Cache, PageCache
<1>8. cache'.used = Cardinality(Buffered')
  BY <1>1, <1>4, <1>5, <1>6, <1>7, SMTT(30) DEF Balanced
<1> QED BY <1>6, <1>8 DEF UsedIsBuffered

\* Nothing is buffered and nothing is in use.
LEMMA AccountedInit == Init => Accounted
<1> SUFFICES ASSUME Init PROVE Accounted
  OBVIOUS
<1>1. WellFormed(Page)
  BY WellFormedInit
<1>2. Buffered = {}
  <2>1. \A k \in Keys : conns[k].list = <<>> /\ DOMAIN conns[k].list = {}
    BY DEF Init, NoConnection
  <2> QED BY <2>1 DEF Buffered
<1>3. cache.used = 0
  BY DEF Init, newPageCache
<1> QED BY <1>1, <1>2, <1>3, FS_EmptySet DEF Accounted, UsedIsBuffered

\* Every step keeps the account.
LEMMA AccountedStep == Accounted /\ [Next]_vars => Accounted'
<1> SUFFICES ASSUME Accounted, [Next]_vars PROVE Accounted'
  OBVIOUS
<1>1. WellFormed(Page) /\ WellFormed(Page)'
  BY HoldsPage, WellFormedStep DEF Accounted
<1>2. CASE UNCHANGED <<conns, cache>>
  BY <1>1, <1>2 DEF Accounted, Buffered, UsedIsBuffered
<1>3. CASE \E k \in Keys : Balanced(k)
  BY <1>1, <1>3, BalancedAccount DEF Accounted
<1> QED BY <1>1, <1>2, <1>3, StepBalance

\* Page accounting: on every path through pop, limit, close and flush the page
\* cache loses no page and none is returned twice; the pages in use are exactly
\* those in the lists of the open connections, and each of them is counted.
THEOREM PagesAreBuffered == Spec => []PageAccounting
<1>1. Accounted => PageAccounting
  BY WellFormedTypeOK DEF Accounted, PageAccounting
<1> QED BY <1>1, AccountedInit, AccountedStep, PTL DEF Spec

-----------------------------------------------------------------------------
(* The limits of AssemblerOptions.                                         *)

\* No limit is reached in the initial state if it is more than 0.
LEMMA LimitsInit == Init => BufferLimits
<1> SUFFICES ASSUME Init PROVE BufferLimits
  OBVIOUS
<1>1. cache.used = 0 /\ \A k \in Keys : conns[k].pages = 0
  BY DEF Init, newPageCache, NoConnection
<1> QED BY <1>1 DEF BufferLimits

\* The step that reaches a limit pushes out a page.
LEMMA LimitsStep ==
  ASSUME OnePage, WellFormed(Page), BufferLimits, [Next]_vars
  PROVE  BufferLimits'
<1>1. CASE UNCHANGED <<conns, cache>>
  BY <1>1 DEF BufferLimits
<1>2. ASSUME NEW k \in Keys, Balanced(k), ~ HitsLimit(conns'[k], cache')
      PROVE  BufferLimits'
  <2>1. /\ conns'[k].pages \in Nat /\ cache'.used \in Int
        /\ \A j \in Keys : j # k => conns'[j].pages = conns[j].pages
    <3>1. conns'[k] \in Conn(Page) /\ cache' \in Cache
      BY <1>2 DEF Balanced
    <3> QED BY <1>2, <3>1, ConnFields DEF Cache, PageCache, Balanced
  <2> QED BY <1>2, <2>1, AssemblyAssumption DEF BufferLimits, HitsLimit
<1> QED BY <1>1, <1>2, StepBalance

\* The limits of AssemblerOptions hold in every state, for any limits and any
\* number of flows, if a segment fits in one page.  (One of several pages may
\* exceed them: insertIntoConn pops one page for all it pushes.)
THEOREM LimitsHold ==
  ASSUME OnePage
  PROVE  Spec => []BufferLimits
<1>1. Init => WellFormed(Page) /\ BufferLimits
  BY WellFormedInit, LimitsInit
<1>2. WellFormed(Page) /\ BufferLimits /\ [Next]_vars => (WellFormed(Page) /\ BufferLimits)'
  BY HoldsPage, WellFormedStep, LimitsStep
<1> QED BY <1>1, <1>2, PTL DEF Spec

-----------------------------------------------------------------------------
(* Nothing that is due is held back.  A segment is inserted after the last *)
(* page that starts before it, so that the list is not sorted: a page may  *)
(* stand before one with an earlier start.  But then its own start has     *)
(* been reached, by what was sent or by a page before it.                  *)

\* The position of the byte that a connection expects.
Expected(c) == c.nextSeq - Isn

Reaches(g, n) == g.at + g.len >= n

\* A page before an earlier one starts where the pages before it have reached.
Chained(q, e) ==
  \A j \in DOMAIN q : \A i \in 1 .. j - 1 :
    q[i].at > q[j].at =>
      \/ q[i].at <= e
      \/ \E m \in 1 .. i - 1 : Reaches(q[m], q[i].at)

NoneDue(q, e) == \A i \in DOMAIN q : q[i].at > e

\* Fields and indices of a list of pages.
LEMMA ListFacts ==
  ASSUME NEW q \in Seq(Located)
  PROVE  /\ Len(q) \in Nat /\ DOMAIN q = 1 .. Len(q)
         /\ \A i \in 1 .. Len(q) : q[i].at \in Nat /\ q[i].len \in Nat /\ q[i].seq = Isn + q[i].at
         /\ \A i \in 1 .. Len(q) : q[i].at <= Top
<1>1. Len(q) \in Nat /\ DOMAIN q = 1 .. Len(q)
  BY LenProperties
<1>2. ASSUME NEW i \in 1 .. Len(q)
      PROVE  q[i].at \in Nat /\ q[i].len \in Nat /\ q[i].seq = Isn + q[i].at /\ q[i].at <= Top
  <2>1. q[i] \in Located
    BY <1>1, ElementOfSeq
  <2>2. q[i].at \in Nat /\ q[i].len \in Nat /\ q[i].at + q[i].len <= Top
    BY <2>1 DEF Located, Page
  <2> QED BY <2>1, <2>2, TopType DEF Located
<1> QED BY <1>1, <1>2

\* If the first page of a chained list is not due, none is.
LEMMA HeadDecides ==
  ASSUME NEW q \in Seq(Located), NEW e \in Nat, Chained(q, e), q # <<>>, q[1].at > e
  PROVE  NoneDue(q, e)
<1> SUFFICES ASSUME NEW j \in DOMAIN q PROVE q[j].at > e
  BY DEF NoneDue
<1>1. /\ Len(q) \in Nat /\ DOMAIN q = 1 .. Len(q) /\ q[1].at \in Nat /\ q[j].at \in Nat
  <2>1. Len(q) # 0
    BY EmptySeq
  <2> QED BY <2>1, ListFacts
<1>2. CASE j = 1
  BY <1>2
<1>3. CASE j # 1
  <2>1. 1 \in 1 .. j - 1 /\ 1 .. 1 - 1 = {}
    BY <1>1, <1>3
  <2>2. ~ (q[1].at > q[j].at)
    BY <1>1, <2>1 DEF Chained
  <2> QED BY <1>1, <2>2
<1> QED BY <1>2, <1>3

\* A later expected byte keeps a list chained.
LEMMA ChainedLater ==
  ASSUME NEW q \in Seq(Located), NEW e \in Nat, NEW f \in Nat, e <= f, Chained(q, e)
  PROVE  Chained(q, f)
<1> SUFFICES ASSUME NEW j \in DOMAIN q, NEW i \in 1 .. j - 1, q[i].at > q[j].at
             PROVE  \/ q[i].at <= f
                    \/ \E m \in 1 .. i - 1 : Reaches(q[m], q[i].at)
  BY DEF Chained
<1>1. q[i].at \in Nat
  BY ListFacts
<1>2. \/ q[i].at <= e
      \/ \E m \in 1 .. i - 1 : Reaches(q[m], q[i].at)
  BY DEF Chained
<1> QED BY <1>1, <1>2

\* So does taking the first page, once its end is reached.
LEMMA ChainedTail ==
  ASSUME NEW q \in Seq(Located), q # <<>>, NEW e \in Nat, NEW f \in Nat, e <= f,
         q[1].at + q[1].len <= f, Chained(q, e)
  PROVE  Chained(Tail(q), f)
<1> DEFINE t == Tail(q)
<1>1. /\ Len(q) \in Nat /\ DOMAIN q = 1 .. Len(q)
      /\ \A i \in 1 .. Len(q) : q[i].at \in Nat /\ q[i].len \in Nat
  BY ListFacts
<1>2. /\ Len(t) = Len(q) - 1 /\ t \in Seq(Located)
      /\ \A i \in 1 .. Len(t) : t[i] = q[i + 1]
  BY HeadTailProperties
<1>3. DOMAIN t = 1 .. Len(t)
  BY <1>2, LenProperties
<1> HIDE DEF t
<1> SUFFICES ASSUME NEW j \in DOMAIN t, NEW i \in 1 .. j - 1, t[i].at > t[j].at
             PROVE  \/ t[i].at <= f
                    \/ \E m \in 1 .. i - 1 : Reaches(t[m], t[i].at)
  BY DEF Chained, t
<1>4. /\ i \in 1 .. Len(t) /\ t[i] = q[i + 1] /\ t[j] = q[j + 1]
      /\ j + 1 \in DOMAIN q /\ i + 1 \in 1 .. (j + 1) - 1 /\ i + 1 \in 1 .. Len(q)
  BY <1>1, <1>2, <1>3, SMTT(30)
<1>5. \/ q[i + 1].at <= e
      \/ \E m \in 1 .. (i + 1) - 1 : Reaches(q[m], q[i + 1].at)
  BY <1>4 DEF Chained
<1>6. CASE q[i + 1].at <= e
  BY <1>1, <1>4, <1>6
<1>7. ASSUME NEW m \in 1 .. (i + 1) - 1, Reaches(q[m], q[i + 1].at)
      PROVE  t[i].at <= f \/ \E n \in 1 .. i - 1 : Reaches(t[n], t[i].at)
  <2>1. CASE m = 1
    BY <1>1, <1>4, <1>7, <2>1, SMTT(30) DEF Reaches
  <2>2. CASE m # 1
    <3>1. m - 1 \in 1 .. i - 1 /\ m - 1 \in 1 .. Len(t) /\ (m - 1) + 1 = m
      BY <1>4, <2>2, <1>1, <1>2
    <3>2. t[m - 1] = q[m]
      BY <1>2, <3>1
    <3> QED BY <1>4, <1>7, <3>1, <3>2
  <2> QED BY <2>1, <2>2
<1> QED BY <1>5, <1>6, <1>7

\* The pages of a list r made by inserting run behind page i of q.
Pushed(r, q, run, i) ==
  \A x \in 1 .. Len(q) + Len(run) :
    r[x] = IF x <= i THEN q[x]
           ELSE IF x <= i + Len(run) THEN run[x - i]
           ELSE q[x - Len(run)]

\* The pages of pushBetween, by their place in the list.
LEMMA pushBetweenElements ==
  ASSUME NEW S, NEW q \in Seq(S), NEW run \in Seq(S), NEW i \in 0 .. Len(q)
  PROVE  Pushed(pushBetween(q, i, run), q, run, i)
<1> DEFINE a == SubSeq(q, 1, i)
           b == SubSeq(q, i + 1, Len(q))
<1>1. Len(q) \in Nat /\ Len(run) \in Nat
  BY LenProperties
<1>2. a \in Seq(S) /\ Len(a) = i /\ \A x \in 1 .. i : a[x] = q[x]
  <2>1. \A j \in 1 .. i : q[j] \in S
    BY <1>1, ElementOfSeq
  <2> QED BY <1>1, <2>1, SubSeqProperties
<1>3. b \in Seq(S) /\ Len(b) = Len(q) - i /\ \A x \in 1 .. Len(q) - i : b[x] = q[i + x]
  <2>1. \A j \in i + 1 .. Len(q) : q[j] \in S
    BY <1>1, ElementOfSeq
  <2>2. /\ b \in Seq(S) /\ Len(b) = (IF i + 1 <= Len(q) THEN Len(q) - (i + 1) + 1 ELSE 0)
        /\ \A x \in 1 .. Len(q) - (i + 1) + 1 : b[x] = q[(i + 1) + x - 1]
    BY <1>1, <2>1, SubSeqProperties
  <2> HIDE DEF b
  <2>3. ASSUME NEW x \in 1 .. Len(q) - i PROVE b[x] = q[i + x]
    <3>1. x \in 1 .. Len(q) - (i + 1) + 1 /\ (i + 1) + x - 1 = i + x
      BY <1>1
    <3> QED BY <2>2, <3>1
  <2> QED BY <1>1, <2>2, <2>3
<1> HIDE DEF a, b
<1> DEFINE c == a \o run
<1>4. /\ c \in Seq(S) /\ Len(c) = i + Len(run)
      /\ \A x \in 1 .. Len(a) + Len(run) : c[x] = IF x <= Len(a) THEN a[x] ELSE run[x - Len(a)]
  BY <1>2, ConcatProperties
<1> HIDE DEF c
<1>5. \A x \in 1 .. Len(c) + Len(b) : (c \o b)[x] = IF x <= Len(c) THEN c[x] ELSE b[x - Len(c)]
  BY <1>3, <1>4, ConcatProperties
<1>6. pushBetween(q, i, run) = c \o b
  BY DEF pushBetween, a, b, c
<1> SUFFICES ASSUME NEW x \in 1 .. Len(q) + Len(run)
             PROVE  (c \o b)[x] = IF x <= i THEN q[x]
                                  ELSE IF x <= i + Len(run) THEN run[x - i]
                                  ELSE q[x - Len(run)]
  BY <1>6 DEF Pushed
<1> DEFINE r == (c \o b)[x]
<1>7. r = IF x <= i + Len(run) THEN c[x] ELSE b[x - (i + Len(run))]
  <2>1. x \in 1 .. Len(c) + Len(b)
    BY <1>1, <1>3, <1>4
  <2> QED BY <1>4, <1>5, <2>1
<1> HIDE DEF r
<1>8. CASE x <= i
  <2>1. x \in 1 .. i /\ x <= i + Len(run) /\ x \in 1 .. Len(a) + Len(run)
    BY <1>1, <1>2, <1>8
  <2> QED BY <1>2, <1>4, <1>7, <1>8, <2>1 DEF r
<1>9. CASE ~ (x <= i) /\ x <= i + Len(run)
  <2>1. x \in 1 .. Len(a) + Len(run)
    BY <1>1, <1>2, <1>9
  <2> QED BY <1>2, <1>4, <1>7, <1>9, <2>1 DEF r
<1>10. CASE ~ (x <= i) /\ ~ (x <= i + Len(run))
  <2>1. x - (i + Len(run)) \in 1 .. Len(q) - i /\ i + (x - (i + Len(run))) = x - Len(run)
    BY <1>1, <1>10
  <2>2. b[x - (i + Len(run))] = q[x - Len(run)]
    BY <1>3, <2>1
  <2> QED BY <1>7, <1>10, <2>2 DEF r
<1> QED BY <1>8, <1>9, <1>10

\* The pages of a segment begin at its position, each where the one before it
\* ends.
LEMMA RunPositions ==
  ASSUME NoRollOver, NEW p \in Packets, NEW h \in Cache, NEW ts \in Nat
  PROVE  LET run == pagesFromTCP(p, h, ts)
         IN  /\ run \in Seq(Located) /\ Len(run) = PagesOf(p) /\ Len(run) \in Nat /\ Len(run) >= 1
             /\ run[1].at = p.pos
             /\ \A x \in 1 .. Len(run) : run[x].at >= p.pos
             /\ \A x \in 1 .. Len(run) : \A y \in 1 .. x - 1 : run[y].at <= run[x].at
             /\ \A x \in 2 .. Len(run) : run[x - 1].at + run[x - 1].len = run[x].at
<1> DEFINE run == pagesFromTCP(p, h, ts)
           n   == PagesOf(p)
           o(x) == (x - 1) * PageBytes
<1>1. /\ run \in Seq(Located) /\ Len(run) = n
      /\ n \in Nat /\ n >= 1 /\ PageBytes \in Nat /\ p.pos \in Nat
  BY HoldsLocated, pagesFromTCPType, PagesOfProperties, AssemblyAssumption, PacketsAssumption
     DEF Holds, Segment
<1>2. ASSUME NEW x \in 1 .. n
      PROVE  /\ run[x].at = p.pos + o(x)
             /\ x < n => run[x].len = PageBytes
  <2> DEFINE l == IF x < n THEN PageBytes ELSE p.len - (n - 1) * PageBytes
  <2>1. run[x] = [seq  |-> Add(seqOf(p), o(x)), at   |-> p.pos + o(x), len  |-> l,
                  skip |-> TakenPage(h, n, x).skip,
                  end  |-> IF x = n THEN p.fin ELSE TakenPage(h, n, x).end,
                  seen |-> ts]
    BY Zenon DEF pagesFromTCP
  <2>2. x < n => l = PageBytes
    OBVIOUS
  <2> HIDE DEF run, o, l
  <2> QED BY <2>1, <2>2
<1>3. \A x \in 1 .. n : o(x) \in Nat
  BY <1>1
<1>4. o(1) = 0
  BY <1>1
<1>5. ASSUME NEW x \in 2 .. n PROVE o(x - 1) + PageBytes = o(x)
  BY <1>1
<1>6. ASSUME NEW x \in 1 .. n, NEW y \in 1 .. x - 1 PROVE o(y) <= o(x)
  <2>1. x - y \in Nat /\ (x - y) * PageBytes \in Nat
    BY <1>1
  <2>2. o(x) = o(y) + (x - y) * PageBytes
    BY <1>1
  <2>3. o(y) \in Nat
    BY <1>1, <1>3
  <2> HIDE DEF o
  <2> QED BY <2>1, <2>2, <2>3
<1> HIDE DEF o, run
<1>7. run[1].at = p.pos
  BY <1>1, <1>2, <1>4
<1>8. \A x \in 1 .. n : run[x].at >= p.pos
  BY <1>1, <1>2, <1>3
<1>9. ASSUME NEW x \in 1 .. n, NEW y \in 1 .. x - 1 PROVE run[y].at <= run[x].at
  <2>1. y \in 1 .. n /\ o(y) <= o(x) /\ o(y) \in Nat /\ o(x) \in Nat
    BY <1>1, <1>3, <1>6
  <2> QED BY <1>1, <1>2, <2>1
<1>10. ASSUME NEW x \in 2 .. n PROVE run[x - 1].at + run[x - 1].len = run[x].at
  <2>1. x \in 1 .. n /\ x - 1 \in 1 .. n /\ x - 1 < n
    BY <1>1
  <2>2. o(x - 1) \in Nat /\ o(x) \in Nat /\ o(x - 1) + PageBytes = o(x)
    BY <1>3, <1>5, <2>1
  <2>3. run[x - 1].at = p.pos + o(x - 1) /\ run[x - 1].len = PageBytes /\ run[x].at = p.pos + o(x)
    BY <1>2, <2>1
  <2> QED BY <1>1, <2>2, <2>3
<1> QED BY <1>1, <1>7, <1>8, <1>9, <1>10 DEF run

\* traverseConn finds the last page that does not start after the segment.
LEMMA traverseConnPosition ==
  ASSUME NEW q \in Seq(Located), NEW s \in Nat, s <= Top
  PROVE  LET i == traverseConn(q, Isn + s)
         IN  /\ i \in 0 .. Len(q)
             /\ i # 0 => q[i].at <= s
             /\ \A j \in i + 1 .. Len(q) : q[j].at > s
<1> DEFINE before == {i \in DOMAIN q : Difference(q[i].seq, Isn + s) >= 0}
           i == traverseConn(q, Isn + s)
<1>1. /\ Len(q) \in Nat /\ DOMAIN q = 1 .. Len(q)
      /\ \A j \in 1 .. Len(q) : q[j].at \in Nat /\ q[j].at <= Top /\ q[j].seq = Isn + q[j].at
  BY ListFacts
<1>2. ASSUME NEW j \in 1 .. Len(q) PROVE Difference(q[j].seq, Isn + s) = s - q[j].at
  <2>1. /\ Isn + q[j].at \in Int /\ Isn + q[j].at <= uint32Max - Quarter
        /\ Isn + s \in Int /\ Isn + s <= uint32Max - Quarter
    BY <1>1, TopType
  <2>2. Difference(Isn + q[j].at, Isn + s) = (Isn + s) - (Isn + q[j].at)
    BY <2>1, DifferenceExact
  <2>3. (Isn + s) - (Isn + q[j].at) = s - q[j].at
    BY <1>1, TopType
  <2> QED BY <1>1, <2>2, <2>3
<1>3. \A j \in 1 .. Len(q) : j \in before <=> q[j].at <= s
  BY <1>1, <1>2
<1>4. before \in SUBSET (1 .. Len(q))
  BY <1>1
<1>5. /\ before = {} => i = 0
      /\ before # {} => i \in before /\ \A j \in before : j <= i
  <2>1. before = {} => i = 0
    BY DEF traverseConn
  <2>2. before # {} => i = CHOOSE m \in before : \A j \in before : j <= m
    BY DEF traverseConn
  <2> HIDE DEF before, i
  <2> QED BY <1>1, <1>4, <2>1, <2>2, LastExists
<1> HIDE DEF before, i
<1>6. CASE before = {}
  BY <1>1, <1>3, <1>5, <1>6 DEF i
<1>7. CASE before # {}
  <2>1. i \in 1 .. Len(q) /\ q[i].at <= s
    BY <1>3, <1>4, <1>5, <1>7
  <2>2. ASSUME NEW j \in i + 1 .. Len(q) PROVE q[j].at > s
    <3>1. j \in 1 .. Len(q) /\ ~ (j <= i)
      BY <1>1, <2>1
    <3>2. ~ (q[j].at <= s)
      BY <1>3, <1>5, <1>7, <3>1
    <3> QED BY <1>1, <3>1, <3>2
  <2> QED BY <1>1, <2>1, <2>2 DEF i
<1> QED BY <1>6, <1>7

\* What an inserted list is made of: pages that start before or at s, the run
\* from s on, and pages that start after s.
Spliced(r, q, run, i, s) ==
  /\ Len(r) = Len(q) + Len(run)
  /\ \A x \in 1 .. i : r[x] = q[x]
  /\ \A x \in 1 .. Len(run) : r[i + x] = run[x]
  /\ \A x \in i + 1 .. Len(q) : r[x + Len(run)] = q[x] /\ q[x].at > s
  /\ i # 0 => q[i].at <= s

RunAt(run, s) ==
  /\ Len(run) >= 1
  /\ run[1].at = s
  /\ \A x \in 1 .. Len(run) : run[x].at >= s
  /\ \A x \in 1 .. Len(run) : \A y \in 1 .. x - 1 : run[y].at <= run[x].at
  /\ \A x \in 2 .. Len(run) : Reaches(run[x - 1], run[x].at)

\* Inserting the pages of a segment keeps a list chained, and not due if the
\* segment is not.
LEMMA ChainedInsert ==
  ASSUME NEW q \in Seq(Located), NEW run \in Seq(Located), NEW r \in Seq(Located),
         NEW e \in Nat, NEW s \in Nat, NEW i \in 0 .. Len(q),
         Chained(q, e), RunAt(run, s), Spliced(r, q, run, i, s)
  PROVE  /\ Chained(r, e)
         /\ NoneDue(q, e) /\ s > e => NoneDue(r, e)
<1> DEFINE n == Len(run)
<1>1. /\ Len(q) \in Nat /\ DOMAIN q = 1 .. Len(q) /\ n \in Nat /\ n >= 1
      /\ DOMAIN r = 1 .. Len(q) + n /\ DOMAIN run = 1 .. n
      /\ \A x \in 1 .. Len(q) : q[x].at \in Nat
      /\ \A x \in 1 .. n : run[x].at \in Nat
      /\ \A x \in 1 .. Len(q) + n : r[x].at \in Nat
  BY ListFacts DEF RunAt, Spliced
<1>2. /\ \A x \in 1 .. i : r[x] = q[x]
      /\ \A x \in 1 .. n : r[i + x] = run[x]
      /\ \A x \in i + 1 .. Len(q) : r[x + n] = q[x] /\ q[x].at > s
      /\ i # 0 => q[i].at <= s
  BY DEF Spliced
<1>3. /\ run[1].at = s
      /\ \A x \in 1 .. n : run[x].at >= s
      /\ \A x \in 1 .. n : \A y \in 1 .. x - 1 : run[y].at <= run[x].at
      /\ \A x \in 2 .. n : Reaches(run[x - 1], run[x].at)
  BY DEF RunAt
<1> HIDE DEF n
\* The places of the list are those of the run and of the list before.
<1>4. ASSUME NEW x \in 1 .. Len(q) + n
      PROVE  \/ x \in 1 .. i /\ x \in 1 .. Len(q) /\ r[x] = q[x]
             \/ \E y \in 1 .. n : x = i + y /\ r[x] = run[y]
             \/ \E y \in i + 1 .. Len(q) : x = y + n /\ r[x] = q[y] /\ q[y].at > s
  <2>1. CASE x <= i
    BY <1>1, <1>2, <2>1
  <2>2. CASE x > i /\ x <= i + n
    <3>1. x - i \in 1 .. n /\ i + (x - i) = x
      BY <1>1, <2>2
    <3> QED BY <1>2, <3>1
  <2>3. CASE x > i + n
    <3>1. x - n \in i + 1 .. Len(q) /\ (x - n) + n = x
      BY <1>1, <2>3
    <3> QED BY <1>2, <3>1
  <2> QED BY <1>1, <2>1, <2>2, <2>3
<1>5. Chained(r, e)
  <2> SUFFICES ASSUME NEW b \in 1 .. Len(q) + n, NEW a \in 1 .. b - 1, r[a].at > r[b].at
               PROVE  \/ r[a].at <= e
                      \/ \E m \in 1 .. a - 1 : Reaches(r[m], r[a].at)
    BY <1>1 DEF Chained
  <2>0. a \in 1 .. Len(q) + n /\ r[a].at \in Nat /\ r[b].at \in Nat
    BY <1>1
  \* a page of the old list before a later one, that both start as before
  <2>1. ASSUME NEW y \in 1 .. Len(q), NEW x \in 1 .. y - 1, q[x].at > q[y].at
        PROVE  \/ q[x].at <= e
               \/ \E m \in 1 .. x - 1 : Reaches(q[m], q[x].at)
    BY <1>1, <2>1 DEF Chained
  <2>2. CASE a \in 1 .. i /\ a \in 1 .. Len(q) /\ r[a] = q[a]
    <3>1. \E y \in 1 .. Len(q) : a \in 1 .. y - 1 /\ q[a].at > q[y].at
      <4>1. CASE b \in 1 .. i /\ b \in 1 .. Len(q) /\ r[b] = q[b]
        BY <2>2, <4>1
      <4>2. ASSUME NEW y \in 1 .. n, b = i + y, r[b] = run[y]
            PROVE  \E z \in 1 .. Len(q) : a \in 1 .. z - 1 /\ q[a].at > q[z].at
        <5>1. i # 0 /\ i \in 1 .. Len(q) /\ q[i].at <= s /\ run[y].at >= s
          BY <1>1, <1>2, <1>3, <2>2
        <5>2. q[a].at > q[i].at
          BY <1>1, <2>0, <2>2, <4>2, <5>1, SMTT(30)
        <5>3. a # i
          BY <1>1, <5>1, <5>2
        <5> QED BY <1>1, <2>2, <5>1, <5>2, <5>3
      <4>3. ASSUME NEW y \in i + 1 .. Len(q), b = y + n, r[b] = q[y]
            PROVE  \E z \in 1 .. Len(q) : a \in 1 .. z - 1 /\ q[a].at > q[z].at
        BY <1>1, <2>2, <4>3
      <4> QED BY <1>4, <4>1, <4>2, <4>3
    <3>2. \/ q[a].at <= e
          \/ \E m \in 1 .. a - 1 : Reaches(q[m], q[a].at)
      BY <2>1, <3>1
    <3>3. \A m \in 1 .. a - 1 : r[m] = q[m]
      <4>1. \A m \in 1 .. a - 1 : m \in 1 .. i
        BY <1>1, <2>2
      <4> QED BY <1>2, <4>1
    <3> QED BY <2>2, <3>2, <3>3
  <2>3. ASSUME NEW x \in 1 .. n, a = i + x, r[a] = run[x]
        PROVE  \E m \in 1 .. a - 1 : Reaches(r[m], r[a].at)
    <3>1. x # 1
      <4>1. CASE b \in 1 .. i
        BY <1>1, <2>3, <4>1
      <4>2. ASSUME NEW y \in 1 .. n, b = i + y, r[b] = run[y] PROVE FALSE
        <5>1. x \in 1 .. y - 1
          BY <1>1, <2>3, <4>2
        <5>2. run[x].at <= run[y].at
          BY <1>3, <5>1
        <5> QED BY <1>1, <2>3, <4>2, <5>2, SMTT(30)
      <4>3. ASSUME NEW y \in i + 1 .. Len(q), r[b] = q[y], q[y].at > s PROVE x # 1
        BY <1>1, <1>3, <2>3, <4>3
      <4> QED BY <1>4, <4>1, <4>2, <4>3
    <3>2. x \in 2 .. n /\ x - 1 \in 1 .. n /\ i + (x - 1) \in 1 .. a - 1
      BY <1>1, <2>3, <3>1
    <3>3. r[i + (x - 1)] = run[x - 1]
      BY <1>2, <3>2
    <3> QED BY <1>3, <2>3, <3>2, <3>3
  <2>4. ASSUME NEW x \in i + 1 .. Len(q), a = x + n, r[a] = q[x]
        PROVE  \/ r[a].at <= e
               \/ \E m \in 1 .. a - 1 : Reaches(r[m], r[a].at)
    <3>1. PICK y \in i + 1 .. Len(q) : b = y + n /\ r[b] = q[y]
      <4>1. ~ (b \in 1 .. i)
        BY <1>1, <2>4
      <4>2. ~ \E y \in 1 .. n : b = i + y
        BY <1>1, <2>4
      <4> QED BY <1>4, <4>1, <4>2
    <3>2. y \in 1 .. Len(q) /\ x \in 1 .. y - 1 /\ q[x].at > q[y].at
      BY <1>1, <2>4, <3>1
    <3>3. \/ q[x].at <= e
          \/ \E m \in 1 .. x - 1 : Reaches(q[m], q[x].at)
      BY <2>1, <3>2
    <3>4. ASSUME NEW m \in 1 .. x - 1, Reaches(q[m], q[x].at)
          PROVE  \E k \in 1 .. a - 1 : Reaches(r[k], r[a].at)
      <4>1. CASE m <= i
        <5>1. m \in 1 .. i /\ m \in 1 .. a - 1
          BY <1>1, <2>4, <4>1
        <5> QED BY <1>2, <2>4, <3>4, <5>1
      <4>2. CASE ~ (m <= i)
        <5>1. m \in i + 1 .. Len(q) /\ m + n \in 1 .. a - 1
          BY <1>1, <2>4, <4>2
        <5> QED BY <1>2, <2>4, <3>4, <5>1
      <4> QED BY <4>1, <4>2
    <3> QED BY <2>4, <3>3, <3>4
  <2> QED BY <1>4, <2>0, <2>2, <2>3, <2>4
<1>6. ASSUME NoneDue(q, e), s > e PROVE NoneDue(r, e)
  <2> SUFFICES ASSUME NEW x \in 1 .. Len(q) + n PROVE r[x].at > e
    BY <1>1 DEF NoneDue
  <2>1. \A y \in 1 .. Len(q) : q[y].at > e
    BY <1>1, <1>6 DEF NoneDue
  <2>2. CASE x \in 1 .. Len(q) /\ r[x] = q[x]
    BY <2>1, <2>2
  <2>3. ASSUME NEW y \in 1 .. n, r[x] = run[y] PROVE r[x].at > e
    BY <1>1, <1>3, <1>6, <2>3
  <2>4. ASSUME NEW y \in i + 1 .. Len(q), r[x] = q[y] PROVE r[x].at > e
    BY <1>1, <2>1, <2>4
  <2> QED BY <1>4, <2>2, <2>3, <2>4
<1> QED BY <1>5, <1>6

\* The same of a connection, at the byte it expects.
Waits(c) == Chained(c.list, Expected(c))

NotDue(c) == NoneDue(c.list, Expected(c))

At(c, e) == e <= Top /\ c.nextSeq = Isn + e

\* addNextFromConn takes a page and expects a byte behind it.
LEMMA PopWaits ==
  ASSUME NEW w \in Work(Located), w.conn.list # <<>>,
         NEW e \in Nat, At(w.conn, e), Chained(w.conn.list, e)
  PROVE  \E f \in Nat : At(addNextFromConn(w).conn, f) /\ Chained(addNextFromConn(w).conn.list, f)
<1> DEFINE v == addNextFromConn(w)
           g == Head(w.conn.list)
           span == HeadSpan(w)
<1>0. Located \in SUBSET Page /\ w.conn \in Conn(Located)
  BY DEF Located, Work
<1>1. w.conn.list \in Seq(Located)
  BY <1>0, ConnFields
<1>2. g \in Located /\ v.conn.nextSeq = span.next /\ v.conn.list = Tail(w.conn.list)
  BY <1>0, addNextFromConnType
<1>3. g = w.conn.list[1]
  OBVIOUS
<1>4. g.at \in Nat /\ g.len \in Nat /\ g.seq = Isn + g.at /\ g.at + g.len <= Top
  BY <1>2 DEF Located, Page
<1>5. span = byteSpan(Isn + e, Isn + g.at, g.len)
  BY <1>4 DEF HeadSpan, At
<1> HIDE DEF v, g, span
<1> DEFINE f == g.at + span.cut + span.len
<1>6. /\ g.at + span.cut >= e /\ f <= Top
      /\ span.cut \in Nat /\ span.len \in Nat
      /\ span.next = Isn + f
      /\ span.cut + span.len >= g.len
  BY <1>4, <1>5, SpanPosition DEF At
<1>7. f \in Nat /\ e <= f /\ g.at + g.len <= f
  BY <1>4, <1>6
<1> HIDE DEF f
<1>8. Chained(Tail(w.conn.list), f)
  BY <1>1, <1>3, <1>7, ChainedTail
<1>9. At(v.conn, f) /\ Chained(v.conn.list, f)
  BY <1>2, <1>6, <1>8 DEF At
<1> QED BY <1>7, <1>9 DEF v

\* insertIntoConn keeps the list chained; if it sends nothing and the segment
\* is beyond the expected byte, nothing becomes due.
LEMMA InsertWaits ==
  ASSUME NoRollOver, NEW p \in Packets, NEW ts \in Nat,
         NEW c \in Conn(Located), NEW h \in Cache, NEW b \in Seq(ChunkType),
         NEW e \in Nat, At(c, e), Chained(c.list, e)
  PROVE  LET w == insertIntoConn([conn |-> c, cache |-> h, ret |-> b], p, ts)
         IN  \E f \in Nat :
               /\ At(w.conn, f) /\ Chained(w.conn.list, f)
               /\ w.ret = b /\ NoneDue(c.list, e) /\ p.pos > e => NoneDue(w.conn.list, f)
<1> DEFINE v == [conn |-> c, cache |-> h, ret |-> b]
           w == insertIntoConn(v, p, ts)
           run == pagesFromTCP(p, v.cache, ts)
           i == traverseConn(v.conn.list, seqOf(p))
<1>0. Located \in SUBSET Page
  BY DEF Located
<1>1. v \in Work(Located) /\ v.conn = c /\ v.cache = h /\ v.ret = b
  BY DEF Work
<1> HIDE DEF v
<1>2. pagesFromTCP(p, v.cache, ts) \in Seq(Located)
  BY <1>1, HoldsLocated DEF Holds
<1>3. PICK put \in Work(Located) :
           /\ put.ret = b
           /\ put.conn.nextSeq = c.nextSeq
           /\ put.conn.list # <<>>
           /\ put.conn.list = pushBetween(c.list, i, run)
           /\ w \in {put, addNextFromConn(put)}
  BY <1>0, <1>1, <1>2, insertIntoConnType
<1> SUFFICES \E f \in Nat :
               /\ At(w.conn, f) /\ Chained(w.conn.list, f)
               /\ w.ret = b /\ NoneDue(c.list, e) /\ p.pos > e => NoneDue(w.conn.list, f)
  BY Zenon DEF v
<1> HIDE DEF w
<1>4. /\ c.list \in Seq(Located) /\ put.conn \in Conn(Located) /\ put.conn.list \in Seq(Located)
      /\ put.ret \in Seq(ChunkType)
  <2>1. put.conn \in Conn(Located) /\ put.ret \in Seq(ChunkType)
    BY DEF Work
  <2> QED BY <2>1, ConnFields
<1>5. seqOf(p) = Isn + p.pos /\ p.pos \in Nat /\ p.pos <= Top
  <2>1. p.len \in Nat /\ p.pos \in Nat /\ p.pos + p.len + 1 <= Top /\ seqOf(p) = Isn + p.pos
    BY seqOfExact
  <2> QED BY <2>1, TopType
<1>6. /\ i \in 0 .. Len(c.list)
      /\ i # 0 => c.list[i].at <= p.pos
      /\ \A j \in i + 1 .. Len(c.list) : c.list[j].at > p.pos
  BY <1>1, <1>4, <1>5, traverseConnPosition
<1>7. /\ run \in Seq(Located) /\ Len(run) \in Nat /\ RunAt(run, p.pos)
  <2>1. /\ run \in Seq(Located) /\ Len(run) \in Nat /\ Len(run) >= 1
        /\ run[1].at = p.pos
        /\ \A x \in 1 .. Len(run) : run[x].at >= p.pos
        /\ \A x \in 1 .. Len(run) : \A y \in 1 .. x - 1 : run[y].at <= run[x].at
        /\ \A x \in 2 .. Len(run) : run[x - 1].at + run[x - 1].len = run[x].at
    BY <1>1, RunPositions
  <2> HIDE DEF run
  <2>2. \A x \in 1 .. Len(run) : run[x].at \in Nat
    BY <2>1, ListFacts
  <2>3. ASSUME NEW x \in 2 .. Len(run) PROVE Reaches(run[x - 1], run[x].at)
    <3>1. x \in 1 .. Len(run)
      BY <2>1
    <3> QED BY <2>1, <2>2, <3>1 DEF Reaches
  <2> QED BY <2>1, <2>3 DEF RunAt
<1> HIDE DEF i, run
<1>8. Spliced(put.conn.list, c.list, run, i, p.pos)
  <2>0. /\ Len(c.list) \in Nat
        /\ Len(put.conn.list) = Len(c.list) + Len(run)
        /\ Pushed(put.conn.list, c.list, run, i)
    <3>1. Len(c.list) \in Nat
      BY <1>4, LenProperties
    <3>2. Len(pushBetween(c.list, i, run)) = Len(c.list) + Len(run)
      BY <1>4, <1>6, <1>7, pushBetweenType
    <3>3. Pushed(pushBetween(c.list, i, run), c.list, run, i)
      BY <1>4, <1>6, <1>7, pushBetweenElements
    <3> QED BY <1>3, <3>1, <3>2, <3>3, Zenon
  <2>1. /\ Len(c.list) \in Nat
        /\ \A x \in 1 .. Len(c.list) + Len(run) :
             put.conn.list[x] = IF x <= i THEN c.list[x]
                                ELSE IF x <= i + Len(run) THEN run[x - i]
                                ELSE c.list[x - Len(run)]
    BY <2>0, Zenon DEF Pushed
  <2>2. ASSUME NEW x \in 1 .. i PROVE put.conn.list[x] = c.list[x]
    <3>1. x \in 1 .. Len(c.list) + Len(run) /\ x <= i
      BY <1>6, <1>7, <2>1
    <3> QED BY <2>1, <3>1
  <2>3. ASSUME NEW x \in 1 .. Len(run) PROVE put.conn.list[i + x] = run[x]
    <3>1. i + x \in 1 .. Len(c.list) + Len(run) /\ ~ (i + x <= i) /\ i + x <= i + Len(run)
          /\ (i + x) - i = x
      BY <1>6, <1>7, <2>1
    <3> QED BY <2>1, <3>1
  <2>4. ASSUME NEW x \in i + 1 .. Len(c.list)
        PROVE  put.conn.list[x + Len(run)] = c.list[x]
    <3>1. x + Len(run) \in 1 .. Len(c.list) + Len(run) /\ ~ (x + Len(run) <= i)
          /\ ~ (x + Len(run) <= i + Len(run)) /\ (x + Len(run)) - Len(run) = x
      BY <1>6, <1>7, <2>1
    <3> QED BY <2>1, <3>1
  <2> QED BY <1>6, <2>0, <2>2, <2>3, <2>4 DEF Spliced
<1>9. /\ Chained(put.conn.list, e)
      /\ NoneDue(c.list, e) /\ p.pos > e => NoneDue(put.conn.list, e)
  BY <1>4, <1>5, <1>6, <1>7, <1>8, ChainedInsert
<1>10. At(put.conn, e)
  BY <1>3 DEF At
<1>11. CASE w = put
  BY <1>9, <1>10, <1>11
<1>12. CASE w = addNextFromConn(put)
  <2>1. PICK f \in Nat : At(w.conn, f) /\ Chained(w.conn.list, f)
    BY <1>3, <1>9, <1>10, <1>12, PopWaits
  <2>2. w.ret # b
    <3>1. PICK x : w.ret = Append(b, x)
      BY <1>0, <1>3, <1>12, addNextFromConnType
    <3>2. Len(w.ret) = Len(b) + 1 /\ Len(b) \in Nat
      BY <3>1, LenProperties
    <3> QED BY <3>2
  <2> QED BY <2>1, <2>2
<1> QED BY <1>3, <1>11, <1>12

\* The inductive invariant: no insertion panicked, every list is chained, and
\* only the connection that is being sent from may hold a page that is due.
DueInv ==
  /\ Delivered
  /\ phase # "panic"
  /\ \A k \in Keys : Waits(conns[k])
  /\ \A k \in Keys : (phase = "gather" /\ k = key) \/ NotDue(conns[k])

\* The position of an open connection.
LEMMA OpenPosition ==
  ASSUME Delivered, phase # "panic", NEW k \in Keys, conns[k].open
  PROVE  /\ Expected(conns[k]) \in Nat /\ At(conns[k], Expected(conns[k]))
         /\ conns[k] \in Conn(Located) /\ conns[k].list \in Seq(Located)
<1>1. PICK e \in Nat : e <= Top /\ conns[k].nextSeq = Isn + e
  BY DEF Delivered, Sent
<1>2. Expected(conns[k]) = e
  BY <1>1, TopType DEF Expected
<1>3. conns[k] \in Conn(Located) /\ conns[k].list \in Seq(Located)
  BY DeliveredFacts, ConnFields
<1> QED BY <1>1, <1>2, <1>3 DEF At

\* A position is the one that is expected.
LEMMA AtExpected ==
  ASSUME NEW c, NEW f \in Nat, At(c, f)
  PROVE  Expected(c) = f
BY TopType DEF At, Expected

\* A closed connection holds nothing.
LEMMA EmptyWaits ==
  ASSUME NEW c, c.list = <<>>
  PROVE  Waits(c) /\ NotDue(c)
<1>1. DOMAIN c.list = {}
  OBVIOUS
<1> QED BY <1>1 DEF Waits, NotDue, Chained, NoneDue

\* Difference tells whether a position is beyond the expected byte.
LEMMA BeyondExpected ==
  ASSUME NEW e \in Nat, NEW s \in Nat, e <= Top, s <= Top
  PROVE  Difference(Isn + e, Isn + s) = s - e
<1>1. /\ Isn + e \in Int /\ Isn + e <= uint32Max - Quarter
      /\ Isn + s \in Int /\ Isn + s <= uint32Max - Quarter
  BY TopType
<1>2. Difference(Isn + e, Isn + s) = (Isn + s) - (Isn + e)
  BY <1>1, DifferenceExact
<1> QED BY <1>2, TopType

\* The first segment of a connection.
LEMMA FirstWaits ==
  ASSUME NoRollOver, DueInv, NEW k \in Keys, NEW p \in Packets, AssembleFirst(k, p)
  PROVE  /\ Waits(conns'[k]) /\ \A j \in Keys : j # k => conns'[j] = conns[j]
<1> DEFINE n == Add(seqOf(p), p.len + (IF p.syn THEN 1 ELSE 0))
           b == Seen(reset)
           c == [b EXCEPT !.nextSeq = n]
           x == [at |-> p.pos + (IF p.syn THEN 1 ELSE 0), len |-> p.len,
                 skip |-> IF p.syn THEN 0 ELSE -1, start |-> p.syn, end |-> FALSE]
           w == insertIntoConn([conn |-> c, cache |-> cache, ret |-> <<x>>], p, now)
           l == p.len + (IF p.syn THEN 1 ELSE 0)
           e == p.pos + l
<1>0. WellFormed(Located) /\ Located \in SUBSET Page /\ now \in Nat /\ cache \in Cache
  BY DeliveredFacts DEF DueInv
<1>1. /\ seqOf(p) = Isn + p.pos /\ p.syn \in BOOLEAN
      /\ p.pos \in Nat /\ p.len \in Nat /\ p.pos + p.len + 1 <= Top
  BY seqOfExact, PacketsAssumption DEF Segment
<1>2. l \in Nat /\ l <= p.len + 1
  BY <1>1
<1> HIDE DEF l
<1>3. e \in Nat /\ e <= Top /\ Isn + p.pos + l <= uint32Max - Quarter
  BY <1>1, <1>2, TopType
<1>4. n = Isn + e /\ n \in Sequence
  <2>1. Add(Isn + p.pos, l) = Isn + p.pos + l
    BY <1>1, <1>2, <1>3, AddExact
  <2>2. n = Isn + p.pos + l
    BY <1>1, <2>1 DEF l
  <2>3. Isn + p.pos + l \in 0 .. uint32Max
    BY <1>1, <1>2, <1>3, TopType
  <2> HIDE DEF n
  <2> QED BY <1>1, <1>2, <2>2, <2>3, TopType DEF Sequence
<1>5. b \in Conn(Located) /\ b.open /\ b.list = <<>>
  BY <1>0, NoConnectionType, SeenType
<1>6. x \in ChunkType
  BY FirstChunkType
<1>7. Commit(k, w)
  BY Zenon DEF AssembleFirst, b, n, x, c
<1> HIDE DEF b, n, x, e
<1>8. c \in Conn(Located) /\ c.open /\ c.nextSeq = n /\ c.list = <<>>
  BY <1>0, <1>4, <1>5, NextSeqType
<1> HIDE DEF c
<1>9. At(c, e) /\ Chained(c.list, e)
  BY <1>3, <1>4, <1>8, AtExpected, EmptyWaits DEF At, Waits
<1>10. <<x>> \in Seq(ChunkType)
  BY <1>6, SingletonSeq
<1>11. w \in Work(Located) /\ w.conn.open
  BY <1>0, <1>8, <1>10, HoldsLocated, InsertType
<1>12. PICK f \in Nat : At(w.conn, f) /\ Chained(w.conn.list, f)
  BY <1>0, <1>3, <1>8, <1>9, <1>10, InsertWaits
<1> HIDE DEF w
<1>13. conns'[k] = w.conn /\ (\A j \in Keys : j # k => conns'[j] = conns[j])
  BY <1>0, <1>7, <1>11, CommitType
<1> QED BY <1>12, <1>13, AtExpected DEF Waits

\* A segment beyond the expected byte finds no page that is due, so that
\* insertIntoConn does not panic, and leaves none unless it sends.
LEMMA AheadWaits ==
  ASSUME NoRollOver, DueInv, NEW k \in Keys, NEW p \in Packets, AssembleAhead(k, p)
  PROVE  /\ phase' # "panic"
         /\ Waits(conns'[k]) /\ \A j \in Keys : j # k => conns'[j] = conns[j]
         /\ phase' = "gather" \/ NotDue(conns'[k])
<1> DEFINE c == Seen(conns[k])
           w == insertIntoConn([conn |-> c, cache |-> cache, ret |-> <<>>], p, now)
           e == Expected(conns[k])
<1>0. /\ WellFormed(Located) /\ Located \in SUBSET Page /\ now \in Nat /\ cache \in Cache
      /\ <<>> \in Seq(ChunkType) /\ conns[k] \in Conn(Located)
  BY DeliveredFacts DEF DueInv
<1>1. /\ conns[k].open /\ phase = "idle" /\ Commit(k, w)
      /\ Difference(c.nextSeq, seqOf(p)) > 0
      /\ phase' = IF InsertPanics(c) THEN "panic" ELSE IF w.ret = <<>> THEN "idle" ELSE "gather"
  BY Zenon DEF AssembleAhead, Arrives
<1>2. e \in Nat /\ At(conns[k], e) /\ conns[k].list \in Seq(Located)
  BY <1>1, OpenPosition DEF DueInv
<1>3. c \in Conn(Located) /\ c.open /\ c.nextSeq = conns[k].nextSeq /\ c.list = conns[k].list
  BY <1>0, <1>1, SeenType
<1>4. Chained(conns[k].list, e) /\ NoneDue(conns[k].list, e)
  BY <1>1 DEF DueInv, Waits, NotDue
<1> HIDE DEF c, e
<1>5. At(c, e) /\ Chained(c.list, e) /\ NoneDue(c.list, e)
  BY <1>2, <1>3, <1>4 DEF At
<1>6. p.pos > e
  <2>1. p.len \in Nat /\ p.pos \in Nat /\ p.pos + p.len + 1 <= Top /\ seqOf(p) = Isn + p.pos
    BY seqOfExact
  <2>2. p.pos <= Top
    BY <2>1, TopType
  <2>3. Difference(c.nextSeq, seqOf(p)) = p.pos - e
    BY <1>2, <1>5, <2>1, <2>2, BeyondExpected DEF At
  <2> QED BY <1>1, <1>2, <2>1, <2>3
<1>7. ~ InsertPanics(c)
  <2> SUFFICES ASSUME c.list # <<>> PROVE Head(c.list).seq # c.nextSeq
    BY DEF InsertPanics
  <2>1. c.list \in Seq(Located)
    BY <1>3, ConnFields
  <2>2. 1 \in DOMAIN c.list /\ Len(c.list) # 0
    BY <2>1, EmptySeq, ListFacts
  <2>3. c.list[1].at > e /\ c.list[1].seq = Isn + c.list[1].at /\ c.list[1].at \in Nat
    BY <1>5, <2>1, <2>2, ListFacts DEF NoneDue
  <2>4. Head(c.list) = c.list[1]
    OBVIOUS
  <2> QED BY <1>2, <1>5, <2>3, <2>4, TopType DEF At
<1>8. PICK f \in Nat :
         /\ At(w.conn, f) /\ Chained(w.conn.list, f)
         /\ w.ret = <<>> /\ NoneDue(c.list, e) /\ p.pos > e => NoneDue(w.conn.list, f)
  BY <1>0, <1>2, <1>3, <1>5, InsertWaits
<1>9. w \in Work(Located) /\ w.conn.open
  BY <1>0, <1>3, HoldsLocated, InsertType
<1> HIDE DEF w
<1>10. conns'[k] = w.conn /\ (\A j \in Keys : j # k => conns'[j] = conns[j])
  BY <1>0, <1>1, <1>9, CommitType
<1> QED BY <1>1, <1>5, <1>6, <1>7, <1>8, <1>10, AtExpected DEF Waits, NotDue

\* A segment that is due moves the expected byte on.
LEMMA DueWaits ==
  ASSUME NoRollOver, DueInv, NEW k \in Keys, NEW p \in Packets, AssembleDue(k, p)
  PROVE  Waits(conns'[k]) /\ \A j \in Keys : j # k => conns'[j] = conns[j]
<1> DEFINE c == Seen(conns[k])
           span == byteSpan(c.nextSeq, seqOf(p), p.len)
           d == [c EXCEPT !.nextSeq = span.next]
           e == Expected(conns[k])
<1>0. /\ Located \in SUBSET Page /\ now \in Nat /\ conns[k] \in Conn(Located)
  BY DeliveredFacts DEF DueInv
<1>1. /\ conns[k].open /\ phase = "idle"
      /\ conns'[k] = d /\ \A j \in Keys : j # k => conns'[j] = conns[j]
  <2>1. conns[k].open /\ phase = "idle"
    BY DEF AssembleDue, Arrives
  <2>2. conns' = [conns EXCEPT ![k] = d]
    BY DEF AssembleDue, Commit
  <2>3. conns \in [Keys -> Conn(Located)]
    BY DEF DueInv, Delivered, WellFormed
  <2> HIDE DEF d
  <2> QED BY <2>1, <2>2, <2>3
<1>2. e \in Nat /\ At(conns[k], e) /\ conns[k].list \in Seq(Located)
  BY <1>1, OpenPosition DEF DueInv
<1>3. Chained(conns[k].list, e)
  BY DEF DueInv, Waits
<1>4. c \in Conn(Located) /\ c.nextSeq = Isn + e /\ c.list = conns[k].list
  BY <1>0, <1>1, <1>2, SeenType DEF At
<1>5. /\ seqOf(p) = Isn + p.pos /\ p.pos \in Nat /\ p.len \in Nat /\ p.pos + p.len <= Top
  <2>1. p.len \in Nat /\ p.pos \in Nat /\ p.pos + p.len + 1 <= Top /\ seqOf(p) = Isn + p.pos
    BY seqOfExact
  <2> QED BY <2>1, TopType
<1> HIDE DEF c, e
<1>6. span = byteSpan(Isn + e, Isn + p.pos, p.len)
  BY <1>4, <1>5
<1>7. span \in [cut : Nat, len : Nat, next : Sequence]
  BY <1>4, <1>5, <1>0, ConnFields, seqOfType, byteSpanType
<1> HIDE DEF span
<1> DEFINE f == p.pos + span.cut + span.len
<1>8. /\ p.pos + span.cut >= e /\ f <= Top /\ span.cut \in Nat /\ span.len \in Nat
      /\ span.next = Isn + f
  BY <1>2, <1>5, <1>6, SpanPosition DEF At
<1>9. f \in Nat /\ e <= f
  BY <1>2, <1>5, <1>8
<1>10. d.nextSeq = span.next /\ d.list = conns[k].list
  BY <1>0, <1>4, <1>7, NextSeqType
<1> HIDE DEF f, d
<1>11. Chained(d.list, f) /\ Expected(d) = f
  BY <1>2, <1>3, <1>8, <1>9, <1>10, ChainedLater, AtExpected DEF At
<1> QED BY <1>1, <1>11 DEF Waits

\* A page that goes out is the first of its list.
LEMMA PopStepWaits ==
  ASSUME DueInv, NEW k \in Keys, NEW b \in Seq(ChunkType), conns[k].list # <<>>,
         Commit(k, addNextFromConn([conn |-> conns[k], cache |-> cache, ret |-> b]))
  PROVE  Waits(conns'[k]) /\ \A j \in Keys : j # k => conns'[j] = conns[j]
<1> DEFINE v == [conn |-> conns[k], cache |-> cache, ret |-> b]
           w == addNextFromConn(v)
           e == Expected(conns[k])
<1>0. /\ WellFormed(Located) /\ Located \in SUBSET Page /\ cache \in Cache
      /\ conns[k] \in Conn(Located) /\ conns[k].open
  BY DeliveredFacts DEF DueInv, WellFormed
<1>1. v \in Work(Located) /\ v.conn = conns[k]
  BY <1>0 DEF Work
<1>2. conns'[k] = w.conn /\ \A j \in Keys : j # k => conns'[j] = conns[j]
  <2>1. conns' = [conns EXCEPT ![k] = w.conn]
    BY DEF Commit
  <2> HIDE DEF w
  <2> QED BY <1>0, <2>1 DEF WellFormed
<1> HIDE DEF v
<1>3. e \in Nat /\ At(conns[k], e) /\ Chained(conns[k].list, e)
  BY <1>0, OpenPosition DEF DueInv, Waits
<1> HIDE DEF e
<1>4. PICK f \in Nat : At(w.conn, f) /\ Chained(w.conn.list, f)
  BY <1>1, <1>3, PopWaits
<1> HIDE DEF w
<1> QED BY <1>2, <1>4, AtExpected DEF Waits

\* After addContiguous no page of the connection is due.
LEMMA NotDueHead ==
  ASSUME DueInv, conns[key].open, ~ FirstIsDue(conns[key])
  PROVE  NotDue(conns[key])
<1> DEFINE c == conns[key]
           e == Expected(c)
<1>1. key \in Keys
  BY DeliveredFacts DEF DueInv
<1>2. e \in Nat /\ At(c, e) /\ c.list \in Seq(Located) /\ Chained(c.list, e)
  BY <1>1, OpenPosition DEF DueInv, Waits
<1>3. CASE c.list = <<>>
  BY <1>3, EmptyWaits
<1>4. CASE c.list # <<>>
  <2>1. ~ (Difference(c.nextSeq, Head(c.list).seq) <= 0)
    BY <1>4 DEF FirstIsDue
  <2> HIDE DEF c, e
  <2>2. Head(c.list) = c.list[1]
    OBVIOUS
  <2>3. Len(c.list) # 0
    BY <1>2, <1>4, EmptySeq
  <2>4. c.list[1].at \in Nat /\ c.list[1].at <= Top /\ c.list[1].seq = Isn + c.list[1].at
    BY <1>2, <2>3, ListFacts
  <2>5. Difference(c.nextSeq, Head(c.list).seq) = c.list[1].at - e
    BY <1>2, <2>2, <2>4, BeyondExpected DEF At
  <2>6. c.list[1].at > e
    BY <1>2, <2>1, <2>4, <2>5
  <2>7. NoneDue(c.list, e)
    BY <1>2, <1>4, <2>6, HeadDecides
  <2> QED BY <2>7 DEF NotDue, c, e
<1> QED BY <1>3, <1>4

\* Steps that gather from the connection k.
LEMMA DueGather ==
  ASSUME DueInv, Delivered', NEW k \in Keys, key' = k, phase' # "panic",
         phase' = "gather" \/ NotDue(conns'[k]), phase # "gather" \/ key = k,
         Waits(conns'[k]), \A j \in Keys : j # k => conns'[j] = conns[j]
  PROVE  DueInv'
<1>1. \A j \in Keys : Waits(conns'[j])
  BY DEF DueInv
<1>2. ASSUME NEW j \in Keys PROVE (phase' = "gather" /\ j = key') \/ NotDue(conns'[j])
  BY DEF DueInv
<1> QED BY <1>1, <1>2 DEF DueInv, Waits, NotDue, Expected

\* Steps that leave every connection alone.
LEMMA DueSame ==
  ASSUME DueInv, Delivered', conns' = conns, phase' # "panic", phase # "gather"
  PROVE  DueInv'
BY DEF DueInv, Waits, NotDue, Expected

\* Every step keeps the invariant.
LEMMA DueStep ==
  ASSUME NoRollOver, DueInv, [Next]_vars
  PROVE  DueInv'
<1>0. /\ Delivered' /\ WellFormed(Located) /\ key \in Keys /\ ret \in Seq(ChunkType)
      /\ <<>> \in Seq(ChunkType) /\ conns \in [Keys -> Conn(Located)]
  BY DeliveredStep, DeliveredFacts DEF DueInv, WellFormed
<1>1. ASSUME NEW k \in Keys, NEW p \in Packets, AssembleFirst(k, p) PROVE DueInv'
  <2>1. key' = k /\ phase' = "gather" /\ phase = "idle"
    BY <1>1 DEF AssembleFirst, Arrives
  <2> QED BY <1>0, <1>1, <2>1, FirstWaits, DueGather
<1>2. ASSUME NEW k \in Keys, NEW p \in Packets, AssembleAhead(k, p) PROVE DueInv'
  <2>1. key' = k /\ phase = "idle"
    BY <1>2 DEF AssembleAhead, Arrives
  <2> QED BY <1>0, <1>2, <2>1, AheadWaits, DueGather
<1>3. ASSUME NEW k \in Keys, NEW p \in Packets, AssembleDue(k, p) PROVE DueInv'
  <2>1. key' = k /\ phase' = "gather" /\ phase = "idle"
    BY <1>3 DEF AssembleDue, Arrives
  <2> QED BY <1>0, <1>3, <2>1, DueWaits, DueGather
<1>4. CASE addContiguous
  <2>1. /\ key' = key /\ phase' = "gather" /\ conns[key].list # <<>>
        /\ Commit(key, addNextFromConn([conn |-> conns[key], cache |-> cache, ret |-> ret]))
    BY <1>4 DEF addContiguous, FirstIsDue
  <2> QED BY <1>0, <2>1, PopStepWaits, DueGather
<1>5. ASSUME NEW k \in Keys, skipFlush(k) PROVE DueInv'
  <2>1. /\ key' = k /\ phase' = "gather" /\ phase = "flush" /\ conns[k].list # <<>>
        /\ Commit(k, addNextFromConn([conn |-> conns[k], cache |-> cache, ret |-> <<>>]))
    BY <1>5 DEF skipFlush, MustPush, Flushing
  <2> QED BY <1>0, <2>1, PopStepWaits, DueGather
<1>6. CASE sendToConnection
  <2>1. /\ phase = "gather" /\ key' = key /\ conns' = conns /\ ~ FirstIsDue(conns[key])
        /\ phase' # "panic"
    BY <1>6 DEF sendToConnection, Resume
  <2>2. conns[key].open
    BY <2>1 DEF DueInv, Delivered
  <2>3. NotDue(conns[key])
    BY <2>1, <2>2, NotDueHead
  <2> QED BY <1>0, <2>1, <2>3, DueGather DEF DueInv
<1>7. CASE closeConnection
  <2>1. /\ phase = "close" /\ key' = key /\ phase' # "panic"
        /\ conns' = [conns EXCEPT ![key] = NoConnection]
    BY <1>7 DEF closeConnection, Resume
  <2>2. conns'[key] = NoConnection /\ \A j \in Keys : j # key => conns'[j] = conns[j]
    BY <1>0, <2>1
  <2>3. NoConnection.list = <<>>
    BY DEF NoConnection
  <2>4. Waits(conns'[key]) /\ NotDue(conns'[key])
    BY <2>2, <2>3, EmptyWaits
  <2> QED BY <1>0, <2>1, <2>2, <2>4, DueGather
<1>8. CASE \/ Tick \/ FlushOlderThan \/ FlushAll \/ FlushReturns
           \/ (\E k \in Keys : FlushCloses(k) \/ FlushNextConn(k))
  <2>1. conns' = conns /\ phase' # "panic" /\ phase # "gather"
    BY <1>8 DEF DueInv, Tick, FlushOlderThan, FlushAll, BeginFlush, FlushReturns, FlushCloses,
       FlushNextConn, Flushing
  <2> QED BY <1>0, <2>1, DueSame
<1>9. CASE UNCHANGED vars
  BY <1>0, <1>9 DEF vars, DueInv, Waits, NotDue, Expected
<1> QED BY <1>1, <1>2, <1>3, <1>4, <1>5, <1>6, <1>7, <1>8, <1>9 DEF Next, Call, Continue

\* No connection holds a page.
LEMMA DueInit == Init => DueInv
<1> SUFFICES ASSUME Init PROVE DueInv
  OBVIOUS
<1>1. Delivered
  BY DeliveredInit
<1>2. \A k \in Keys : conns[k].list = <<>>
  BY DEF Init, NoConnection
<1>3. \A k \in Keys : Waits(conns[k]) /\ NotDue(conns[k])
  BY <1>2, EmptyWaits
<1> QED BY <1>1, <1>3 DEF DueInv, Init

\* Between operations every buffered page lies beyond the byte expected next,
\* as long as no sequence number reaches the last quarter of the sequence
\* space: for segments of any length, in any order, cut again in other ways,
\* with any limits and with flushes at any time.
THEOREM NoDuePageWaits ==
  ASSUME NoRollOver
  PROVE  Spec => []NothingDueIsHeld
<1>1. ASSUME DueInv PROVE NothingDueIsHeld
  <2> SUFFICES ASSUME phase = "idle", NEW k \in Keys, NEW i \in DOMAIN conns[k].list
               PROVE  Difference(conns[k].nextSeq, conns[k].list[i].seq) > 0
    BY DEF NothingDueIsHeld
  <2> DEFINE c == conns[k]
             e == Expected(c)
  <2>1. c.open
    <3>1. c.list # <<>>
      OBVIOUS
    <3> QED BY <1>1, <3>1, DeliveredFacts DEF DueInv, WellFormed
  <2>2. e \in Nat /\ At(c, e) /\ c.list \in Seq(Located)
    BY <1>1, <2>1, OpenPosition DEF DueInv
  <2>3. NoneDue(c.list, e)
    BY <1>1 DEF DueInv, NotDue
  <2> HIDE DEF e
  <2>4. c.list[i].at \in Nat /\ c.list[i].at <= Top /\ c.list[i].seq = Isn + c.list[i].at
    BY <2>2, ListFacts
  <2>5. Difference(c.nextSeq, c.list[i].seq) = c.list[i].at - e
    BY <2>2, <2>4, BeyondExpected DEF At
  <2>6. c.list[i].at > e
    BY <2>3 DEF NoneDue
  <2> QED BY <2>2, <2>4, <2>5, <2>6
<1> QED BY <1>1, DueInit, DueStep, PTL DEF Spec

\* For the same reason the guard panic("wtf") of insertIntoConn, that the
\* segment to be inserted finds the expected byte at the head of the list,
\* never holds; and sendToConnection is only reached with a chunk to send.
THEOREM InsertNeverPanics ==
  ASSUME NoRollOver
  PROVE  Spec => []NeverPanics
<1>1. DueInv => NeverPanics
  BY DEF DueInv, Delivered, WellFormed, NeverPanics
<1> QED BY <1>1, DueInit, DueStep, PTL DEF Spec

-----------------------------------------------------------------------------
(* What a flush promises.                                                  *)

\* The flush has nothing more to do on k.
Settled(k) == ~ MustPush(conns[k]) /\ ~ MustClose(conns[k])

Waiting(k) == \E i \in DOMAIN flush.todo : flush.todo[i] = k

\* The inductive invariant of a flush: a connection is still to be walked over
\* or settled, and the one being worked on is not walked past.
FlushInv ==
  /\ WellFormed(Page)
  /\ phase = "flush" => flush.op # "none"
  /\ phase = "idle" => flush.op = "none"
  /\ phase \in {"gather", "close"} /\ flush.op # "none" =>
       flush.todo # <<>> /\ key = Head(flush.todo)
  /\ flush.op # "none" => \A k \in Keys : Waiting(k) \/ Settled(k)

\* The head of a sequence of keys is one of them.
LEMMA HeadWaits ==
  ASSUME flush.todo \in Seq(Keys), flush.todo # <<>>
  PROVE  /\ Waiting(Head(flush.todo))
         /\ \A k \in Keys : Waiting(k) /\ k # Head(flush.todo) =>
              \E i \in DOMAIN Tail(flush.todo) : Tail(flush.todo)[i] = k
<1> DEFINE q == flush.todo
           t == Tail(q)
<1>1. Len(q) \in Nat /\ DOMAIN q = 1 .. Len(q) /\ Len(q) # 0
  BY EmptySeq, LenProperties
<1>2. /\ t \in Seq(Keys) /\ Len(t) = Len(q) - 1
      /\ \A i \in 1 .. Len(t) : t[i] = q[i + 1]
  BY HeadTailProperties
<1>3. DOMAIN t = 1 .. Len(t)
  BY <1>2, LenProperties
<1>4. Head(q) = q[1] /\ 1 \in DOMAIN q
  BY <1>1
<1> HIDE DEF q, t
<1>5. ASSUME NEW i \in DOMAIN q, q[i] # q[1]
      PROVE  \E j \in DOMAIN t : t[j] = q[i]
  <2>1. i - 1 \in 1 .. Len(t) /\ (i - 1) + 1 = i
    BY <1>1, <1>2, <1>5
  <2> QED BY <1>2, <1>3, <2>1
<1> QED BY <1>4, <1>5 DEF Waiting, q, t

\* An order of the open connections has every one of them.
LEMMA OrdersCover ==
  ASSUME NEW order \in Orders(OpenKeys), NEW k \in OpenKeys
  PROVE  \E i \in DOMAIN order : order[i] = k
<1> DEFINE n == Cardinality(OpenKeys)
<1>1. IsFiniteSet(OpenKeys) /\ n \in Nat
  BY AssemblyAssumption, FS_Subset, FS_CardinalityType DEF OpenKeys
<1>2. IsFiniteSet(1 .. n) /\ Cardinality(1 .. n) = n
  BY <1>1, FS_Interval
<1>3. order \in [1 .. n -> OpenKeys] /\ \A i, j \in DOMAIN order : order[i] = order[j] => i = j
  BY DEF Orders
<1> HIDE DEF n
<1>4. order \in Injection(1 .. n, OpenKeys)
  BY <1>3 DEF Injection, IsInjective
<1>5. order \in Surjection(1 .. n, OpenKeys)
  BY <1>1, <1>2, <1>4, FS_Injection DEF n
<1> QED BY <1>3, <1>5 DEF Surjection

\* A flush walks over all open connections.
LEMMA BeginFlushCovers ==
  ASSUME NEW op \in {"older", "all"}, NEW t \in Nat, BeginFlush(op, t), NEW k \in Keys
  PROVE  (Waiting(k) \/ Settled(k))'
<1>1. PICK order \in Orders(OpenKeys) : flush' = [op |-> op, before |-> t, todo |-> order]
  BY DEF BeginFlush
<1>2. flush'.todo = order /\ conns' = conns
  BY <1>1 DEF BeginFlush
<1>3. CASE k \in OpenKeys
  BY <1>2, <1>3, OrdersCover DEF Waiting
<1>4. CASE k \notin OpenKeys
  <2>1. ~ conns'[k].open
    BY <1>2, <1>4 DEF OpenKeys
  <2> QED BY <2>1 DEF Settled, MustPush, MustClose
<1> QED BY <1>3, <1>4

\* Steps that work on the connection the flush is at.
LEMMA FlushWorks ==
  ASSUME FlushInv, WellFormed(Page)', flush' = flush, key' \in Keys, phase' # "panic",
         phase' = "idle" => flush.op = "none", phase' = "flush" => flush.op # "none",
         flush.op # "none" =>
           /\ flush.todo # <<>> /\ key' = Head(flush.todo)
           /\ \A j \in Keys : j # key' => conns'[j] = conns[j]
  PROVE  FlushInv'
<1>1. ASSUME flush.op # "none", NEW k \in Keys PROVE (Waiting(k) \/ Settled(k))'
  <2>1. CASE k = Head(flush.todo)
    <3>1. Waiting(k)
      BY <1>1, <2>1, HeadWaits DEF FlushInv, WellFormed
    <3> QED BY <3>1 DEF Waiting
  <2>2. CASE k # Head(flush.todo)
    <3>1. conns'[k] = conns[k] /\ (Waiting(k) \/ Settled(k))
      BY <1>1, <2>2 DEF FlushInv
    <3> QED BY <3>1 DEF Waiting, Settled, MustPush, MustClose
  <2> QED BY <2>1, <2>2
<1> QED BY <1>1 DEF FlushInv

\* Steps of an operation that is no flush.
LEMMA FlushNone ==
  ASSUME WellFormed(Page)', flush.op = "none", flush' = flush, phase' # "flush"
  PROVE  FlushInv'
BY DEF FlushInv

\* Every step keeps the invariant.
LEMMA FlushStep ==
  ASSUME FlushInv, [Next]_vars
  PROVE  FlushInv'
<1>0. /\ WellFormed(Page) /\ WellFormed(Page)' /\ key \in Keys
      /\ conns \in [Keys -> Conn(Page)] /\ flush.todo \in Seq(Keys)
  BY HoldsPage, WellFormedStep DEF FlushInv, WellFormed
<1>1. CASE Tick \/ (\E k \in Keys, p \in Packets :
                      AssembleFirst(k, p) \/ AssembleAhead(k, p) \/ AssembleDue(k, p))
  <2>1. phase = "idle" /\ flush' = flush /\ phase' # "flush"
    BY <1>1 DEF Tick, AssembleFirst, AssembleAhead, AssembleDue, Arrives
  <2> QED BY <1>0, <2>1, FlushNone DEF FlushInv
<1>2. CASE FlushOlderThan \/ FlushAll
  <2>1. PICK op \in {"older", "all"}, t \in Nat : BeginFlush(op, t)
    <3>1. \A t \in 1 .. now + 1 : t \in Nat
      BY <1>0, WellFormedFacts
    <3> QED BY <1>2, <3>1 DEF FlushOlderThan, FlushAll
  <2>2. flush'.op # "none" /\ phase' = "flush"
    BY <2>1 DEF BeginFlush
  <2> QED BY <1>0, <2>1, <2>2, BeginFlushCovers DEF FlushInv
<1>3. CASE addContiguous
  <2>1. /\ phase = "gather" /\ phase' = "gather" /\ key' = key /\ flush' = flush
        /\ \A j \in Keys : j # key => conns'[j] = conns[j]
    BY <1>0, <1>3 DEF addContiguous, Commit
  <2> QED BY <1>0, <2>1, FlushWorks DEF FlushInv
<1>4. CASE sendToConnection
  <2>1. /\ phase = "gather" /\ key' = key /\ flush' = flush /\ conns' = conns
        /\ phase' \in {"close", Resume}
    BY <1>4 DEF sendToConnection
  <2> QED BY <1>0, <2>1, FlushWorks DEF FlushInv, Resume
<1>5. CASE closeConnection
  <2>1. /\ phase = "close" /\ key' = key /\ flush' = flush /\ phase' = Resume
        /\ \A j \in Keys : j # key => conns'[j] = conns[j]
    BY <1>0, <1>5 DEF closeConnection
  <2> QED BY <1>0, <2>1, FlushWorks DEF FlushInv, Resume
<1>6. ASSUME NEW k \in Keys, skipFlush(k) \/ FlushCloses(k)
      PROVE  FlushInv'
  <2>1. /\ phase = "flush" /\ phase' \in {"gather", "close"} /\ key' = k /\ flush' = flush
        /\ flush.todo # <<>> /\ k = Head(flush.todo)
        /\ \A j \in Keys : j # k => conns'[j] = conns[j]
    BY <1>0, <1>6 DEF skipFlush, FlushCloses, Flushing, Commit
  <2> QED BY <1>0, <2>1, FlushWorks DEF FlushInv
<1>7. ASSUME NEW k \in Keys, FlushNextConn(k)
      PROVE  FlushInv'
  <2>1. /\ phase = "flush" /\ phase' = "flush" /\ conns' = conns
        /\ flush.todo # <<>> /\ k = Head(flush.todo) /\ Settled(k)
        /\ flush' = [flush EXCEPT !.todo = Tail(@)]
    BY <1>7 DEF FlushNextConn, Flushing, Settled
  <2>2. /\ flush'.op = flush.op /\ flush'.before = flush.before
        /\ flush'.todo = Tail(flush.todo) /\ flush.op # "none"
    BY <1>0, <2>1 DEF WellFormed, FlushInv
  <2>3. ASSUME NEW j \in Keys PROVE (Waiting(j) \/ Settled(j))'
    <3>1. Settled(j) => Settled(j)'
      BY <2>1, <2>2 DEF Settled, MustPush, MustClose
    <3>2. Waiting(j) /\ j # k => Waiting(j)'
      BY <1>0, <2>1, <2>2, HeadWaits DEF Waiting
    <3> QED BY <2>1, <2>2, <3>1, <3>2 DEF FlushInv
  <2> QED BY <1>0, <2>1, <2>2, <2>3 DEF FlushInv
<1>8. CASE FlushReturns
  <2>1. phase' = "idle" /\ flush'.op = "none"
    BY <1>8 DEF FlushReturns, NoFlush
  <2> QED BY <1>0, <2>1 DEF FlushInv
<1>9. CASE UNCHANGED vars
  BY <1>0, <1>9 DEF vars, FlushInv, Waiting, Settled, MustPush, MustClose
<1> QED BY <1>1, <1>2, <1>3, <1>4, <1>5, <1>6, <1>7, <1>8, <1>9 DEF Next, Call, Continue

\* No flush is running.
LEMMA FlushInit == Init => FlushInv
<1> SUFFICES ASSUME Init PROVE FlushInv
  OBVIOUS
<1>1. WellFormed(Page)
  BY WellFormedInit
<1> QED BY <1>1 DEF FlushInv, Init, NoFlush

\* What a flush that returns has done.
Promise ==
  FlushReturns =>
    CASE flush.op = "older" ->
           \A k \in OpenKeys :
             IF conns[k].list # <<>> THEN Head(conns[k].list).seen >= flush.before
             ELSE conns[k].lastSeen >= flush.before
      [] flush.op = "all" -> OpenKeys = {} /\ cache.used = 0

\* It has walked over all connections, and all of them are settled.
LEMMA PromiseKept ==
  ASSUME Accounted, FlushInv
  PROVE  Promise
<1> SUFFICES ASSUME FlushReturns
             PROVE  CASE flush.op = "older" ->
                           \A k \in OpenKeys :
                             IF conns[k].list # <<>> THEN Head(conns[k].list).seen >= flush.before
                             ELSE conns[k].lastSeen >= flush.before
                      [] flush.op = "all" -> OpenKeys = {} /\ cache.used = 0
  BY DEF Promise
<1>1. flush.todo = <<>> /\ flush.op \in {"older", "all"} /\ flush.before \in Nat
  BY DEF FlushReturns, FlushInv, WellFormed
<1>2. \A k \in Keys : Settled(k)
  BY <1>1 DEF FlushInv, Waiting
<1>3. CASE flush.op = "older"
  <2>1. ASSUME NEW k \in OpenKeys
        PROVE  IF conns[k].list # <<>> THEN Head(conns[k].list).seen >= flush.before
               ELSE conns[k].lastSeen >= flush.before
    <3>1. k \in Keys /\ conns[k].open
      BY DEF OpenKeys
    <3>2. conns[k].list \in Seq(Page) /\ conns[k].lastSeen \in Nat
      BY <3>1, WellFormedFacts, ConnFields DEF FlushInv
    <3>3. CASE conns[k].list # <<>>
      <4>1. ~ (Head(conns[k].list).seen < flush.before)
        BY <1>2, <1>3, <3>1, <3>3 DEF Settled, MustPush
      <4>2. Head(conns[k].list).seen \in Nat
        <5>1. Head(conns[k].list) \in Page
          BY <3>2, <3>3, HeadTailProperties
        <5> QED BY <5>1 DEF Page
      <4> QED BY <1>1, <3>3, <4>1, <4>2
    <3>4. CASE conns[k].list = <<>>
      <4>1. ~ (conns[k].lastSeen < flush.before)
        BY <1>2, <1>3, <3>1, <3>4 DEF Settled, MustClose
      <4> QED BY <1>1, <3>2, <3>4, <4>1
    <3> QED BY <3>3, <3>4
  <2> QED BY <1>3, <2>1
<1>4. CASE flush.op = "all"
  <2>1. \A k \in Keys : ~ conns[k].open
    BY <1>2, <1>4 DEF Settled, MustPush, MustClose
  <2>2. OpenKeys = {}
    BY <2>1 DEF OpenKeys
  <2>3. \A k \in Keys : DOMAIN conns[k].list = {}
    BY <2>1 DEF FlushInv, WellFormed
  <2>4. Buffered = {}
    BY <2>3 DEF Buffered
  <2>5. cache.used = 0
    BY <2>4, FS_EmptySet DEF Accounted, UsedIsBuffered
  <2> QED BY <1>4, <2>2, <2>5
<1> QED BY <1>1, <1>3, <1>4

\* A flush keeps its promise, for any number of connections, in any order of
\* the map: when FlushOlderThan returns, no connection waits behind bytes older
\* than the given time and none idle since is open; when FlushAll returns, no
\* connection is open and every page is back in the cache.
THEOREM FlushDone == Spec => FlushKeepsPromise
<1>1. Init => Accounted /\ FlushInv
  BY AccountedInit, FlushInit
<1>2. Accounted /\ FlushInv /\ [Next]_vars => Accounted' /\ FlushInv'
  BY AccountedStep, FlushStep
<1>3. Accounted /\ FlushInv => Promise
  BY PromiseKept
<1>4. Promise <=> (FlushReturns =>
       CASE flush.op = "older" ->
              \A k \in OpenKeys :
                IF conns[k].list # <<>> THEN Head(conns[k].list).seen >= flush.before
                ELSE conns[k].lastSeen >= flush.before
         [] flush.op = "all" -> OpenKeys = {} /\ cache.used = 0)
  BY DEF Promise
<1> QED BY <1>1, <1>2, <1>3, <1>4, PTL DEF Spec, FlushKeepsPromise

-----------------------------------------------------------------------------
(* A running operation makes progress.                                     *)

\* The parts of the rank are natural numbers.
RankNat ==
  /\ cache.used \in Nat
  /\ Cardinality(OpenKeys \ Closing) \in Nat
  /\ Len(flush.todo) \in Nat
  /\ PhaseRank \in Nat

LEMMA RankParts == Accounted => RankNat
<1> SUFFICES ASSUME Accounted PROVE RankNat
  OBVIOUS
<1>1. cache.used \in Nat
  BY FS_CardinalityType DEF Accounted, UsedIsBuffered
<1>2. Cardinality(OpenKeys \ Closing) \in Nat
  BY AssemblyAssumption, FS_Subset, FS_CardinalityType DEF OpenKeys
<1>3. Len(flush.todo) \in Nat
  <2>1. flush.todo \in Seq(Keys)
    BY DEF Accounted, WellFormed
  <2> QED BY <2>1, LenProperties
<1>4. PhaseRank \in Nat
  BY DEF PhaseRank
<1> QED BY <1>1, <1>2, <1>3, <1>4 DEF RankNat

\* Less of one part makes up for a phase with more to do.
LEMMA RankShrinks ==
  ASSUME RankNat, RankNat',
         cache'.used <= cache.used,
         Cardinality((OpenKeys \ Closing)') <= Cardinality(OpenKeys \ Closing),
         Len(flush'.todo) <= Len(flush.todo),
         \/ PhaseRank' < PhaseRank
         \/ /\ PhaseRank' < PhaseRank + 3
            /\ \/ cache'.used < cache.used
               \/ Cardinality((OpenKeys \ Closing)') < Cardinality(OpenKeys \ Closing)
               \/ Len(flush'.todo) < Len(flush.todo)
  PROVE  Rank' \in 0 .. Rank - 1
<1> DEFINE o == Cardinality(OpenKeys \ Closing)
           p == Cardinality((OpenKeys \ Closing)')
           t == Len(flush.todo)
           s == Len(flush'.todo)
           u == cache.used
           v == cache'.used
           r == PhaseRank
           q == PhaseRank'
<1>1. /\ u \in Nat /\ o \in Nat /\ t \in Nat /\ r \in Nat
      /\ v \in Nat /\ p \in Nat /\ s \in Nat /\ q \in Nat
  BY DEF RankNat
<1>2. Rank = 3 * (u + o + t) + r /\ Rank' = 3 * (v + p + s) + q
  BY DEF Rank
<1>3. /\ v <= u /\ p <= o /\ s <= t
      /\ q < r \/ (q < r + 3 /\ (v < u \/ p < o \/ s < t))
  OBVIOUS
<1> HIDE DEF o, p, t, s, u, v, r, q
<1> QED BY <1>1, <1>2, <1>3

\* Sets of keys are finite, and a part of one has no more members.
LEMMA FewerKeys ==
  ASSUME NEW T \in SUBSET Keys, NEW S \in SUBSET T
  PROVE  /\ Cardinality(S) <= Cardinality(T)
         /\ S # T => Cardinality(S) < Cardinality(T)
<1>1. IsFiniteSet(T) /\ IsFiniteSet(S)
  BY AssemblyAssumption, FS_Subset
<1>2. Cardinality(S) \in Nat /\ Cardinality(T) \in Nat
  BY <1>1, FS_CardinalityType
<1>3. Cardinality(S) <= Cardinality(T) /\ (Cardinality(S) = Cardinality(T) => S = T)
  BY <1>1, FS_Subset
<1> QED BY <1>2, <1>3

\* A page that goes to ret leaves the connections open that were.
LEMMA PopShrinks ==
  ASSUME WellFormed(Page), NEW k \in Keys, NEW r \in Seq(ChunkType), conns[k].list # <<>>,
         Commit(k, addNextFromConn([conn |-> conns[k], cache |-> cache, ret |-> r]))
  PROVE  OpenKeys' = OpenKeys /\ cache'.used = cache.used - 1
<1> DEFINE v == [conn |-> conns[k], cache |-> cache, ret |-> r]
           w == addNextFromConn(v)
<1>1. v \in Work(Page) /\ v.conn = conns[k] /\ v.cache = cache
  BY WellFormedFacts DEF Work
<1>2. conns' = [conns EXCEPT ![k] = w.conn] /\ cache' = w.cache
  BY DEF Commit
<1> HIDE DEF v
<1>3. w.conn.open = conns[k].open /\ w.cache.used = cache.used - 1
  BY <1>1, addNextFromConnType
<1> HIDE DEF w
<1>4. \A j \in Keys : conns'[j].open = conns[j].open
  BY <1>2, <1>3 DEF WellFormed
<1> QED BY <1>2, <1>3, <1>4 DEF OpenKeys

\* Every step of a running operation leaves less to do.
LEMMA StepShrinks ==
  ASSUME Accounted, RankNat, RankNat', Continue
  PROVE  Rank' \in 0 .. Rank - 1
<1>0. /\ WellFormed(Page) /\ key \in Keys /\ ret \in Seq(ChunkType) /\ <<>> \in Seq(ChunkType)
      /\ cache.used \in Nat /\ OpenKeys \in SUBSET Keys /\ Len(flush.todo) \in Nat
  BY WellFormedFacts DEF Accounted, RankNat, OpenKeys
<1>1. CASE addContiguous
  <2>1. /\ phase = "gather" /\ phase' = "gather" /\ flush' = flush /\ conns[key].list # <<>>
        /\ Commit(key, addNextFromConn([conn |-> conns[key], cache |-> cache, ret |-> ret]))
    BY <1>1 DEF addContiguous, FirstIsDue
  <2>2. OpenKeys' = OpenKeys /\ cache'.used = cache.used - 1
    BY <1>0, <2>1, PopShrinks
  <2>3. (OpenKeys \ Closing)' = OpenKeys \ Closing /\ PhaseRank' = PhaseRank
    BY <2>1, <2>2 DEF Closing, PhaseRank
  <2>4. PhaseRank' < PhaseRank + 3
    BY <2>3 DEF RankNat
  <2>5. cache'.used < cache.used /\ cache'.used <= cache.used
    BY <1>0, <2>2
  <2>6. /\ Cardinality((OpenKeys \ Closing)') <= Cardinality(OpenKeys \ Closing)
        /\ Len(flush'.todo) <= Len(flush.todo)
    BY <1>0, <2>1, <2>3, FewerKeys
  <2> QED BY <2>4, <2>5, <2>6, RankShrinks
<1>2. CASE sendToConnection
  <2>1. /\ phase = "gather" /\ phase' \in {"close", "idle", "flush"}
        /\ flush' = flush /\ conns' = conns /\ cache' = cache
    BY <1>2 DEF sendToConnection, Resume
  <2>2. PhaseRank = 3 /\ PhaseRank' < 3 /\ (OpenKeys \ Closing)' \in SUBSET (OpenKeys \ Closing)
    BY <2>1 DEF PhaseRank, OpenKeys, Closing
  <2>3. OpenKeys \ Closing \in SUBSET Keys
    BY <1>0
  <2>4. Cardinality((OpenKeys \ Closing)') <= Cardinality(OpenKeys \ Closing)
    BY <2>2, <2>3, FewerKeys
  <2>5. cache'.used <= cache.used /\ Len(flush'.todo) <= Len(flush.todo)
    BY <1>0, <2>1
  <2> QED BY <2>2, <2>4, <2>5, RankShrinks
<1>3. CASE closeConnection
  <2>1. /\ phase = "close" /\ phase' \in {"idle", "flush"} /\ flush' = flush
        /\ conns' = [conns EXCEPT ![key] = NoConnection]
        /\ cache' = replace(cache, conns[key].list)
    BY <1>3 DEF closeConnection, Resume
  <2>2. /\ conns'[key] = NoConnection
        /\ \A j \in Keys : j # key => conns'[j] = conns[j]
    BY <1>0, <2>1 DEF WellFormed
  <2>3. OpenKeys' = OpenKeys \ {key}
    BY <2>2 DEF OpenKeys, NoConnection
  <2>4. (OpenKeys \ Closing)' = OpenKeys \ Closing /\ PhaseRank = 2 /\ PhaseRank' < 2
    BY <2>1, <2>3 DEF Closing, PhaseRank
  <2>5. cache'.used <= cache.used
    <3>1. conns[key].list \in Seq(Page) /\ Len(conns[key].list) \in Nat /\ cache \in Cache
      BY <1>0, WellFormedFacts, ConnFields
    <3>2. cache'.used = cache.used - Len(conns[key].list)
      BY <2>1, <3>1, replaceType
    <3> QED BY <1>0, <3>1, <3>2
  <2>6. /\ Cardinality((OpenKeys \ Closing)') <= Cardinality(OpenKeys \ Closing)
        /\ Len(flush'.todo) <= Len(flush.todo)
    BY <1>0, <2>1, <2>4, FewerKeys
  <2> QED BY <2>4, <2>5, <2>6, RankShrinks
<1>4. ASSUME NEW k \in Keys, skipFlush(k)
      PROVE  Rank' \in 0 .. Rank - 1
  <2>1. /\ phase = "flush" /\ phase' = "gather" /\ flush' = flush /\ conns[k].list # <<>>
        /\ Commit(k, addNextFromConn([conn |-> conns[k], cache |-> cache, ret |-> <<>>]))
    BY <1>4 DEF skipFlush, MustPush, Flushing
  <2>2. OpenKeys' = OpenKeys /\ cache'.used = cache.used - 1
    BY <1>0, <2>1, PopShrinks
  <2>3. (OpenKeys \ Closing)' = OpenKeys \ Closing /\ PhaseRank' < PhaseRank + 3
    BY <2>1, <2>2 DEF Closing, PhaseRank
  <2>4. cache'.used < cache.used /\ cache'.used <= cache.used
    BY <1>0, <2>2
  <2>5. /\ Cardinality((OpenKeys \ Closing)') <= Cardinality(OpenKeys \ Closing)
        /\ Len(flush'.todo) <= Len(flush.todo)
    BY <1>0, <2>1, <2>3, FewerKeys
  <2> QED BY <2>3, <2>4, <2>5, RankShrinks
<1>5. ASSUME NEW k \in Keys, FlushCloses(k)
      PROVE  Rank' \in 0 .. Rank - 1
  <2>1. /\ phase = "flush" /\ phase' = "close" /\ flush' = flush /\ key' = k
        /\ conns' = conns /\ cache' = cache /\ conns[k].open
    BY <1>5 DEF FlushCloses, MustClose, Flushing
  <2>2. /\ (OpenKeys \ Closing)' = OpenKeys \ {k} /\ OpenKeys \ Closing = OpenKeys
        /\ k \in OpenKeys /\ PhaseRank' < PhaseRank + 3
    BY <2>1 DEF Closing, PhaseRank, OpenKeys
  <2>3. Cardinality((OpenKeys \ Closing)') < Cardinality(OpenKeys \ Closing)
    BY <1>0, <2>2, FewerKeys
  <2>4. /\ Cardinality((OpenKeys \ Closing)') <= Cardinality(OpenKeys \ Closing)
        /\ cache'.used <= cache.used /\ Len(flush'.todo) <= Len(flush.todo)
    BY <1>0, <2>1, <2>2, FewerKeys
  <2> QED BY <2>2, <2>3, <2>4, RankShrinks
<1>6. ASSUME NEW k \in Keys, FlushNextConn(k)
      PROVE  Rank' \in 0 .. Rank - 1
  <2>1. /\ phase = "flush" /\ phase' = "flush" /\ conns' = conns /\ cache' = cache
        /\ key' = key /\ flush.todo # <<>> /\ flush' = [flush EXCEPT !.todo = Tail(@)]
    BY <1>6 DEF FlushNextConn, Flushing
  <2>2. (OpenKeys \ Closing)' = OpenKeys \ Closing /\ PhaseRank' < PhaseRank + 3
    BY <2>1 DEF Closing, PhaseRank, OpenKeys
  <2>3. flush'.todo = Tail(flush.todo) /\ flush.todo \in Seq(Keys)
    BY <1>0, <2>1 DEF WellFormed
  <2>4. Len(flush'.todo) = Len(flush.todo) - 1
    BY <2>1, <2>3, HeadTailProperties
  <2>5. Len(flush'.todo) < Len(flush.todo) /\ Len(flush'.todo) <= Len(flush.todo)
    BY <1>0, <2>4
  <2>6. /\ Cardinality((OpenKeys \ Closing)') <= Cardinality(OpenKeys \ Closing)
        /\ cache'.used <= cache.used
    BY <1>0, <2>1, <2>2, FewerKeys
  <2> QED BY <2>2, <2>5, <2>6, RankShrinks
<1>7. CASE FlushReturns
  <2>1. /\ phase = "flush" /\ phase' = "idle" /\ conns' = conns /\ cache' = cache
        /\ flush.todo = <<>> /\ flush'.todo = <<>>
    BY <1>7 DEF FlushReturns, NoFlush
  <2>2. (OpenKeys \ Closing)' = OpenKeys \ Closing /\ PhaseRank' < PhaseRank
    BY <2>1 DEF Closing, PhaseRank, OpenKeys
  <2>3. /\ Cardinality((OpenKeys \ Closing)') <= Cardinality(OpenKeys \ Closing)
        /\ cache'.used <= cache.used /\ Len(flush'.todo) <= Len(flush.todo)
    BY <1>0, <2>1, <2>2, FewerKeys
  <2> QED BY <2>2, <2>3, RankShrinks
<1> QED BY <1>1, <1>2, <1>3, <1>4, <1>5, <1>6, <1>7 DEF Continue

\* Every step of a running operation leaves less to do than there was, for any
\* number of connections and of pages: after AssembleWithTimestamp, FlushOlderThan
\* or FlushAll is called, as many steps as Rank says at most bring it to its end.
THEOREM CallsMakeProgress == Spec => CallsShrink
<1>1. Accounted => RankNat
  BY RankParts
<1>2. Accounted /\ RankNat /\ RankNat' => (Continue => Rank' \in 0 .. Rank - 1)
  BY StepShrinks
<1> QED BY <1>1, <1>2, AccountedInit, AccountedStep, PTL DEF Spec, CallsShrink

-----------------------------------------------------------------------------
(* Without limits and flushes nothing is skipped.                          *)

\* As ensureRunning makes its assemblers: no limits, and nobody flushes.
Unlimited ==
  /\ MaxBufferedPagesPerConnection = 0
  /\ MaxBufferedPagesTotal = 0
  /\ ~ FlushCalls

\* Every chunk starts where the one before it ended.
Gapless(n, b) ==
  \A i \in DOMAIN b : b[i].at = Before(n, b, i) \/ Before(n, b, i) = Contract!Unknown

\* The inductive invariant: no flush runs, and the chunks collected so far
\* follow each other without a gap.
GapInv ==
  /\ Delivered
  /\ phase # "flush" /\ flush.op = "none"
  /\ phase = "gather" => Gapless(streams[key].next, ret)

\* One chunk.
LEMMA GaplessSingle ==
  ASSUME NEW n, NEW x, x.at = n \/ n = Contract!Unknown
  PROVE  Gapless(n, <<x>>)
BY DEF Gapless, Before

\* One more chunk.
LEMMA GaplessAppend ==
  ASSUME NEW n \in Int, NEW b \in Seq(ChunkType), b # <<>>, NEW x \in ChunkType,
         Gapless(n, b), x.at = End(n, b)
  PROVE  Gapless(n, Append(b, x))
<1> DEFINE q == Append(b, x)
<1>1. /\ Len(b) \in Nat /\ Len(b) # 0 /\ DOMAIN b = 1 .. Len(b)
      /\ DOMAIN q = 1 .. Len(b) + 1
      /\ q[Len(b) + 1] = x
      /\ \A i \in 1 .. Len(b) : q[i] = b[i]
  BY AppendProperties, LenProperties, EmptySeq
<1> HIDE DEF q
<1> SUFFICES ASSUME NEW i \in DOMAIN q
             PROVE  q[i].at = Before(n, q, i) \/ Before(n, q, i) = Contract!Unknown
  BY DEF Gapless, q
<1>2. CASE i = Len(b) + 1
  <2>1. i # 1 /\ i - 1 = Len(b) /\ Len(b) \in 1 .. Len(b)
    BY <1>1, <1>2
  <2>2. Before(n, q, i) = Contract!ChunkEnd(b[Len(b)])
    BY <1>1, <2>1 DEF Before
  <2> QED BY <1>1, <1>2, <2>2 DEF End
<1>3. CASE i # Len(b) + 1
  <2>1. i \in DOMAIN b /\ i \in 1 .. Len(b) /\ (i # 1 => i - 1 \in 1 .. Len(b))
    BY <1>1, <1>3
  <2>2. Before(n, q, i) = Before(n, b, i) /\ q[i] = b[i]
    BY <1>1, <2>1 DEF Before
  <2>3. b[i].at = Before(n, b, i) \/ Before(n, b, i) = Contract!Unknown
    BY <2>1 DEF Gapless
  <2> QED BY <2>2, <2>3
<1> QED BY <1>2, <1>3

\* Without limits insertIntoConn sends nothing.
LEMMA InsertKeepsRet ==
  ASSUME Unlimited, now \in Nat, NEW p \in Packets, NEW c \in Conn(Page), NEW h \in Cache,
         NEW b \in Seq(ChunkType)
  PROVE  insertIntoConn([conn |-> c, cache |-> h, ret |-> b], p, now).ret = b
<1> DEFINE v == [conn |-> c, cache |-> h, ret |-> b]
           w == insertIntoConn(v, p, now)
<1>1. v \in Work(Page) /\ v.ret = b /\ v.cache = h
  BY DEF Work
<1> HIDE DEF v
<1>2. Page \in SUBSET Page /\ pagesFromTCP(p, v.cache, now) \in Seq(Page)
  BY <1>1, pagesFromTCPType
<1>3. PICK put \in Work(Page) :
           /\ put.ret = b
           /\ w = IF HitsLimit(put.conn, put.cache) THEN addNextFromConn(put) ELSE put
  BY <1>1, <1>2, insertIntoConnType
<1>4. ~ HitsLimit(put.conn, put.cache)
  BY DEF HitsLimit, Unlimited
<1> HIDE DEF w
<1>5. w.ret = b
  BY <1>3, <1>4
<1> QED BY <1>5, Zenon DEF w, v

\* Every step keeps the invariant.
LEMMA GapStep ==
  ASSUME NoRollOver, Unlimited, GapInv, [Next]_vars
  PROVE  GapInv'
<1>0. /\ Delivered' /\ Delivered /\ key \in Keys /\ now \in Nat /\ cache \in Cache
      /\ ret \in Seq(ChunkType) /\ <<>> \in Seq(ChunkType) /\ Located \in SUBSET Page
      /\ \A k \in Keys : conns[k] \in Conn(Located) /\ conns[k] \in Conn(Page)
                         /\ streams[k].next \in Int
  <2>1. Delivered' /\ Delivered
    BY DeliveredStep DEF GapInv
  <2>2. Conn(Located) \subseteq Conn(Page)
    BY DEF Conn, Connection
  <2> QED BY <2>1, <2>2, DeliveredFacts
<1>1. ASSUME NEW k \in Keys, NEW p \in Packets, AssembleFirst(k, p) PROVE GapInv'
  <2> DEFINE n == Add(seqOf(p), p.len + (IF p.syn THEN 1 ELSE 0))
             b == Seen(reset)
             c == [b EXCEPT !.nextSeq = n]
             x == [at |-> p.pos + (IF p.syn THEN 1 ELSE 0), len |-> p.len,
                   skip |-> IF p.syn THEN 0 ELSE -1, start |-> p.syn, end |-> FALSE]
             w == insertIntoConn([conn |-> c, cache |-> cache, ret |-> <<x>>], p, now)
  <2>1. n \in Sequence
    <3>1. p.pos \in Nat /\ p.len \in Nat /\ p.syn \in BOOLEAN
      BY PacketsAssumption DEF Segment
    <3>2. p.len + (IF p.syn THEN 1 ELSE 0) \in Nat
      BY <3>1
    <3> QED BY <3>2, seqOfType, AddInSequence
  <2>2. b \in Conn(Page)
    BY <1>0, NoConnectionType, SeenType
  <2>3. ret' = w.ret
    BY <1>1 DEF AssembleFirst, Commit
  <2>4. x \in ChunkType
    BY FirstChunkType
  <2> HIDE DEF b, n, x
  <2>5. c \in Conn(Page)
    BY <2>1, <2>2, NextSeqType
  <2> HIDE DEF c
  <2>6. <<x>> \in Seq(ChunkType)
    BY <2>4, SingletonSeq
  <2>7. w.ret = <<x>>
    BY <1>0, <2>5, <2>6, InsertKeepsRet, ZenonT(60)
  <2>8. streams'[k].next = Contract!Unknown
    <3>1. streams' = [streams EXCEPT ![k] = Contract!NewStream] /\ streams \in [Keys -> StreamType]
      BY <1>0, <1>1 DEF AssembleFirst, Delivered, WellFormed
    <3>2. streams'[k] = Contract!NewStream
      BY <3>1
    <3> QED BY <3>2 DEF Contract!NewStream
  <2>9. Gapless(streams'[k].next, <<x>>)
    BY <2>8, GaplessSingle
  <2>10. key' = k /\ phase' = "gather" /\ flush' = flush
    BY <1>1 DEF AssembleFirst, Arrives
  <2> QED BY <1>0, <2>3, <2>7, <2>9, <2>10 DEF GapInv
<1>2. ASSUME NEW k \in Keys, NEW p \in Packets, AssembleAhead(k, p) PROVE GapInv'
  <2> DEFINE c == Seen(conns[k])
             w == insertIntoConn([conn |-> c, cache |-> cache, ret |-> <<>>], p, now)
  <2>1. /\ flush' = flush
        /\ phase' = IF InsertPanics(c) THEN "panic" ELSE IF w.ret = <<>> THEN "idle" ELSE "gather"
    BY <1>2, Zenon DEF AssembleAhead, Arrives
  <2>2. c \in Conn(Page)
    BY <1>0, SeenType
  <2> HIDE DEF c
  <2>3. w.ret = <<>>
    BY <1>0, <2>2, InsertKeepsRet
  <2> HIDE DEF w
  <2> QED BY <1>0, <2>1, <2>3 DEF GapInv
<1>3. ASSUME NEW k \in Keys, NEW p \in Packets, AssembleDue(k, p) PROVE GapInv'
  <2> DEFINE c == Seen(conns[k])
             span == byteSpan(c.nextSeq, seqOf(p), p.len)
             x == Chunk([at |-> p.pos, end |-> p.fin], span, 0)
             e == streams[k].next
  <2>1. /\ ret' = <<x>> /\ key' = k /\ phase' = "gather" /\ flush' = flush
        /\ streams' = streams /\ conns[k].open /\ phase = "idle"
        /\ Difference(c.nextSeq, seqOf(p)) <= 0
    BY <1>3, Zenon DEF AssembleDue, Commit, Arrives
  <2>2. Sent(conns[k], e, <<>>)
    BY <1>0, <2>1 DEF Delivered, Collected
  <2>3. e \in Nat /\ e <= Top /\ conns[k].nextSeq = Isn + e
    BY <2>2 DEF Sent, End
  <2>4. c.nextSeq = Isn + e
    BY <1>0, <2>3, SeenType
  <2>5. /\ seqOf(p) = Isn + p.pos /\ p.pos \in Nat /\ p.len \in Nat /\ p.pos + p.len <= Top
        /\ p.pos <= Top
    <3>1. p.len \in Nat /\ p.pos \in Nat /\ p.pos + p.len + 1 <= Top /\ seqOf(p) = Isn + p.pos
      BY seqOfExact
    <3> QED BY <3>1, TopType
  <2> HIDE DEF c, e
  <2>6. p.pos <= e
    <3>1. Difference(c.nextSeq, seqOf(p)) = p.pos - e
      BY <2>3, <2>4, <2>5, BeyondExpected
    <3> QED BY <2>1, <2>3, <2>5, <3>1
  <2>7. span = byteSpan(Isn + e, Isn + p.pos, p.len)
    BY <2>4, <2>5
  <2> HIDE DEF span
  <2>8. p.pos + span.cut = e
    BY <2>3, <2>5, <2>6, <2>7, SpanPosition
  <2>9. x.at = e
    BY <2>8 DEF Chunk
  <2> HIDE DEF x
  <2>10. Gapless(e, <<x>>)
    BY <2>9, GaplessSingle
  <2> QED BY <1>0, <2>1, <2>10 DEF GapInv, e
<1>4. CASE addContiguous
  <2> DEFINE v == [conn |-> conns[key], cache |-> cache, ret |-> ret]
             g == Head(conns[key].list)
             span == HeadSpan(v)
             n == streams[key].next
             e == End(n, ret)
  <2>1. /\ phase = "gather" /\ phase' = "gather" /\ key' = key /\ flush' = flush
        /\ streams' = streams /\ conns[key].list # <<>> /\ ret' = addNextFromConn(v).ret
        /\ Difference(conns[key].nextSeq, g.seq) <= 0
    BY <1>4 DEF addContiguous, FirstIsDue, Commit
  <2>2. v \in Work(Located) /\ v.conn = conns[key] /\ v.ret = ret
    BY <1>0 DEF Work
  <2>3. /\ conns[key].open /\ ret # <<>> /\ Gapless(n, ret) /\ Sent(conns[key], n, ret)
    <3>1. conns[key].open /\ Sent(conns[key], n, Collected(key))
      BY <1>0, <2>1 DEF Delivered
    <3>2. Collected(key) = ret
      BY <2>1 DEF Collected
    <3> QED BY <1>0, <2>1, <3>1, <3>2, DeliveredFacts DEF GapInv
  <2>4. e \in Nat /\ e <= Top /\ conns[key].nextSeq = Isn + e
    BY <2>3 DEF Sent
  <2> HIDE DEF v
  <2>5. /\ g \in Located /\ span \in [cut : Nat, len : Nat, next : Sequence]
        /\ \E skip \in Int : addNextFromConn(v).ret = Append(ret, Chunk(g, span, skip))
    BY <1>0, <2>1, <2>2, addNextFromConnType
  <2>6. g \in Page /\ g.at \in Nat /\ g.len \in Nat /\ g.seq = Isn + g.at
        /\ g.at + g.len <= Top /\ g.at <= Top
    <3>1. g.at \in Nat /\ g.len \in Nat /\ g.at + g.len <= Top
      BY <2>5 DEF Located, Page
    <3> QED BY <2>5, <3>1, TopType, SMTT(30) DEF Located
  <2>7. span = byteSpan(Isn + e, Isn + g.at, g.len)
    BY <2>2, <2>4, <2>6 DEF HeadSpan
  <2> HIDE DEF g, span, e
  <2>8. g.at <= e
    <3>1. Difference(Isn + e, Isn + g.at) = g.at - e
      BY <2>4, <2>6, BeyondExpected
    <3> QED BY <2>1, <2>4, <2>6, <3>1
  <2>9. g.at + span.cut = e
    BY <2>4, <2>6, <2>7, <2>8, SpanPosition
  <2>10. PICK skip \in Int : addNextFromConn(v).ret = Append(ret, Chunk(g, span, skip))
    BY <2>5
  <2> DEFINE x == Chunk(g, span, skip)
  <2>11. x \in ChunkType /\ x.at = e
    <3>1. x \in ChunkType
      BY <2>5, <2>6, ChunkIsChunk
    <3> QED BY <2>9, <3>1 DEF Chunk
  <2> HIDE DEF x
  <2>12. n \in Int
    BY <1>0
  <2> HIDE DEF n
  <2>13. Gapless(n, Append(ret, x))
    BY <1>0, <2>3, <2>11, <2>12, GaplessAppend DEF e
  <2>14. Gapless(streams'[key'].next, ret')
    BY <2>1, <2>10, <2>13 DEF x, n
  <2> QED BY <1>0, <2>1, <2>14 DEF GapInv
<1>5. CASE sendToConnection
  <2>1. phase' # "gather" /\ phase' # "flush" /\ flush' = flush
    BY <1>5 DEF sendToConnection, Resume, GapInv
  <2> QED BY <1>0, <2>1 DEF GapInv
<1>6. CASE closeConnection
  <2>1. phase' # "gather" /\ phase' # "flush" /\ flush' = flush
    BY <1>6 DEF closeConnection, Resume, GapInv
  <2> QED BY <1>0, <2>1 DEF GapInv
<1>7. CASE Tick
  <2>1. phase' = "idle" /\ flush' = flush
    BY <1>7 DEF Tick
  <2> QED BY <1>0, <2>1 DEF GapInv
<1>8. CASE UNCHANGED vars
  BY <1>0, <1>8 DEF GapInv, vars, Gapless, Before
<1>9. /\ ~ FlushOlderThan /\ ~ FlushAll /\ ~ FlushReturns
      /\ \A k \in Keys : ~ skipFlush(k) /\ ~ FlushCloses(k) /\ ~ FlushNextConn(k)
  BY DEF GapInv, Unlimited, FlushOlderThan, FlushAll, BeginFlush, FlushReturns, skipFlush,
     FlushCloses, FlushNextConn, Flushing
<1> QED BY <1>1, <1>2, <1>3, <1>4, <1>5, <1>6, <1>7, <1>8, <1>9 DEF Next, Call, Continue

\* Nothing is collected.
LEMMA GapInit == Init => GapInv
BY DeliveredInit DEF Init, GapInv, NoFlush

\* What sendToConnection sends.
SendsGapless ==
  sendToConnection =>
    \A i \in DOMAIN ret :
      \/ ret[i].at = Before(streams[key].next, ret, i)
      \/ Before(streams[key].next, ret, i) = Contract!Unknown

\* The assemblers of the program, without limits and flushes, never skip a byte
\* inside a stream: with DeliveredInOrder, a stream receives every byte exactly
\* once, up to the first one that did not arrive.
THEOREM NothingIsSkipped ==
  ASSUME NoRollOver, Unlimited
  PROVE  Spec => NothingSkipped
<1>1. GapInv => SendsGapless
  BY DEF GapInv, SendsGapless, Gapless, sendToConnection
<1>2. SendsGapless <=>
        (sendToConnection =>
           \A i \in DOMAIN ret :
             \/ ret[i].at = Before(streams[key].next, ret, i)
             \/ Before(streams[key].next, ret, i) = Contract!Unknown)
  BY DEF SendsGapless
<1> QED BY <1>1, <1>2, GapInit, GapStep, PTL DEF Spec, NothingSkipped
=============================================================================
