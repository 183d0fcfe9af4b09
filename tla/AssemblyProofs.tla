--------------------------- MODULE AssemblyProofs ---------------------------
(***************************************************************************)
(* Proofs about Assembly, for any keys, packets, page size, limits and     *)
(* bounds.  First the lemmas about the operators, then the invariant       *)
(* WellFormed (types, pages counted and conserved), then the invariant     *)
(* Delivered, from which every step is one of StreamContract or a stutter. *)
(***************************************************************************)
EXTENDS Assembly, SequenceTheorems, FiniteSetTheorems, WellFoundedInduction, TLAPS

\* A packet fills between one page and one grow() of the cache.
LEMMA PagesOfProperties ==
  ASSUME NEW p \in Packets
  PROVE  /\ PagesOf(p) \in 1 .. InitialAllocSize
         /\ (PagesOf(p) - 1) * PageBytes <= p.len
<1>1. /\ p.len \in Nat /\ PageBytes \in Nat \ {0}
      /\ PagesOf(p) <= InitialAllocSize /\ InitialAllocSize \in Nat
  BY PacketsAssumption, AssemblyAssumption DEF Segment
<1>2. CASE p.len = 0
  BY <1>1, <1>2 DEF PagesOf
<1>3. CASE p.len > 0
  <2>1. PagesOf(p) = (p.len + PageBytes - 1) \div PageBytes
    BY <1>1, <1>3 DEF PagesOf, Ceiling
  <2>2. PagesOf(p) \in Nat /\ PagesOf(p) >= 1
    BY <1>1, <1>3, <2>1
  <2>3. PageBytes * PagesOf(p) <= p.len + PageBytes - 1
    BY <1>1, <1>3, <2>1
  <2> QED BY <1>1, <1>3, <2>2, <2>3
<1> QED BY <1>1, <1>2, <1>3

\* A set of indices that is not empty has a last one.
LEMMA LastExists ==
  ASSUME NEW n \in Nat, NEW S \in SUBSET (1 .. n), S # {}
  PROVE  /\ (CHOOSE i \in S : \A j \in S : j <= i) \in S
         /\ \A x \in S : x <= CHOOSE i \in S : \A j \in S : j <= i
<1> DEFINE T == {n - j : j \in S}
<1>0. \A j \in S : j \in 1 .. n /\ n - j \in Nat
  OBVIOUS
<1>1. T \subseteq Nat /\ T # {}
  BY <1>0
<1>2. PICK x \in T : \A y \in T : ~ (<<y, x>> \in OpToRel(<, Nat))
  BY <1>1, NatLessThanWellFounded, WFMin
<1>3. \A y \in T : x <= y
  <2> SUFFICES ASSUME NEW y \in T PROVE x <= y
    OBVIOUS
  <2>1. x \in Nat /\ y \in Nat
    BY <1>1
  <2>2. ~ (y < x)
    <3>1. <<y, x>> \in Nat \X Nat
      BY <2>1
    <3>2. (<<y, x>>)[1] = y /\ (<<y, x>>)[2] = x
      OBVIOUS
    <3> QED BY <1>2, <3>1, <3>2 DEF OpToRel
  <2> QED BY <2>1, <2>2
<1>4. PICK i \in S : x = n - i
  BY <1>2
<1>5. \A j \in S : j <= i
  BY <1>0, <1>3, <1>4
<1> QED BY <1>5

-----------------------------------------------------------------------------
(* Sequence numbers.                                                       *)

\* Add stays in the sequence space and is addition as long as it does not leave
\* it (the mask with uint32Max).
LEMMA AddInSequence ==
  ASSUME NEW s \in Sequence, NEW n \in Nat
  PROVE  /\ Add(s, n) \in Sequence
         /\ s + n <= uint32Max => Add(s, n) = s + n
<1> USE SeqSpaceAssumption DEF Add, Sequence, uint32Max
<1>1. Add(s, n) \in Sequence
  OBVIOUS
<1>2. ASSUME s + n <= uint32Max PROVE Add(s, n) = s + n
  BY <1>2
<1> QED BY <1>1, <1>2

\* byteSpan returns lengths and a sequence number.
LEMMA byteSpanType ==
  ASSUME NEW e \in Sequence \cup {invalidSequence}, NEW r \in Sequence, NEW len \in Nat
  PROVE  byteSpan(e, r, len) \in [cut : Nat, len : Nat, next : Sequence]
<1> DEFINE span == Difference(r, e)
<1>1. CASE e = invalidSequence
  BY <1>1, AddInSequence DEF byteSpan
<1>2. CASE e \in Sequence
  <2>0. e # invalidSequence
    BY <1>2, SeqSpaceAssumption DEF Sequence, invalidSequence, uint32Max
  <2>1. span \in Int
    BY <1>2, SeqSpaceAssumption DEF Difference, Wraps, Quarter, Sequence, uint32Max
  <2>2. CASE span <= 0
    BY <2>2, AddInSequence DEF byteSpan
  <2>3. CASE span > 0 /\ len < span
    BY <2>0, <2>1, <2>3, <1>2 DEF byteSpan
  <2>4. CASE span > 0 /\ len >= span
    <3>1. len - span \in Nat
      BY <2>1, <2>4
    <3>2. Add(e, len - span) \in Sequence
      BY <3>1, <1>2, AddInSequence
    <3> QED BY <2>0, <2>1, <2>4, <3>1, <3>2 DEF byteSpan
  <2> QED BY <2>1, <2>2, <2>3, <2>4
<1> QED BY <1>1, <1>2

-----------------------------------------------------------------------------
(* The page cache.                                                         *)

FreePage == [skip : Int, end : BOOLEAN]

\* A page cache that has lost no page and grows by enough for any packet.
Cache ==
  {c \in PageCache : /\ c.used + Len(c.free) = c.size
                     /\ c.pcSize >= InitialAllocSize}

\* Field by field, a page cache; and a record with such fields is one.
LEMMA CacheFields ==
  /\ \A c \in Cache : /\ c.free \in Seq(FreePage) /\ Len(c.free) \in Nat
                      /\ c.used \in Int /\ c.size \in Nat /\ c.pcSize \in Nat
                      /\ c.used + Len(c.free) = c.size /\ c.pcSize >= InitialAllocSize
                      /\ c = [free |-> c.free, used |-> c.used,
                              size |-> c.size, pcSize |-> c.pcSize]
  /\ \A f \in Seq(FreePage), u \in Int, s \in Nat, n \in Nat :
       u + Len(f) = s /\ n >= InitialAllocSize =>
         [free |-> f, used |-> u, size |-> s, pcSize |-> n] \in Cache
BY DEF Cache, PageCache, FreePage

\* The cache of a new Assembler.
LEMMA newPageCacheType == newPageCache \in Cache
<1> DEFINE f == [i \in 1 .. InitialAllocSize |-> Leftover]
<1>1. InitialAllocSize \in Nat
  BY AssemblyAssumption
<1>2. Leftover \in FreePage
  BY DEF Leftover, FreePage
<1>3. f \in Seq(FreePage) /\ Len(f) = InitialAllocSize
  BY <1>1, <1>2
<1> QED BY <1>1, <1>3 DEF newPageCache, Cache, PageCache, FreePage

\* grow() adds the pages it counts, and enough of them.
LEMMA GrownType ==
  ASSUME NEW c \in Cache, NEW n \in 0 .. InitialAllocSize
  PROVE  /\ Grown(c, n) \in Cache /\ Len(Grown(c, n).free) >= n
         /\ Grown(c, n).used = c.used
<1>1. /\ c.free \in Seq(FreePage) /\ c.used \in Int /\ c.size \in Nat /\ c.pcSize \in Nat
      /\ c.used + Len(c.free) = c.size /\ c.pcSize >= InitialAllocSize
  BY DEF Cache, PageCache, FreePage
<1>2. InitialAllocSize \in Nat
  BY AssemblyAssumption
<1>3. CASE Len(c.free) >= n
  BY <1>3 DEF Grown
<1>4. CASE ~ (Len(c.free) >= n)
  <2> DEFINE f == [i \in 1 .. c.pcSize |-> Leftover]
  <2>1. Leftover \in FreePage
    BY DEF Leftover, FreePage
  <2>2. f \in Seq(FreePage) /\ Len(f) = c.pcSize
    BY <1>1, <2>1
  <2>3. f \o c.free \in Seq(FreePage) /\ Len(f \o c.free) = c.pcSize + Len(c.free)
    BY <1>1, <2>2, ConcatProperties
  <2>4. Grown(c, n) = [c EXCEPT !.free = f \o @, !.size = @ + c.pcSize, !.pcSize = 2 * @]
    BY <1>4 DEF Grown
  <2>5. Grown(c, n) = [free |-> f \o c.free, used |-> c.used,
                       size |-> c.size + c.pcSize, pcSize |-> 2 * c.pcSize]
    BY <2>4 DEF Cache, PageCache
  <2> HIDE DEF f
  <2>6. Len(c.free) \in Nat
    BY <1>1
  <2> QED BY <1>1, <1>2, <2>3, <2>5, <2>6 DEF Cache, PageCache, FreePage
<1> QED BY <1>3, <1>4

\* next() counts every page it hands out as used.
LEMMA TakePagesType ==
  ASSUME NEW c \in Cache, NEW n \in 0 .. InitialAllocSize
  PROVE  TakePages(c, n) \in Cache /\ TakePages(c, n).used = c.used + n
<1> DEFINE g == Grown(c, n)
<1>1. g \in Cache /\ Len(g.free) >= n /\ g.used = c.used
  BY GrownType
<1> HIDE DEF g
<1>2. /\ g.free \in Seq(FreePage) /\ g.used \in Int /\ g.size \in Nat /\ g.pcSize \in Nat
      /\ g.used + Len(g.free) = g.size /\ g.pcSize >= InitialAllocSize
  BY <1>1 DEF Cache, PageCache, FreePage
<1>3. n \in Nat /\ Len(g.free) \in Nat
  BY <1>2, AssemblyAssumption
<1> DEFINE f == SubSeq(g.free, 1, Len(g.free) - n)
<1>4. f \in Seq(FreePage) /\ Len(f) = Len(g.free) - n
  <2>1. \A i \in 1 .. Len(g.free) - n : g.free[i] \in FreePage
    BY <1>2, <1>3, ElementOfSeq
  <2> QED BY <1>1, <1>3, <2>1, SubSeqProperties
<1>5. TakePages(c, n) = [free |-> f, used |-> g.used + n, size |-> g.size, pcSize |-> g.pcSize]
  <2>1. TakePages(c, n) = [g EXCEPT !.free = f, !.used = @ + n]
    BY DEF TakePages, g
  <2> HIDE DEF f
  <2> QED BY <1>1, <2>1 DEF Cache, PageCache
<1> HIDE DEF f
<1>6. g.used + n \in Int /\ g.used + n + Len(f) = g.size
  BY <1>2, <1>3, <1>4
<1>7. TakePages(c, n) \in Cache
  BY <1>2, <1>4, <1>5, <1>6, CacheFields, SMTT(40)
<1> QED BY <1>1, <1>5, <1>7

\* A page handed out has the fields it was returned with.
LEMMA TakenPageType ==
  ASSUME NEW c \in Cache, NEW n \in 0 .. InitialAllocSize, NEW i \in 1 .. n
  PROVE  TakenPage(c, n, i) \in FreePage
<1> DEFINE g == Grown(c, n)
<1>1. g \in Cache /\ Len(g.free) >= n
  BY GrownType
<1>2. g.free \in Seq(FreePage)
  BY <1>1 DEF Cache, PageCache, FreePage
<1>3. Len(g.free) \in Nat /\ n \in Nat /\ i \in Nat
  BY <1>2, AssemblyAssumption
<1>4. Len(g.free) + 1 - i \in 1 .. Len(g.free)
  BY <1>1, <1>3
<1>5. g.free[Len(g.free) + 1 - i] \in FreePage
  BY <1>2, <1>4, ElementOfSeq
<1> QED BY <1>5 DEF TakenPage

\* replace() takes back every page it counts off.
LEMMA replaceType ==
  ASSUME NEW c \in Cache, NEW list \in Seq(Page)
  PROVE  replace(c, list) \in Cache /\ replace(c, list).used = c.used - Len(list)
<1> DEFINE f == [i \in DOMAIN list |-> [skip |-> list[i].skip, end |-> list[i].end]]
<1>1. /\ c.free \in Seq(FreePage) /\ c.used \in Int /\ c.size \in Nat /\ c.pcSize \in Nat
      /\ c.used + Len(c.free) = c.size /\ c.pcSize >= InitialAllocSize
  BY DEF Cache, PageCache, FreePage
<1>2. Len(list) \in Nat /\ DOMAIN list = 1 .. Len(list)
  BY LenProperties
<1>3. ASSUME NEW i \in 1 .. Len(list)
      PROVE  [skip |-> list[i].skip, end |-> list[i].end] \in FreePage
  <2>1. list[i] \in Page
    BY ElementOfSeq
  <2> QED BY <2>1 DEF Page, FreePage
<1>4. f \in Seq(FreePage) /\ Len(f) = Len(list)
  BY <1>2, <1>3
<1>5. \A h \in Seq(FreePage) :
        c.free \o h \in Seq(FreePage) /\ Len(c.free \o h) = Len(c.free) + Len(h)
  BY <1>1, ConcatProperties
<1>6. replace(c, list) = [c EXCEPT !.used = @ - Len(list), !.free = @ \o f]
  BY DEF replace
<1> HIDE DEF f
<1>7. c.free \o f \in Seq(FreePage) /\ Len(c.free \o f) = Len(c.free) + Len(list)
  BY <1>5, <1>4
<1>8. c.used - Len(list) \in Int /\ c.used - Len(list) + Len(c.free \o f) = c.size
  BY <1>1, <1>2, <1>7, LenProperties
<1>9. replace(c, list) = [free |-> c.free \o f, used |-> c.used - Len(list),
                          size |-> c.size, pcSize |-> c.pcSize]
  BY <1>6 DEF Cache, PageCache
<1>10. [free |-> c.free \o f, used |-> c.used - Len(list),
       size |-> c.size, pcSize |-> c.pcSize] \in Cache
  BY <1>1, <1>7, <1>8, CacheFields, Zenon
<1> QED BY <1>9, <1>10

-----------------------------------------------------------------------------
(* Connections and work states whose pages lie in a set S.                 *)

\* traverseConn returns the index of a page, or 0 for the head of the list.
LEMMA traverseConnType ==
  ASSUME NEW list \in Seq(Page), NEW seq
  PROVE  traverseConn(list, seq) \in 0 .. Len(list)
<1> DEFINE before == {i \in DOMAIN list : Difference(list[i].seq, seq) >= 0}
<1>1. Len(list) \in Nat /\ DOMAIN list = 1 .. Len(list)
  BY LenProperties
<1>2. before \in SUBSET (1 .. Len(list))
  BY <1>1
<1>3. CASE before = {}
  BY <1>1, <1>3 DEF traverseConn
<1>4. CASE before # {}
  <2>1. (CHOOSE i \in before : \A j \in before : j <= i) \in before
    BY <1>1, <1>2, <1>4, LastExists
  <2>2. traverseConn(list, seq) \in before
    BY <1>4, <2>1 DEF traverseConn
  <2> QED BY <1>1, <1>2, <2>2
<1> QED BY <1>3, <1>4

\* pushBetween inserts the pages of the segment and drops none.
LEMMA pushBetweenType ==
  ASSUME NEW S, NEW list \in Seq(S), NEW run \in Seq(S), NEW i \in 0 .. Len(list)
  PROVE  /\ pushBetween(list, i, run) \in Seq(S)
         /\ Len(pushBetween(list, i, run)) = Len(list) + Len(run)
<1>1. Len(list) \in Nat /\ Len(run) \in Nat
  BY LenProperties
<1>2. /\ SubSeq(list, 1, i) \in Seq(S)
      /\ Len(SubSeq(list, 1, i)) = i
  <2>1. \A j \in 1 .. i : list[j] \in S
    BY <1>1, ElementOfSeq
  <2> QED BY <1>1, <2>1, SubSeqProperties
<1>3. /\ SubSeq(list, i + 1, Len(list)) \in Seq(S)
      /\ Len(SubSeq(list, i + 1, Len(list))) = Len(list) - i
  <2>1. \A j \in i + 1 .. Len(list) : list[j] \in S
    BY <1>1, ElementOfSeq
  <2> QED BY <1>1, <2>1, SubSeqProperties
<1>4. \A x, y \in Seq(S) : x \o y \in Seq(S) /\ Len(x \o y) = Len(x) + Len(y)
  BY ConcatProperties
<1> DEFINE a == SubSeq(list, 1, i)
           b == SubSeq(list, i + 1, Len(list))
<1> HIDE DEF a, b
<1>5. a \o run \in Seq(S) /\ Len(a \o run) = Len(a) + Len(run)
  BY <1>2, <1>4 DEF a
<1>6. (a \o run) \o b \in Seq(S) /\ Len((a \o run) \o b) = Len(a \o run) + Len(b)
  BY <1>3, <1>4, <1>5 DEF b
<1>7. Len(a) = i /\ Len(b) = Len(list) - i
  BY <1>2, <1>3 DEF a, b
<1>8. pushBetween(list, i, run) = (a \o run) \o b
  BY DEF pushBetween, a, b
<1>9. Len((a \o run) \o b) = (Len(a) + Len(run)) + Len(b)
  BY <1>5, <1>6, Zenon
<1>10. (Len(a) + Len(run)) + Len(b) = Len(list) + Len(run)
  BY <1>1, <1>7
<1> QED BY <1>6, <1>8, <1>9, <1>10, Zenon

\* The sequence number of a segment.
LEMMA seqOfType == \A p \in Packets : seqOf(p) \in Sequence
<1> SUFFICES ASSUME NEW p \in Packets PROVE seqOf(p) \in Sequence
  OBVIOUS
<1>1. p.pos \in Nat /\ Isn \in Sequence
  BY PacketsAssumption, AssemblyAssumption DEF Segment
<1> QED BY <1>1, AddInSequence DEF seqOf

\* The pages of a segment, as many as PagesOf counts.
LEMMA pagesFromTCPType ==
  ASSUME NEW p \in Packets, NEW c \in Cache, NEW ts \in Nat
  PROVE  /\ pagesFromTCP(p, c, ts) \in Seq(Page)
         /\ Len(pagesFromTCP(p, c, ts)) = PagesOf(p)
<1> DEFINE n == PagesOf(p)
           page(i) ==
             [seq  |-> Add(seqOf(p), (i - 1) * PageBytes),
              at   |-> p.pos + (i - 1) * PageBytes,
              len  |-> IF i < n THEN PageBytes ELSE p.len - (n - 1) * PageBytes,
              skip |-> TakenPage(c, n, i).skip,
              end  |-> IF i = n THEN p.fin ELSE TakenPage(c, n, i).end,
              seen |-> ts]
<1>1. /\ n \in 1 .. InitialAllocSize /\ (n - 1) * PageBytes <= p.len
      /\ InitialAllocSize \in Nat /\ PageBytes \in Nat
      /\ p.pos \in Nat /\ p.len \in Nat /\ p.fin \in BOOLEAN
  BY PagesOfProperties, AssemblyAssumption, PacketsAssumption DEF Segment
<1>2. ASSUME NEW i \in 1 .. n
      PROVE  page(i) \in Page
  <2>1. (i - 1) * PageBytes \in Nat
    BY <1>1
  <2>2. Add(seqOf(p), (i - 1) * PageBytes) \in Sequence
    BY <2>1, seqOfType, AddInSequence
  <2>3. p.pos + (i - 1) * PageBytes \in Nat
    BY <1>1, <2>1
  <2>4. (IF i < n THEN PageBytes ELSE p.len - (n - 1) * PageBytes) \in Nat
    <3>1. (n - 1) * PageBytes \in Nat
      BY <1>1
    <3> QED BY <1>1, <3>1
  <2>5. TakenPage(c, n, i).skip \in Int /\ TakenPage(c, n, i).end \in BOOLEAN
    <3>1. n \in 0 .. InitialAllocSize
      BY <1>1
    <3> QED BY <3>1, TakenPageType DEF FreePage
  <2>6. (IF i = n THEN p.fin ELSE TakenPage(c, n, i).end) \in BOOLEAN
    BY <1>1, <2>5, Zenon
  <2> QED BY <2>2, <2>3, <2>4, <2>5, <2>6, Zenon DEF Page
<1>3. pagesFromTCP(p, c, ts) = [i \in 1 .. n |-> page(i)]
  BY DEF pagesFromTCP
<1> HIDE DEF page
<1>4. n \in Nat
  BY <1>1
<1>5. [i \in 1 .. n |-> page(i)] \in Seq(Page)
  BY <1>2, <1>4
<1>6. Len([i \in 1 .. n |-> page(i)]) = n
  BY <1>4
<1> QED BY <1>3, <1>5, <1>6

\* Connections and work states of the helpers.
Conn(S) ==
  {c \in Connection : c.list \in Seq(S) /\ c.pages = Len(c.list)}

Work(S) == [conn : Conn(S), cache : Cache, ret : Seq(ChunkType)]

\* Field by field, a connection that counts its pages.
LEMMA ConnFields ==
  ASSUME NEW S, NEW c \in Conn(S)
  PROVE  /\ c.open \in BOOLEAN /\ c.pages = Len(c.list) /\ c.list \in Seq(S)
         /\ c.list \in Seq(Page) /\ Len(c.list) \in Nat
         /\ c.nextSeq \in Sequence \cup {invalidSequence} /\ c.lastSeen \in Nat
         /\ c = [open |-> c.open, pages |-> c.pages, list |-> c.list,
                 nextSeq |-> c.nextSeq, lastSeen |-> c.lastSeen]
BY DEF Conn, Connection

\* A record with such fields is a connection.
LEMMA ConnIntro ==
  ASSUME NEW S \in SUBSET Page, NEW o \in BOOLEAN, NEW l \in Seq(S), NEW n \in Nat, n = Len(l),
         NEW q \in Sequence \cup {invalidSequence}, NEW t \in Nat
  PROVE  [open |-> o, pages |-> n, list |-> l, nextSeq |-> q, lastSeen |-> t] \in Conn(S)
<1>1. l \in Seq(Page)
  BY SeqMonotonic
<1> QED BY <1>1 DEF Conn, Connection

\* The Reassembly made of a page.
LEMMA ChunkIsChunk ==
  ASSUME NEW page \in Page, NEW span \in [cut : Nat, len : Nat, next : Sequence],
         NEW skip \in Int
  PROVE  Chunk(page, span, skip) \in ChunkType
BY DEF Page, Chunk, ChunkType

\* What byteSpan makes of the first page of a connection.
HeadSpan(w) == byteSpan(w.conn.nextSeq, Head(w.conn.list).seq, Head(w.conn.list).len)

\* What addNextFromConn does, and that it keeps a work state well-formed.
LEMMA addNextFromConnType ==
  ASSUME NEW S \in SUBSET Page, NEW w \in Work(S), w.conn.list # <<>>
  PROVE  /\ addNextFromConn(w) \in Work(S)
         /\ Head(w.conn.list) \in S
         /\ HeadSpan(w) \in [cut : Nat, len : Nat, next : Sequence]
         /\ addNextFromConn(w).conn.open = w.conn.open
         /\ addNextFromConn(w).conn.list = Tail(w.conn.list)
         /\ addNextFromConn(w).conn.nextSeq = HeadSpan(w).next
         /\ addNextFromConn(w).cache.used = w.cache.used - 1
         /\ \E skip \in Int :
              addNextFromConn(w).ret = Append(w.ret, Chunk(Head(w.conn.list), HeadSpan(w), skip))
<1> DEFINE first == Head(w.conn.list)
           diff  == Difference(w.conn.nextSeq, first.seq)
           skip  == IF w.conn.nextSeq = invalidSequence THEN -1
                    ELSE IF diff > 0 THEN diff
                    ELSE first.skip
           span  == HeadSpan(w)
           next  == addNextFromConn(w)
           page  == [first EXCEPT !.skip = skip]
<1>1. /\ w.conn \in Conn(S) /\ w.cache \in Cache /\ w.ret \in Seq(ChunkType)
  BY DEF Work
<1>2. /\ w.conn.list \in Seq(S) /\ w.conn.pages = Len(w.conn.list)
      /\ w.conn.nextSeq \in Sequence \cup {invalidSequence}
  BY <1>1, ConnFields
<1>3. /\ first \in S /\ Tail(w.conn.list) \in Seq(S)
      /\ Len(Tail(w.conn.list)) = Len(w.conn.list) - 1
  BY <1>2, HeadTailProperties
<1>4. /\ first \in Page
      /\ first.seq \in Sequence /\ first.len \in Nat /\ first.skip \in Int
  BY <1>3 DEF Page
<1>5. span \in [cut : Nat, len : Nat, next : Sequence]
  BY <1>2, <1>4, byteSpanType DEF HeadSpan
<1>6. skip \in Int
  <2>1. w.conn.nextSeq # invalidSequence => diff \in Int
    BY <1>2, <1>4, SeqSpaceAssumption, SMTT(30) DEF Difference, Wraps, Quarter, uint32Max, Sequence
  <2> QED BY <1>4, <2>1
<1> HIDE DEF skip, span, first
<1>7. page \in Page
  BY <1>4, <1>6 DEF Page
<1>8. <<page>> \in Seq(Page)
  BY <1>7
<1>9. /\ replace(w.cache, <<page>>) \in Cache
      /\ replace(w.cache, <<page>>).used = w.cache.used - 1
  <2>1. Len(<<page>>) = 1
    OBVIOUS
  <2> HIDE DEF page
  <2> QED BY <1>1, <1>8, <2>1, replaceType
<1>10. Chunk(first, span, skip) \in ChunkType
  BY <1>4, <1>5, <1>6, ChunkIsChunk
<1>11. Append(w.ret, Chunk(first, span, skip)) \in Seq(ChunkType)
  BY <1>1, <1>10, AppendProperties
<1>12. next = [conn  |-> [w.conn EXCEPT !.list = Tail(@), !.pages = @ - 1,
                                        !.nextSeq = span.next],
               cache |-> replace(w.cache, <<page>>),
               ret   |-> Append(w.ret, Chunk(first, span, skip))]
  BY DEF addNextFromConn, HeadSpan, first, span, skip
<1>13. [w.conn EXCEPT !.list = Tail(@), !.pages = @ - 1, !.nextSeq = span.next]
         = [open |-> w.conn.open, pages |-> w.conn.pages - 1, list |-> Tail(w.conn.list),
            nextSeq |-> span.next, lastSeen |-> w.conn.lastSeen]
  <2> DEFINE c == w.conn
             l == Tail(c.list)
             n == c.pages - 1
             q == span.next
             x == [c EXCEPT !.list = l]
             y == [x EXCEPT !.pages = n]
  <2>1. c \in Connection
    BY <1>1 DEF Conn
  <2> HIDE DEF c, l, n, q
  <2>2. x = [open |-> c.open, pages |-> c.pages, list |-> l,
             nextSeq |-> c.nextSeq, lastSeen |-> c.lastSeen]
    BY <2>1 DEF Connection
  <2> HIDE DEF x
  <2>3. y = [open |-> c.open, pages |-> n, list |-> l,
             nextSeq |-> c.nextSeq, lastSeen |-> c.lastSeen]
    BY <2>2
  <2> HIDE DEF y
  <2>4. [y EXCEPT !.nextSeq = q]
          = [open |-> c.open, pages |-> n, list |-> l, nextSeq |-> q, lastSeen |-> c.lastSeen]
    BY <2>3
  <2>5. [c EXCEPT !.list = l, !.pages = n, !.nextSeq = q] = [y EXCEPT !.nextSeq = q]
    BY Zenon DEF x, y
  <2> QED BY <2>4, <2>5, Zenon DEF c, l, n, q
<1>14. [w.conn EXCEPT !.list = Tail(@), !.pages = @ - 1, !.nextSeq = span.next] \in Conn(S)
  <2>1. w.conn.pages - 1 \in Nat /\ w.conn.pages - 1 = Len(Tail(w.conn.list))
    BY <1>2, <1>3, LenProperties
  <2>2. span.next \in Sequence \cup {invalidSequence}
    BY <1>5
  <2>3. w.conn.open \in BOOLEAN /\ w.conn.lastSeen \in Nat
    BY <1>1, ConnFields
  <2>4. [open |-> w.conn.open, pages |-> w.conn.pages - 1, list |-> Tail(w.conn.list),
         nextSeq |-> span.next, lastSeen |-> w.conn.lastSeen] \in Conn(S)
    BY <1>3, <2>1, <2>2, <2>3, ConnIntro, Zenon
  <2> QED BY <1>13, <2>4, Zenon
<1>15. next \in Work(S)
  BY <1>9, <1>11, <1>12, <1>14 DEF Work
<1>16. next.conn = [w.conn EXCEPT !.list = Tail(@), !.pages = @ - 1, !.nextSeq = span.next]
  BY <1>12
<1>17. /\ next.conn.open = w.conn.open
       /\ next.conn.list = Tail(w.conn.list)
       /\ next.conn.nextSeq = span.next
  BY <1>13, <1>16
<1>18. next.ret = Append(w.ret, Chunk(first, span, skip))
  BY <1>12
<1>19. next.cache.used = w.cache.used - 1
  BY <1>9, <1>12
<1> QED BY <1>3, <1>5, <1>6, <1>15, <1>17, <1>18, <1>19, Zenon DEF first, span

\* insertIntoConn buffers the pages of the segment and pops at most one page.
LEMMA insertIntoConnType ==
  ASSUME NEW S \in SUBSET Page, NEW w \in Work(S), NEW p \in Packets, NEW ts \in Nat,
         pagesFromTCP(p, w.cache, ts) \in Seq(S)
  PROVE  \E put \in Work(S) :
           /\ put.ret = w.ret
           /\ put.conn.open = w.conn.open
           /\ put.conn.nextSeq = w.conn.nextSeq
           /\ put.conn.list # <<>>
           /\ put.conn.list = pushBetween(w.conn.list, traverseConn(w.conn.list, seqOf(p)),
                                         pagesFromTCP(p, w.cache, ts))
           /\ put.cache.used = w.cache.used + PagesOf(p)
           /\ insertIntoConn(w, p, ts) =
                IF HitsLimit(put.conn, put.cache) THEN addNextFromConn(put) ELSE put
<1> DEFINE c    == w.conn
           run  == pagesFromTCP(p, w.cache, ts)
           i    == traverseConn(c.list, seqOf(p))
           list == pushBetween(c.list, i, run)
           n    == c.pages + Len(run)
           c1   == [c EXCEPT !.list = list]
           c2   == [c1 EXCEPT !.pages = n]
           h    == TakePages(w.cache, Len(run))
           put  == [conn |-> c2, cache |-> h, ret |-> w.ret]
<1>1. /\ c \in Conn(S) /\ w.cache \in Cache /\ w.ret \in Seq(ChunkType)
  BY DEF Work
<1>2. /\ c.list \in Seq(S) /\ c.list \in Seq(Page)
      /\ c.pages = Len(c.list) /\ Len(c.list) \in Nat
  BY <1>1, ConnFields
<1>3. /\ run \in Seq(S)
      /\ Len(run) \in 1 .. InitialAllocSize /\ Len(run) = PagesOf(p)
      /\ InitialAllocSize \in Nat
  BY <1>1, pagesFromTCPType, PagesOfProperties, AssemblyAssumption
<1>4. insertIntoConn(w, p, ts) =
        IF HitsLimit(put.conn, put.cache) THEN addNextFromConn(put) ELSE put
  <2> DEFINE q == [conn |-> [c EXCEPT !.list = list, !.pages = n], cache |-> h, ret |-> w.ret]
  <2>1. insertIntoConn(w, p, ts) = IF HitsLimit(q.conn, q.cache) THEN addNextFromConn(q) ELSE q
    BY Zenon DEF insertIntoConn
  <2>2. [c EXCEPT !.list = list, !.pages = n] = c2
    BY Zenon
  <2> HIDE DEF c2, list, n, h, c
  <2>3. q = put
    BY <2>2
  <2> HIDE DEF q, put
  <2> QED BY <2>1, <2>3
<1>5. i \in 0 .. Len(c.list)
  BY <1>2, traverseConnType
<1> HIDE DEF run, i, c
<1>6. /\ list \in Seq(S)
      /\ Len(list) = Len(c.list) + Len(run)
  BY <1>2, <1>3, <1>5, pushBetweenType
<1> HIDE DEF list
<1>7. Len(list) \in Nat /\ Len(list) > 0 /\ list # <<>>
  BY <1>2, <1>3, <1>6
<1>8. h \in Cache /\ h.used = w.cache.used + PagesOf(p)
  <2>1. Len(run) \in 0 .. InitialAllocSize
    BY <1>3
  <2> QED BY <1>1, <1>3, <2>1, TakePagesType
<1> HIDE DEF h
<1>9. c1 = [open |-> c.open, pages |-> c.pages, list |-> list,
            nextSeq |-> c.nextSeq, lastSeen |-> c.lastSeen]
  BY <1>1 DEF Conn, Connection
<1> HIDE DEF c1
<1>10. n \in Nat /\ n = Len(list)
  BY <1>2, <1>6, <1>7
<1> HIDE DEF n
<1>11. c2 = [open |-> c.open, pages |-> n, list |-> list,
            nextSeq |-> c.nextSeq, lastSeen |-> c.lastSeen]
  BY <1>9
<1>12. c2 \in Conn(S)
  <2>2. /\ c.open \in BOOLEAN /\ c.lastSeen \in Nat
        /\ c.nextSeq \in Sequence \cup {invalidSequence}
    BY <1>1, ConnFields
  <2>3. [open |-> c.open, pages |-> n, list |-> list,
         nextSeq |-> c.nextSeq, lastSeen |-> c.lastSeen] \in Conn(S)
    BY <1>6, <1>10, <2>2, ConnIntro, Zenon
  <2> QED BY <1>11, <2>3, Zenon
<1> HIDE DEF c2
<1>13. put \in Work(S)
  BY <1>1, <1>8, <1>12 DEF Work
<1>14. /\ c2.open = c.open /\ c2.nextSeq = c.nextSeq /\ c2.list # <<>>
       /\ c2.list = list
  BY <1>7, <1>11
<1>15. /\ put.ret = w.ret
       /\ put.conn.open = w.conn.open
       /\ put.conn.nextSeq = w.conn.nextSeq
       /\ put.conn.list # <<>> /\ put.conn.list = list
       /\ put.cache.used = w.cache.used + PagesOf(p)
  BY <1>8, <1>14 DEF c
<1> HIDE DEF put
<1>16. put.conn.list = pushBetween(w.conn.list, traverseConn(w.conn.list, seqOf(p)),
                                   pagesFromTCP(p, w.cache, ts))
  BY <1>15, Zenon DEF list, run, i, c
<1> QED BY <1>4, <1>13, <1>15, <1>16

\* A new connection object, and a connection that saw a segment.
LEMMA SeenType ==
  ASSUME NEW S \in SUBSET Page, NEW c \in Conn(S), now \in Nat
  PROVE  /\ Seen(c) \in Conn(S)
         /\ Seen(c).open = c.open /\ Seen(c).list = c.list /\ Seen(c).nextSeq = c.nextSeq
<1> DEFINE t == IF c.lastSeen < now THEN now ELSE c.lastSeen
<1>1. /\ c.open \in BOOLEAN /\ c.pages = Len(c.list) /\ c.list \in Seq(S)
      /\ Len(c.list) \in Nat /\ c.lastSeen \in Nat
      /\ c.nextSeq \in Sequence \cup {invalidSequence}
  BY ConnFields
<1>2. t \in Nat
  BY <1>1
<1> HIDE DEF t
<1>3. Seen(c) = [c EXCEPT !.lastSeen = t]
  BY Zenon DEF Seen, t
<1>4. [c EXCEPT !.lastSeen = t] = [open |-> c.open, pages |-> c.pages, list |-> c.list,
                 nextSeq |-> c.nextSeq, lastSeen |-> t]
  BY DEF Conn, Connection
<1>5. [open |-> c.open, pages |-> c.pages, list |-> c.list,
       nextSeq |-> c.nextSeq, lastSeen |-> t] \in Conn(S)
  BY <1>1, <1>2, ConnIntro
<1> QED BY <1>3, <1>4, <1>5

\* No connection, and a connection object after reset().
LEMMA NoConnectionType ==
  ASSUME NEW S \in SUBSET Page
  PROVE  /\ NoConnection \in Conn(S) /\ NoConnection.list = <<>> /\ ~ NoConnection.open
         /\ reset \in Conn(S) /\ reset.list = <<>> /\ reset.open
<1>1. <<>> \in Seq(S) /\ Len(<<>>) = 0
  OBVIOUS
<1>2. ASSUME NEW o \in BOOLEAN
      PROVE  [open |-> o, pages |-> 0, list |-> <<>>,
              nextSeq |-> invalidSequence, lastSeen |-> 0] \in Conn(S)
  BY <1>1, ConnIntro
<1>3. reset = [open |-> TRUE, pages |-> 0, list |-> <<>>,
               nextSeq |-> invalidSequence, lastSeen |-> 0]
  <2> DEFINE f == FALSE
             t == TRUE
             e == <<>>
             i == invalidSequence
             z == 0
  <2> HIDE DEF f, t, e, i, z
  <2>1. [[open |-> f, pages |-> z, list |-> e, nextSeq |-> i, lastSeen |-> z] EXCEPT !.open = t]
          = [open |-> t, pages |-> z, list |-> e, nextSeq |-> i, lastSeen |-> z]
    OBVIOUS
  <2> QED BY <2>1, Zenon DEF f, t, e, i, z, reset, NoConnection
<1> QED BY <1>2, <1>3 DEF NoConnection

\* Setting nextSeq keeps a connection well-formed.
LEMMA NextSeqType ==
  ASSUME NEW S \in SUBSET Page, NEW c \in Conn(S), NEW n \in Sequence
  PROVE  /\ [c EXCEPT !.nextSeq = n] \in Conn(S)
         /\ [c EXCEPT !.nextSeq = n].open = c.open
         /\ [c EXCEPT !.nextSeq = n].list = c.list
         /\ [c EXCEPT !.nextSeq = n].nextSeq = n
<1>1. [c EXCEPT !.nextSeq = n] = [open |-> c.open, pages |-> c.pages, list |-> c.list,
                 nextSeq |-> n, lastSeen |-> c.lastSeen]
  BY DEF Conn, Connection
<1>2. /\ c.open \in BOOLEAN /\ c.pages = Len(c.list) /\ c.list \in Seq(S)
      /\ Len(c.list) \in Nat /\ c.lastSeen \in Nat
  BY ConnFields
<1>3. [open |-> c.open, pages |-> c.pages, list |-> c.list,
                 nextSeq |-> n, lastSeen |-> c.lastSeen] \in Conn(S)
  BY <1>2, ConnIntro
<1> QED BY <1>1, <1>3

-----------------------------------------------------------------------------
(* The inductive invariant.  S is a set the buffered pages stay in, Page   *)
(* itself for type correctness.                                            *)

Holds(S) == \A p \in Packets, c \in Cache, ts \in Nat : pagesFromTCP(p, c, ts) \in Seq(S)

WellFormed(S) ==
  /\ conns \in [Keys -> Conn(S)]
  /\ \A k \in Keys : ~ conns[k].open => conns[k].list = <<>>
  /\ cache \in Cache
  /\ ret \in Seq(ChunkType)
  /\ phase = "gather" => ret # <<>>
  /\ phase \in Phases
  /\ key \in Keys
  /\ flush \in [op : {"none", "older", "all"}, before : Nat, todo : Seq(Keys)]
  /\ streams \in [Keys -> StreamType]
  /\ now \in 0 .. MaxTime
  /\ packets \in 0 .. MaxPackets

\* The pages of every segment are pages.
LEMMA HoldsPage == Holds(Page)
BY pagesFromTCPType DEF Holds

\* What well-formed states give: types, no lost page, counted pages.
LEMMA WellFormedTypeOK ==
  ASSUME NEW S \in SUBSET Page, WellFormed(S)
  PROVE  TypeOK /\ PagesConserved /\ PagesCounted
<1>1. conns \in [Keys -> Connection]
  BY DEF WellFormed, Conn
<1>2. \A k \in Keys : conns[k].pages = Len(conns[k].list)
  BY DEF WellFormed, Conn
<1>3. cache \in PageCache /\ cache.used + Len(cache.free) = cache.size
  BY DEF WellFormed, Cache
<1> QED BY <1>1, <1>2, <1>3 DEF WellFormed, TypeOK, PagesConserved, PagesCounted

\* A new stream, and none.
LEMMA NewStreamType ==
  /\ Contract!NewStream \in StreamType
  /\ [Contract!NewStream EXCEPT !.state = "none"] \in StreamType
<1>1. <<>> \in Seq(ChunkType)
  OBVIOUS
<1>2. [Contract!NewStream EXCEPT !.state = "none"] =
        [state |-> "none", next |-> Contract!Unknown, batch |-> <<>>, ended |-> FALSE]
  <2> DEFINE f == FALSE
             o == "open"
             n == "none"
             e == <<>>
             u == Contract!Unknown
  <2> HIDE DEF f, o, n, e, u
  <2>1. [[state |-> o, next |-> u, batch |-> e, ended |-> f] EXCEPT !.state = n]
          = [state |-> n, next |-> u, batch |-> e, ended |-> f]
    OBVIOUS
  <2> QED BY <2>1, Zenon DEF f, o, n, e, u, Contract!NewStream
<1> QED BY <1>1, <1>2 DEF Contract!NewStream, StreamType

\* NewAssembler and NewStreamPool make a well-formed state.
LEMMA WellFormedInit ==
  ASSUME NEW S \in SUBSET Page, Init
  PROVE  WellFormed(S)
<1>1. conns \in [Keys -> Conn(S)] /\ \A k \in Keys : conns[k].list = <<>>
  BY NoConnectionType DEF Init
<1>2. cache \in Cache
  BY newPageCacheType DEF Init
<1>3. ret \in Seq(ChunkType) /\ phase \in Phases /\ phase # "gather" /\ key \in Keys
  BY DEF Init, Phases
<1>4. flush \in [op : {"none", "older", "all"}, before : Nat, todo : Seq(Keys)]
  BY DEF Init, NoFlush
<1>5. streams \in [Keys -> StreamType]
  BY NewStreamType DEF Init
<1>6. now \in 0 .. MaxTime /\ packets \in 0 .. MaxPackets
  BY AssemblyAssumption DEF Init
<1> QED BY <1>1, <1>2, <1>3, <1>4, <1>5, <1>6 DEF WellFormed

\* Writing back a well-formed work state.
LEMMA CommitType ==
  ASSUME NEW CONSTANT S \in SUBSET Page, WellFormed(S), NEW k \in Keys, NEW w \in Work(S),
         w.conn.open \/ w.conn.list = <<>>, Commit(k, w)
  PROVE  /\ conns' \in [Keys -> Conn(S)]
         /\ \A j \in Keys : ~ conns'[j].open => conns'[j].list = <<>>
         /\ cache' \in Cache
         /\ ret' \in Seq(ChunkType)
         /\ conns'[k] = w.conn /\ \A j \in Keys : j # k => conns'[j] = conns[j]
<1>1. w.conn \in Conn(S) /\ w.cache \in Cache /\ w.ret \in Seq(ChunkType)
  BY DEF Work
<1>2. conns \in [Keys -> Conn(S)] /\ conns' = [conns EXCEPT ![k] = w.conn]
  BY DEF WellFormed, Commit
<1>3. conns'[k] = w.conn /\ \A j \in Keys : j # k => conns'[j] = conns[j]
  BY <1>2
<1>4. conns' \in [Keys -> Conn(S)]
  BY <1>1, <1>2
<1> QED BY <1>1, <1>3, <1>4 DEF WellFormed, Commit

\* A stream after a Reassembled call.
LEMMA ReceivedType ==
  ASSUME NEW s \in StreamType, NEW b \in Seq(ChunkType), b # <<>>
  PROVE  /\ Contract!Received(s, b) \in StreamType
         /\ Contract!Received(s, b).state = s.state
         /\ Contract!Received(s, b).next = Contract!ChunkEnd(b[Len(b)])
         /\ Contract!Received(s, b).next \in Nat
         /\ Contract!Received(s, b).batch = b
<1> DEFINE n == Contract!ChunkEnd(b[Len(b)])
           e == s.ended \/ \E i \in DOMAIN b : b[i].end
           x == [s EXCEPT !.next = n]
           y == [x EXCEPT !.batch = b]
<1>1. n \in Nat
  <2>1. Len(b) \in 1 .. Len(b)
    BY EmptySeq, LenProperties
  <2>2. b[Len(b)] \in ChunkType
    BY <2>1, ElementOfSeq
  <2> QED BY <2>2 DEF ChunkType, Contract!ChunkEnd
<1>2. s.state \in {"none", "open", "complete"}
  BY DEF StreamType
<1>3. e \in BOOLEAN
  <2>1. s.ended \in BOOLEAN
    BY DEF StreamType
  <2> QED BY <2>1
<1> HIDE DEF n, e
<1>4. x = [state |-> s.state, next |-> n, batch |-> s.batch, ended |-> s.ended]
  BY DEF StreamType
<1> HIDE DEF x
<1>5. y = [state |-> s.state, next |-> n, batch |-> b, ended |-> s.ended]
  BY <1>4
<1> HIDE DEF y
<1>6. [y EXCEPT !.ended = e] = [state |-> s.state, next |-> n, batch |-> b, ended |-> e]
  BY <1>5
<1>7. Contract!Received(s, b) = [y EXCEPT !.ended = e]
  BY Zenon DEF Contract!Received, x, y, n, e
<1>8. [state |-> s.state, next |-> n, batch |-> b, ended |-> e] \in StreamType
  BY <1>1, <1>2, <1>3 DEF StreamType
<1> QED BY <1>1, <1>6, <1>7, <1>8 DEF n

\* A stream after ReassemblyComplete.
LEMMA CompletedType ==
  ASSUME NEW s \in StreamType
  PROVE  /\ Contract!Completed(s) \in StreamType
         /\ Contract!Completed(s).state = "complete"
<1> DEFINE n == "complete"
           e == <<>>
           x == [s EXCEPT !.state = n]
<1>1. e \in Seq(ChunkType)
  OBVIOUS
<1> HIDE DEF n, e
<1>2. x = [state |-> n, next |-> s.next, batch |-> s.batch, ended |-> s.ended]
  BY DEF StreamType
<1> HIDE DEF x
<1>3. [x EXCEPT !.batch = e] = [state |-> n, next |-> s.next, batch |-> e, ended |-> s.ended]
  BY <1>2
<1>4. Contract!Completed(s) = [x EXCEPT !.batch = e]
  BY Zenon DEF Contract!Completed, x, n, e
<1>5. [state |-> n, next |-> s.next, batch |-> e, ended |-> s.ended] \in StreamType
  BY <1>1 DEF StreamType, n
<1> QED BY <1>3, <1>4, <1>5 DEF n

\* The work state in which AssembleFirst and AssembleAhead insert.
LEMMA InsertType ==
  ASSUME NEW CONSTANT S \in SUBSET Page, Holds(S), now \in Nat,
         NEW p \in Packets, NEW c \in Conn(S), NEW h \in Cache, NEW r \in Seq(ChunkType), c.open
  PROVE  /\ insertIntoConn([conn |-> c, cache |-> h, ret |-> r], p, now) \in Work(S)
         /\ insertIntoConn([conn |-> c, cache |-> h, ret |-> r], p, now).conn.open
         /\ r # <<>> => insertIntoConn([conn |-> c, cache |-> h, ret |-> r], p, now).ret # <<>>
<1> DEFINE v == [conn |-> c, cache |-> h, ret |-> r]
           w == insertIntoConn(v, p, now)
<1>1. v \in Work(S) /\ v.conn = c /\ v.cache = h /\ v.ret = r
  BY DEF Work
<1>2. pagesFromTCP(p, v.cache, now) \in Seq(S)
  BY <1>1 DEF Holds
<1> HIDE DEF v
<1>3. PICK put \in Work(S) :
           /\ put.ret = r
           /\ put.conn.open
           /\ put.conn.list # <<>>
           /\ w \in {put, addNextFromConn(put)}
  BY <1>1, <1>2, insertIntoConnType
<1> SUFFICES w \in Work(S) /\ w.conn.open /\ (r # <<>> => w.ret # <<>>)
  BY Zenon DEF v
<1> HIDE DEF w
<1>4. CASE w = put
  BY <1>3, <1>4
<1>5. CASE w = addNextFromConn(put)
  <2>1. /\ w \in Work(S) /\ w.conn.open = put.conn.open
        /\ \E skip \in Int :
              w.ret = Append(put.ret, Chunk(Head(put.conn.list), HeadSpan(put), skip))
    BY <1>3, <1>5, addNextFromConnType
  <2>2. PICK x : w.ret = Append(r, x)
    BY <1>3, <2>1
  <2>3. w.ret # <<>>
    BY <2>2, AppendProperties, LenProperties
  <2> QED BY <1>3, <2>1, <2>3
<1> QED BY <1>3, <1>4, <1>5

\* The connections, clocks and counters of a well-formed state.
LEMMA WellFormedFacts ==
  ASSUME NEW S \in SUBSET Page, WellFormed(S)
  PROVE  /\ now \in Nat /\ packets \in Nat /\ key \in Keys
         /\ cache \in Cache /\ ret \in Seq(ChunkType)
         /\ \A k \in Keys : conns[k] \in Conn(S) /\ streams[k] \in StreamType
BY AssemblyAssumption DEF WellFormed

\* The Reassembly of the first segment of a connection.
LEMMA FirstChunkType ==
  ASSUME NEW p \in Packets
  PROVE  [at |-> p.pos + (IF p.syn THEN 1 ELSE 0), len |-> p.len,
          skip |-> IF p.syn THEN 0 ELSE -1, start |-> p.syn, end |-> FALSE] \in ChunkType
<1>1. p.pos \in Nat /\ p.len \in Nat /\ p.syn \in BOOLEAN
  BY PacketsAssumption DEF Segment
<1> DEFINE a == p.pos + (IF p.syn THEN 1 ELSE 0)
           k == IF p.syn THEN 0 ELSE -1
<1>2. a \in Nat /\ k \in Int
  BY <1>1
<1> HIDE DEF a, k
<1>3. [at |-> a, len |-> p.len, skip |-> k, start |-> p.syn, end |-> FALSE] \in ChunkType
  BY <1>1, <1>2 DEF ChunkType
<1> QED BY <1>3 DEF a, k

\* One chunk is a sequence of chunks.
LEMMA SingletonSeq ==
  ASSUME NEW S, NEW x \in S
  PROVE  <<x>> \in Seq(S) /\ <<x>> # <<>>
OBVIOUS

\* The segment that creates a connection.
LEMMA AssembleFirstType ==
  ASSUME NEW CONSTANT S \in SUBSET Page, Holds(S), WellFormed(S),
         NEW k \in Keys, NEW p \in Packets, AssembleFirst(k, p)
  PROVE  WellFormed(S)'
<1> DEFINE n == Add(seqOf(p), p.len + (IF p.syn THEN 1 ELSE 0))
           b == Seen(reset)
           c == [b EXCEPT !.nextSeq = n]
           x == [at |-> p.pos + (IF p.syn THEN 1 ELSE 0), len |-> p.len,
                 skip |-> IF p.syn THEN 0 ELSE -1, start |-> p.syn, end |-> FALSE]
           w == insertIntoConn([conn |-> c, cache |-> cache, ret |-> <<x>>], p, now)
<1>1. now \in Nat /\ cache \in Cache
  BY WellFormedFacts
<1>2. n \in Sequence
  <2>1. p.pos \in Nat /\ p.len \in Nat /\ p.syn \in BOOLEAN
    BY PacketsAssumption DEF Segment
  <2>2. p.len + (IF p.syn THEN 1 ELSE 0) \in Nat
    BY <2>1
  <2> QED BY <2>2, seqOfType, AddInSequence
<1>3. b \in Conn(S) /\ b.open
  BY <1>1, NoConnectionType, SeenType
<1> HIDE DEF b, n
<1>4. c \in Conn(S) /\ c.open
  BY <1>2, <1>3, NextSeqType
<1>5. x \in ChunkType
  BY FirstChunkType
<1> HIDE DEF x, c
<1>6. <<x>> \in Seq(ChunkType) /\ <<x>> # <<>>
  BY <1>5
<1>7. w \in Work(S) /\ w.conn.open /\ w.ret # <<>>
  BY <1>1, <1>4, <1>6, InsertType
<1>8. Commit(k, w)
  BY DEF AssembleFirst, b, n, x, c
<1> HIDE DEF w
<1>9. /\ conns' \in [Keys -> Conn(S)]
      /\ \A j \in Keys : ~ conns'[j].open => conns'[j].list = <<>>
      /\ cache' \in Cache
      /\ ret' \in Seq(ChunkType)
  BY <1>7, <1>8, CommitType
<1>10. ret' # <<>>
  BY <1>7, <1>8 DEF Commit
<1>11. streams' \in [Keys -> StreamType]
  BY NewStreamType DEF WellFormed, AssembleFirst
<1>12. packets' \in 0 .. MaxPackets /\ now' = now /\ flush' = flush /\ key' \in Keys
       /\ phase' = "gather"
  BY AssemblyAssumption DEF WellFormed, AssembleFirst, Arrives
<1> QED BY <1>9, <1>10, <1>11, <1>12 DEF WellFormed, Phases

\* A segment beyond the expected byte.
LEMMA AssembleAheadType ==
  ASSUME NEW CONSTANT S \in SUBSET Page, Holds(S), WellFormed(S),
         NEW k \in Keys, NEW p \in Packets, AssembleAhead(k, p)
  PROVE  WellFormed(S)'
<1> DEFINE c == Seen(conns[k])
           w == insertIntoConn([conn |-> c, cache |-> cache, ret |-> <<>>], p, now)
<1>1. now \in Nat /\ cache \in Cache /\ <<>> \in Seq(ChunkType)
  BY WellFormedFacts
<1>2. c \in Conn(S) /\ c.open
  BY <1>1, WellFormedFacts, SeenType DEF AssembleAhead
<1> HIDE DEF c
<1>3. w \in Work(S) /\ w.conn.open
  BY <1>1, <1>2, InsertType
<1>4. /\ Commit(k, w)
      /\ phase' = IF InsertPanics(c) THEN "panic" ELSE IF w.ret = <<>> THEN "idle" ELSE "gather"
  BY Zenon DEF AssembleAhead, c
<1> HIDE DEF w
<1>5. /\ conns' \in [Keys -> Conn(S)]
      /\ \A j \in Keys : ~ conns'[j].open => conns'[j].list = <<>>
      /\ cache' \in Cache
      /\ ret' \in Seq(ChunkType)
  BY <1>3, <1>4, CommitType
<1>6. phase' \in Phases /\ (phase' = "gather" => ret' # <<>>)
  BY <1>4 DEF Commit, Phases
<1>7. packets' \in 0 .. MaxPackets /\ now' = now /\ flush' = flush /\ key' \in Keys
      /\ streams' = streams
  BY AssemblyAssumption DEF WellFormed, AssembleAhead, Arrives
<1> QED BY <1>5, <1>6, <1>7 DEF WellFormed

\* A segment that starts at or before the expected byte.
LEMMA AssembleDueType ==
  ASSUME NEW CONSTANT S \in SUBSET Page, WellFormed(S),
         NEW k \in Keys, NEW p \in Packets, AssembleDue(k, p)
  PROVE  WellFormed(S)'
<1> DEFINE c == Seen(conns[k])
           span == byteSpan(c.nextSeq, seqOf(p), p.len)
           x == Chunk([at |-> p.pos, end |-> p.fin], span, 0)
           d == [c EXCEPT !.nextSeq = span.next]
           w == [conn |-> d, cache |-> cache, ret |-> <<x>>]
<1>0. p.pos \in Nat /\ p.len \in Nat /\ p.fin \in BOOLEAN
  BY PacketsAssumption DEF Segment
<1>1. now \in Nat /\ cache \in Cache
  BY WellFormedFacts
<1>2. c \in Conn(S) /\ c.open
  BY <1>1, WellFormedFacts, SeenType DEF AssembleDue
<1> HIDE DEF c
<1>3. span \in [cut : Nat, len : Nat, next : Sequence]
  BY <1>0, <1>2, ConnFields, seqOfType, byteSpanType
<1> HIDE DEF span
<1>4. x \in ChunkType
  BY <1>0, <1>3 DEF Chunk, ChunkType
<1> HIDE DEF x
<1>5. d \in Conn(S) /\ d.open
  BY <1>2, <1>3, NextSeqType
<1> HIDE DEF d
<1>6. w \in Work(S) /\ w.conn.open /\ w.ret # <<>>
  BY <1>1, <1>4, <1>5, SingletonSeq DEF Work
<1>7. Commit(k, w)
  BY Zenon DEF AssembleDue, c, span, x, d
<1> HIDE DEF w
<1>8. /\ conns' \in [Keys -> Conn(S)]
      /\ \A j \in Keys : ~ conns'[j].open => conns'[j].list = <<>>
      /\ cache' \in Cache
      /\ ret' \in Seq(ChunkType)
  BY <1>6, <1>7, CommitType
<1>9. ret' # <<>>
  BY <1>6, <1>7 DEF Commit
<1>10. packets' \in 0 .. MaxPackets /\ now' = now /\ flush' = flush /\ key' \in Keys
       /\ phase' = "gather" /\ streams' = streams
  BY AssemblyAssumption DEF WellFormed, AssembleDue, Arrives
<1> QED BY <1>8, <1>9, <1>10 DEF WellFormed, Phases

\* addContiguous and skipFlush move the first page of a connection to ret.
LEMMA PopType ==
  ASSUME NEW CONSTANT S \in SUBSET Page, WellFormed(S), NEW k \in Keys,
         NEW r \in Seq(ChunkType), conns[k].list # <<>>,
         Commit(k, addNextFromConn([conn |-> conns[k], cache |-> cache, ret |-> r]))
  PROVE  /\ conns' \in [Keys -> Conn(S)]
         /\ \A j \in Keys : ~ conns'[j].open => conns'[j].list = <<>>
         /\ cache' \in Cache
         /\ ret' \in Seq(ChunkType)
         /\ ret' # <<>>
<1> DEFINE v == [conn |-> conns[k], cache |-> cache, ret |-> r]
           w == addNextFromConn(v)
<1>1. v \in Work(S) /\ v.conn = conns[k] /\ v.ret = r
  BY WellFormedFacts DEF Work
<1>2. Commit(k, w)
  OBVIOUS
<1> HIDE DEF v
<1>3. /\ w \in Work(S) /\ w.conn.open = conns[k].open
      /\ \E skip \in Int : w.ret = Append(r, Chunk(Head(v.conn.list), HeadSpan(v), skip))
  BY <1>1, addNextFromConnType
<1> HIDE DEF w
<1>4. w.ret # <<>>
  <2>1. PICK x : w.ret = Append(r, x)
    BY <1>3
  <2> QED BY <2>1
<1>5. w.conn.open
  BY <1>3 DEF WellFormed
<1> QED BY <1>2, <1>3, <1>4, <1>5, CommitType DEF Commit

\* An order of a set of keys is a sequence of keys.
LEMMA OrdersType ==
  ASSUME NEW T \in SUBSET Keys
  PROVE  Orders(T) \subseteq Seq(Keys)
<1>1. Cardinality(T) \in Nat
  BY AssemblyAssumption, FS_Subset, FS_CardinalityType
<1>2. ASSUME NEW q \in Orders(T) PROVE q \in Seq(Keys)
  <2>1. q \in [1 .. Cardinality(T) -> Keys]
    BY DEF Orders
  <2> QED BY <1>1, <2>1
<1> QED BY <1>2

\* A flush walks a sequence of keys.
LEMMA BeginFlushType ==
  ASSUME NEW CONSTANT S \in SUBSET Page, WellFormed(S),
         NEW op \in {"older", "all"}, NEW t \in Nat, BeginFlush(op, t)
  PROVE  WellFormed(S)'
<1>1. PICK order \in Orders(OpenKeys) : flush' = [op |-> op, before |-> t, todo |-> order]
  BY DEF BeginFlush
<1>2. order \in Seq(Keys)
  BY <1>1, OrdersType DEF OpenKeys
<1>3. flush' \in [op : {"none", "older", "all"}, before : Nat, todo : Seq(Keys)]
  BY <1>1, <1>2
<1> QED BY <1>3 DEF BeginFlush, WellFormed, Phases

\* Every step keeps a well-formed state well-formed.
LEMMA WellFormedStep ==
  ASSUME NEW CONSTANT S \in SUBSET Page, Holds(S), WellFormed(S), [Next]_vars
  PROVE  WellFormed(S)'
<1>1. CASE Tick
  <2>1. now' \in 0 .. MaxTime
    BY <1>1, AssemblyAssumption DEF Tick, WellFormed
  <2> QED BY <1>1, <2>1 DEF Tick, WellFormed
<1>2. ASSUME NEW k \in Keys, NEW p \in Packets, AssembleFirst(k, p) PROVE WellFormed(S)'
  BY <1>2, AssembleFirstType
<1>3. ASSUME NEW k \in Keys, NEW p \in Packets, AssembleAhead(k, p) PROVE WellFormed(S)'
  BY <1>3, AssembleAheadType
<1>4. ASSUME NEW k \in Keys, NEW p \in Packets, AssembleDue(k, p) PROVE WellFormed(S)'
  BY <1>4, AssembleDueType
<1>5. CASE FlushOlderThan
  <2>1. PICK t \in 1 .. now + 1 : BeginFlush("older", t)
    BY <1>5 DEF FlushOlderThan
  <2>2. t \in Nat
    BY <2>1, WellFormedFacts
  <2> QED BY <2>1, <2>2, BeginFlushType
<1>6. CASE FlushAll
  BY <1>6, BeginFlushType DEF FlushAll
<1>7. CASE addContiguous
  <2>1. key \in Keys /\ ret \in Seq(ChunkType)
    BY DEF WellFormed
  <2>2. conns[key].list # <<>>
    BY <1>7 DEF addContiguous, FirstIsDue
  <2>3. Commit(key, addNextFromConn([conn |-> conns[key], cache |-> cache, ret |-> ret]))
    BY <1>7 DEF addContiguous
  <2>4. /\ conns' \in [Keys -> Conn(S)]
        /\ \A j \in Keys : ~ conns'[j].open => conns'[j].list = <<>>
        /\ cache' \in Cache /\ ret' \in Seq(ChunkType) /\ ret' # <<>>
    BY <2>1, <2>2, <2>3, PopType
  <2> QED BY <1>7, <2>4 DEF addContiguous, WellFormed
<1>8. CASE sendToConnection
  <2>1. key \in Keys /\ ret \in Seq(ChunkType) /\ ret # <<>> /\ streams[key] \in StreamType
    BY <1>8 DEF sendToConnection, WellFormed
  <2>2. Contract!Received(streams[key], ret) \in StreamType
    BY <2>1, ReceivedType
  <2>3. streams' \in [Keys -> StreamType]
    BY <1>8, <2>2 DEF sendToConnection, WellFormed
  <2>4. phase' \in Phases /\ phase' # "gather" /\ ret' \in Seq(ChunkType)
    BY <1>8 DEF sendToConnection, Resume, Phases
  <2> QED BY <1>8, <2>3, <2>4 DEF sendToConnection, WellFormed
<1>9. CASE closeConnection
  <2>1. key \in Keys /\ conns[key] \in Conn(S) /\ streams[key] \in StreamType /\ cache \in Cache
    BY WellFormedFacts
  <2>2. Contract!Completed(streams[key]) \in StreamType
    BY <2>1, CompletedType
  <2>3. streams' \in [Keys -> StreamType]
    BY <1>9, <2>2 DEF closeConnection, WellFormed
  <2>4. replace(cache, conns[key].list) \in Cache
    BY <2>1, ConnFields, replaceType
  <2>5. /\ conns' \in [Keys -> Conn(S)]
        /\ \A j \in Keys : ~ conns'[j].open => conns'[j].list = <<>>
    BY <1>9, NoConnectionType DEF closeConnection, WellFormed
  <2>6. phase' \in Phases /\ phase' # "gather"
    BY <1>9 DEF closeConnection, Resume, Phases
  <2> QED BY <1>9, <2>3, <2>4, <2>5, <2>6 DEF closeConnection, WellFormed
<1>10. ASSUME NEW k \in Keys, skipFlush(k) PROVE WellFormed(S)'
  <2>1. conns[k].list # <<>> /\ <<>> \in Seq(ChunkType)
    BY <1>10 DEF skipFlush, MustPush
  <2>2. Commit(k, addNextFromConn([conn |-> conns[k], cache |-> cache, ret |-> <<>>]))
    BY <1>10 DEF skipFlush
  <2>3. /\ conns' \in [Keys -> Conn(S)]
        /\ \A j \in Keys : ~ conns'[j].open => conns'[j].list = <<>>
        /\ cache' \in Cache /\ ret' \in Seq(ChunkType) /\ ret' # <<>>
    BY <2>1, <2>2, PopType
  <2> QED BY <1>10, <2>3 DEF skipFlush, WellFormed, Phases
<1>11. ASSUME NEW k \in Keys, FlushCloses(k) PROVE WellFormed(S)'
  BY <1>11 DEF FlushCloses, WellFormed, Phases
<1>12. ASSUME NEW k \in Keys, FlushNextConn(k) PROVE WellFormed(S)'
  <2>1. flush.todo \in Seq(Keys) /\ flush.todo # <<>>
    BY <1>12 DEF FlushNextConn, Flushing, WellFormed
  <2>2. Tail(flush.todo) \in Seq(Keys)
    BY <2>1, HeadTailProperties
  <2>3. flush' \in [op : {"none", "older", "all"}, before : Nat, todo : Seq(Keys)]
    BY <1>12, <2>2 DEF FlushNextConn, WellFormed
  <2> QED BY <1>12, <2>3 DEF FlushNextConn, WellFormed
<1>13. CASE FlushReturns
  <2>1. NoFlush \in [op : {"none", "older", "all"}, before : Nat, todo : Seq(Keys)]
    BY DEF NoFlush
  <2> QED BY <1>13, <2>1 DEF FlushReturns, WellFormed, Phases
<1>14. CASE UNCHANGED vars
  BY <1>14 DEF vars, WellFormed
<1> QED BY <1>1, <1>2, <1>3, <1>4, <1>5, <1>6, <1>7, <1>8, <1>9, <1>10, <1>11, <1>12,
           <1>13, <1>14 DEF Next, Call, Continue

-----------------------------------------------------------------------------
\* Type correctness, for any keys, packets, page size and limits.
THEOREM TypeCorrect == Spec => []TypeOK
<1>1. Init => WellFormed(Page)
  BY WellFormedInit
<1>2. WellFormed(Page) /\ [Next]_vars => WellFormed(Page)'
  BY HoldsPage, WellFormedStep
<1>3. WellFormed(Page) => TypeOK
  BY WellFormedTypeOK
<1> QED BY <1>1, <1>2, <1>3, PTL DEF Spec

\* The page cache loses no page and the page count of every connection is the
\* number of pages it buffers, whatever the assembler did before.
THEOREM PagesAccounted == Spec => [](PagesConserved /\ PagesCounted)
<1>1. Init => WellFormed(Page)
  BY WellFormedInit
<1>2. WellFormed(Page) /\ [Next]_vars => WellFormed(Page)'
  BY HoldsPage, WellFormedStep
<1>3. WellFormed(Page) => PagesConserved /\ PagesCounted
  BY WellFormedTypeOK
<1> QED BY <1>1, <1>2, <1>3, PTL DEF Spec

-----------------------------------------------------------------------------
(* Order of delivery.  Difference is exact as long as no sequence number   *)
(* of the capture lies in the last quarter of the sequence space.          *)

NoRollOver == \A p \in Packets : Isn + p.pos + p.len + 1 <= uint32Max - Quarter

\* The last position whose sequence number lies before the last quarter.
Top == uint32Max - Quarter - Isn

\* Pages that hold the bytes their sequence number says.
Located == {g \in Page : g.seq = Isn + g.at /\ g.at + g.len <= Top}

\* The bounds of the sequence space without its last quarter.
LEMMA TopType ==
  /\ Top \in Int /\ Isn \in Nat /\ SeqSpace \in Nat
  /\ uint32Max \in Nat /\ Quarter \in Nat /\ uint32Max - Quarter \in Nat
  /\ Isn + Top = uint32Max - Quarter
<1>1. SeqSpace \in Nat /\ SeqSpace >= 8 /\ Isn \in 0 .. SeqSpace - 1
  BY SeqSpaceAssumption, AssemblyAssumption DEF Sequence, uint32Max
<1>2. uint32Max = SeqSpace - 1 /\ uint32Max \in Nat
  BY <1>1 DEF uint32Max
<1>3. Quarter \in Nat /\ Quarter <= uint32Max
  BY <1>2 DEF Quarter
<1> QED BY <1>1, <1>2, <1>3 DEF Top

\* Add does not wrap around below the last quarter.
LEMMA AddExact ==
  ASSUME NEW a \in Nat, NEW n \in Nat, Isn + a + n <= uint32Max - Quarter
  PROVE  Add(Isn + a, n) = Isn + a + n
<1>1. Isn + a + n \in 0 .. SeqSpace - 1
  BY TopType, SeqSpaceAssumption DEF uint32Max
<1>2. \A x \in 0 .. SeqSpace - 1 : x % SeqSpace = x
  BY SeqSpaceAssumption
<1> QED BY <1>1, <1>2 DEF Add

\* Difference is the distance below the last quarter.
LEMMA DifferenceExact ==
  ASSUME NEW s \in Int, NEW t \in Int, s <= uint32Max - Quarter, t <= uint32Max - Quarter
  PROVE  Difference(s, t) = t - s
BY TopType DEF Difference, Wraps

\* byteSpan sends no byte before the expected one and expects the byte after
\* the last one it sends.
LEMMA SpanPosition ==
  ASSUME NEW e \in Nat, NEW a \in Nat, NEW n \in Nat, e <= Top, a + n <= Top
  PROVE  LET span == byteSpan(Isn + e, Isn + a, n)
         IN  /\ a + span.cut >= e
             /\ a + span.cut + span.len <= Top
             /\ span.cut \in Nat /\ span.len \in Nat
             /\ span.next = Isn + (a + span.cut + span.len)
             /\ span.cut + span.len >= n
             /\ a <= e => a + span.cut = e
<1> DEFINE span == byteSpan(Isn + e, Isn + a, n)
<1>1. /\ Isn \in Nat /\ Top \in Int /\ Isn + Top = uint32Max - Quarter
  BY TopType
<1>2. Isn + e <= uint32Max - Quarter /\ Isn + a <= uint32Max - Quarter
  BY <1>1
<1>3. Difference(Isn + a, Isn + e) = e - a
  <2>1. Difference(Isn + a, Isn + e) = (Isn + e) - (Isn + a)
    BY <1>1, <1>2, DifferenceExact
  <2> QED BY <1>1, <2>1
<1>4. Isn + e # invalidSequence
  BY <1>1 DEF invalidSequence
<1>5. CASE e <= a
  <2>1. e - a <= 0
    BY <1>5
  <2>2. span = [cut |-> 0, len |-> n, next |-> Add(Isn + a, n)]
    BY <1>3, <2>1 DEF byteSpan
  <2>3. Isn + a + n <= uint32Max - Quarter
    BY <1>1
  <2>4. Add(Isn + a, n) = Isn + a + n
    BY <2>3, AddExact
  <2> QED BY <1>1, <1>5, <2>2, <2>4
<1>6. CASE e > a /\ n < e - a
  <2>1. ~ (e - a <= 0)
    BY <1>6
  <2>2. span = [cut |-> e - a, len |-> 0, next |-> Isn + e]
    BY <1>3, <1>4, <1>6, <2>1 DEF byteSpan
  <2> QED BY <1>1, <1>6, <2>2
<1>7. CASE e > a /\ ~ (n < e - a)
  <2>1. ~ (e - a <= 0)
    BY <1>7
  <2>2. span = [cut |-> e - a, len |-> n - (e - a), next |-> Add(Isn + e, n - (e - a))]
    BY <1>3, <1>4, <1>7, <2>1 DEF byteSpan
  <2>3. /\ n - (e - a) \in Nat
        /\ Isn + e + (n - (e - a)) = Isn + (a + n)
        /\ Isn + e + (n - (e - a)) <= uint32Max - Quarter
    BY <1>1, <1>7
  <2>4. Add(Isn + e, n - (e - a)) = Isn + e + (n - (e - a))
    BY <2>3, AddExact
  <2> QED BY <1>1, <1>7, <2>2, <2>3, <2>4
<1> QED BY <1>5, <1>6, <1>7

\* Sequence numbers of segments are positions behind Isn.
LEMMA seqOfExact ==
  ASSUME NoRollOver, NEW p \in Packets
  PROVE  /\ seqOf(p) = Isn + p.pos
         /\ p.pos \in Nat /\ p.len \in Nat /\ p.pos + p.len + 1 <= Top
<1>1. p.pos \in Nat /\ p.len \in Nat /\ Isn + p.pos + p.len + 1 <= uint32Max - Quarter
  BY PacketsAssumption DEF Segment, NoRollOver
<1>2. Isn + p.pos <= uint32Max - Quarter /\ Isn + 0 + p.pos <= uint32Max - Quarter
  BY <1>1, TopType
<1>3. Add(Isn + 0, p.pos) = Isn + 0 + p.pos
  BY <1>1, <1>2, AddExact
<1>4. Isn + 0 = Isn
  BY TopType
<1> QED BY <1>1, <1>3, <1>4, TopType DEF seqOf

\* pagesFromTCP gives every page the sequence number of its bytes.
LEMMA HoldsLocated ==
  ASSUME NoRollOver
  PROVE  Holds(Located)
<1> SUFFICES ASSUME NEW p \in Packets, NEW c \in Cache, NEW ts \in Nat
             PROVE  pagesFromTCP(p, c, ts) \in Seq(Located)
  BY DEF Holds
<1> DEFINE run == pagesFromTCP(p, c, ts)
           n   == PagesOf(p)
<1>1. run \in Seq(Page) /\ Len(run) = n
  BY pagesFromTCPType
<1>2. /\ n \in Nat /\ n >= 1 /\ (n - 1) * PageBytes <= p.len
      /\ PageBytes \in Nat /\ PageBytes >= 1
  BY PagesOfProperties, AssemblyAssumption
<1>3. /\ seqOf(p) = Isn + p.pos
      /\ p.pos \in Nat /\ p.len \in Nat /\ p.pos + p.len + 1 <= Top
  BY seqOfExact
<1>4. ASSUME NEW i \in 1 .. n
      PROVE  run[i] \in Located
  <2> DEFINE o == (i - 1) * PageBytes
             l == IF i < n THEN PageBytes ELSE p.len - (n - 1) * PageBytes
  <2>1. run[i] \in Page
    BY <1>1, ElementOfSeq
  <2>2. /\ run[i].seq = Add(seqOf(p), o)
        /\ run[i].at = p.pos + o
        /\ run[i].len = l
    <3>1. run[i] = [seq  |-> Add(seqOf(p), o), at   |-> p.pos + o, len  |-> l,
                    skip |-> TakenPage(c, n, i).skip,
                    end  |-> IF i = n THEN p.fin ELSE TakenPage(c, n, i).end,
                    seen |-> ts]
      BY Zenon DEF pagesFromTCP
    <3> HIDE DEF run, o, l
    <3> QED BY <3>1
  <2>3. o \in Nat /\ o + l <= p.len /\ o <= p.len
    <3>1. CASE i = n
      BY <1>2, <1>3, <3>1
    <3>2. CASE i < n
      <4>1. o + PageBytes = i * PageBytes
        BY <1>2
      <4>2. i * PageBytes <= (n - 1) * PageBytes
        <5>1. n - 1 - i \in Nat
          BY <1>2, <3>2
        <5>2. (n - 1 - i) * PageBytes \in Nat
          BY <1>2, <5>1
        <5>3. (n - 1) * PageBytes = i * PageBytes + (n - 1 - i) * PageBytes
          BY <1>2
        <5>4. i * PageBytes \in Nat
          BY <1>2
        <5> QED BY <5>2, <5>3, <5>4
      <4>3. o \in Nat
        BY <1>2
      <4>4. i * PageBytes \in Nat /\ (n - 1) * PageBytes \in Nat /\ l = PageBytes
        BY <1>2, <3>2
      <4> HIDE DEF o, l
      <4> QED BY <1>2, <1>3, <4>1, <4>2, <4>3, <4>4
    <3> QED BY <1>2, <3>1, <3>2
  <2> HIDE DEF o, l, run
  <2>4. Add(Isn + p.pos, o) = Isn + p.pos + o
    <3>1. Isn + p.pos + o <= uint32Max - Quarter
      BY <1>3, <2>3, TopType
    <3> QED BY <1>3, <2>3, <3>1, AddExact
  <2>5. run[i].seq = Isn + run[i].at
    BY <1>3, <2>2, <2>3, <2>4, TopType
  <2>6. l \in Int
    BY <2>1, <2>2 DEF Page
  <2>7. run[i].at + run[i].len <= Top
    BY <1>3, <2>2, <2>3, <2>6, TopType
  <2> QED BY <2>1, <2>5, <2>7 DEF Located
<1> HIDE DEF run
<1>5. run \in [1 .. n -> Located]
  <2>1. DOMAIN run = 1 .. n
    BY <1>1, LenProperties
  <2>2. run = [i \in 1 .. n |-> run[i]]
    BY <1>1, <2>1
  <2> QED BY <1>4, <2>2
<1>6. run \in Seq(Located)
  BY <1>2, <1>5
<1> QED BY <1>6 DEF run

\* The position behind the chunks b that follow position n.
End(n, b) == IF b = <<>> THEN n ELSE Contract!ChunkEnd(b[Len(b)])

\* The chunks b continue a stream at position n, and the connection c expects
\* the byte behind them.
Sent(c, n, b) ==
  /\ Contract!InOrder(n, b)
  /\ End(n, b) \in Nat
  /\ End(n, b) <= Top
  /\ c.nextSeq = Isn + End(n, b)

\* A chunk behind the last one extends a batch in order.
LEMMA InOrderAppend ==
  ASSUME NEW n \in Int, NEW b \in Seq(ChunkType), NEW x \in ChunkType,
         Contract!InOrder(n, b), x.at >= End(n, b)
  PROVE  /\ Contract!InOrder(n, Append(b, x))
         /\ Append(b, x) # <<>>
         /\ End(n, Append(b, x)) = Contract!ChunkEnd(x)
<1> DEFINE q == Append(b, x)
<1>1. /\ q \in Seq(ChunkType) /\ Len(q) = Len(b) + 1 /\ Len(b) \in Nat
      /\ q[Len(b) + 1] = x
      /\ \A i \in 1 .. Len(b) : q[i] = b[i]
      /\ DOMAIN q = 1 .. Len(b) + 1 /\ DOMAIN b = 1 .. Len(b)
  BY AppendProperties, LenProperties
<1> HIDE DEF q
<1>2. q # <<>>
  BY <1>1
<1>3. End(n, q) = Contract!ChunkEnd(x)
  BY <1>1, <1>2 DEF End
<1>4. ASSUME NEW i \in DOMAIN q
      PROVE  q[i].at >= (IF i = 1 THEN n ELSE Contract!ChunkEnd(q[i - 1]))
  <2>1. CASE i = Len(b) + 1
    <3>1. CASE Len(b) = 0
      <4>1. b = <<>>
        BY <3>1, EmptySeq
      <4> QED BY <1>1, <2>1, <3>1, <4>1 DEF End
    <3>2. CASE Len(b) # 0
      <4>1. b # <<>> /\ i # 1 /\ i - 1 = Len(b) /\ Len(b) \in 1 .. Len(b)
        BY <1>1, <2>1, <3>2
      <4>2. q[i - 1] = b[Len(b)]
        BY <1>1, <4>1
      <4> QED BY <1>1, <2>1, <4>1, <4>2 DEF End
    <3> QED BY <3>1, <3>2
  <2>2. CASE i # Len(b) + 1
    <3>1. i \in DOMAIN b /\ q[i] = b[i] /\ (i # 1 => i - 1 \in 1 .. Len(b))
      BY <1>1, <2>2
    <3>2. i # 1 => q[i - 1] = b[i - 1]
      BY <1>1, <3>1
    <3>3. b[i].at >= (IF i = 1 THEN n ELSE Contract!ChunkEnd(b[i - 1]))
      BY <3>1 DEF Contract!InOrder
    <3> QED BY <3>1, <3>2, <3>3
  <2> QED BY <2>1, <2>2
<1>5. Contract!InOrder(n, q)
  BY <1>4 DEF Contract!InOrder
<1> QED BY <1>2, <1>3, <1>5 DEF q

\* addNextFromConn sends the next bytes in order.
LEMMA SentPop ==
  ASSUME NEW w \in Work(Located), w.conn.list # <<>>, NEW n \in Int, Sent(w.conn, n, w.ret)
  PROVE  Sent(addNextFromConn(w).conn, n, addNextFromConn(w).ret)
<1> DEFINE v     == addNextFromConn(w)
           first == Head(w.conn.list)
           e     == End(n, w.ret)
           span  == HeadSpan(w)
<1>0. Located \in SUBSET Page /\ w.ret \in Seq(ChunkType)
  BY DEF Located, Work
<1>1. /\ first \in Located
      /\ span \in [cut : Nat, len : Nat, next : Sequence]
      /\ v.conn.nextSeq = span.next
      /\ \E skip \in Int : v.ret = Append(w.ret, Chunk(first, span, skip))
  BY <1>0, addNextFromConnType
<1>2. PICK skip \in Int : v.ret = Append(w.ret, Chunk(first, span, skip))
  BY <1>1
<1> DEFINE x == Chunk(first, span, skip)
<1>3. e \in Nat /\ e <= Top /\ w.conn.nextSeq = Isn + e /\ Contract!InOrder(n, w.ret)
  BY DEF Sent
<1>4. /\ first \in Page /\ first.seq = Isn + first.at
      /\ first.at \in Nat /\ first.len \in Nat /\ first.at + first.len <= Top
  BY <1>1 DEF Located, Page
<1> HIDE DEF e, first
<1>5. span = byteSpan(Isn + e, Isn + first.at, first.len)
  BY <1>3, <1>4 DEF HeadSpan, first
<1> HIDE DEF span, v
<1>6. /\ first.at + span.cut >= e
      /\ first.at + span.cut + span.len <= Top
      /\ span.cut \in Nat /\ span.len \in Nat
      /\ span.next = Isn + (first.at + span.cut + span.len)
  BY <1>3, <1>4, <1>5, SpanPosition, SMTT(30)
<1>7. x \in ChunkType
  BY <1>1, <1>4, ChunkIsChunk
<1>8. x.at = first.at + span.cut /\ x.len = span.len
  BY DEF Chunk
<1> HIDE DEF x
<1>9. Contract!ChunkEnd(x) = first.at + span.cut + span.len
  BY <1>8 DEF Contract!ChunkEnd
<1>10. /\ Contract!InOrder(n, v.ret)
       /\ End(n, v.ret) = Contract!ChunkEnd(x)
  <2>1. x.at >= End(n, w.ret)
    BY <1>6, <1>8 DEF e
  <2>2. /\ Contract!InOrder(n, Append(w.ret, x))
        /\ End(n, Append(w.ret, x)) = Contract!ChunkEnd(x)
    BY <1>0, <1>3, <1>7, <2>1, InOrderAppend
  <2>3. v.ret = Append(w.ret, x)
    BY <1>2 DEF x
  <2> QED BY <2>2, <2>3
<1>11. first.at + span.cut + span.len \in Nat
  BY <1>4, <1>6
<1> QED BY <1>1, <1>6, <1>9, <1>10, <1>11 DEF Sent, v

\* insertIntoConn sends bytes in order, if it sends any.
LEMMA SentInsert ==
  ASSUME NoRollOver, now \in Nat, NEW p \in Packets,
         NEW c \in Conn(Located), NEW h \in Cache, NEW r \in Seq(ChunkType),
         NEW n \in Int, Sent(c, n, r)
  PROVE  Sent(insertIntoConn([conn |-> c, cache |-> h, ret |-> r], p, now).conn, n,
              insertIntoConn([conn |-> c, cache |-> h, ret |-> r], p, now).ret)
<1> DEFINE v == [conn |-> c, cache |-> h, ret |-> r]
           w == insertIntoConn(v, p, now)
<1>0. Located \in SUBSET Page
  BY DEF Located
<1>1. v \in Work(Located) /\ v.conn = c /\ v.cache = h /\ v.ret = r
  BY DEF Work
<1>2. pagesFromTCP(p, v.cache, now) \in Seq(Located)
  BY <1>1, HoldsLocated DEF Holds
<1> HIDE DEF v
<1>3. PICK put \in Work(Located) :
           /\ put.ret = r
           /\ put.conn.nextSeq = c.nextSeq
           /\ put.conn.list # <<>>
           /\ w \in {put, addNextFromConn(put)}
  BY <1>0, <1>1, <1>2, insertIntoConnType
<1> HIDE DEF w
<1>4. Sent(put.conn, n, put.ret)
  BY <1>3 DEF Sent
<1>5. Sent(addNextFromConn(put).conn, n, addNextFromConn(put).ret)
  BY <1>3, <1>4, SentPop
<1>6. Sent(w.conn, n, w.ret)
  BY <1>3, <1>4, <1>5
<1> QED BY <1>6, Zenon DEF w, v

\* The chunks collected for the stream of key k.
Collected(k) == IF phase = "gather" /\ k = key THEN ret ELSE <<>>

\* The inductive invariant: the stream of an open connection is open and, with
\* the chunks collected for it, at the position the connection expects next.
Delivered ==
  /\ WellFormed(Located)
  /\ \A k \in Keys : conns[k].open <=> streams[k].state = "open"
  /\ phase \in {"gather", "close"} => conns[key].open
  /\ phase # "panic" =>
       \A k \in Keys : conns[k].open => Sent(conns[k], streams[k].next, Collected(k))

\* What the invariant says of the variables' types.
LEMMA DeliveredFacts ==
  ASSUME Delivered
  PROVE  /\ WellFormed(Located) /\ Located \in SUBSET Page
         /\ now \in Nat /\ key \in Keys /\ cache \in Cache /\ ret \in Seq(ChunkType)
         /\ \A k \in Keys : /\ conns[k] \in Conn(Located)
                            /\ streams[k] \in StreamType /\ streams[k].next \in Int
         /\ phase = "gather" => ret # <<>>
<1>1. WellFormed(Located) /\ Located \in SUBSET Page
  BY DEF Delivered, Located
<1>2. \A k \in Keys : streams[k] \in StreamType
  BY <1>1, WellFormedFacts
<1>3. \A s \in StreamType : s.next \in Int
  BY DEF StreamType, Contract!Unknown
<1> QED BY <1>1, <1>2, <1>3, WellFormedFacts DEF WellFormed

\* A connection without collected chunks expects the byte its stream is at.
LEMMA SentNothing ==
  ASSUME NEW c, NEW n \in Nat, n <= Top, c.nextSeq = Isn + n
  PROVE  Sent(c, n, <<>>)
BY DEF Sent, End, Contract!InOrder

\* One chunk continues the stream.
LEMMA SentSingle ==
  ASSUME NEW c, NEW n \in Int, NEW x \in ChunkType, x.at >= n,
         Contract!ChunkEnd(x) <= Top, c.nextSeq = Isn + Contract!ChunkEnd(x)
  PROVE  Sent(c, n, <<x>>)
<1>1. Contract!ChunkEnd(x) \in Nat
  BY DEF ChunkType, Contract!ChunkEnd
<1>2. Contract!InOrder(n, <<x>>)
  BY DEF Contract!InOrder
<1>3. End(n, <<x>>) = Contract!ChunkEnd(x)
  BY DEF End
<1> QED BY <1>1, <1>2, <1>3 DEF Sent

\* AssembleFirst makes the stream and collects its first chunks.
LEMMA FirstDelivered ==
  ASSUME NoRollOver, Delivered, NEW k \in Keys, NEW p \in Packets, AssembleFirst(k, p)
  PROVE  /\ conns'[k].open
         /\ streams' = [streams EXCEPT ![k] = Contract!NewStream]
         /\ Sent(conns'[k], Contract!Unknown, ret')
         /\ \A j \in Keys : j # k => conns'[j] = conns[j]
<1> DEFINE n == Add(seqOf(p), p.len + (IF p.syn THEN 1 ELSE 0))
           b == Seen(reset)
           c == [b EXCEPT !.nextSeq = n]
           x == [at |-> p.pos + (IF p.syn THEN 1 ELSE 0), len |-> p.len,
                 skip |-> IF p.syn THEN 0 ELSE -1, start |-> p.syn, end |-> FALSE]
           w == insertIntoConn([conn |-> c, cache |-> cache, ret |-> <<x>>], p, now)
<1>0. WellFormed(Located) /\ Located \in SUBSET Page /\ now \in Nat /\ cache \in Cache
  BY DeliveredFacts
<1>1. /\ seqOf(p) = Isn + p.pos /\ p.syn \in BOOLEAN
      /\ p.pos \in Nat /\ p.len \in Nat /\ p.pos + p.len + 1 <= Top
      /\ p.syn => p.len = 0
  BY seqOfExact, PacketsAssumption DEF Segment
<1>2. x \in ChunkType
  BY FirstChunkType
<1>3. Contract!ChunkEnd(x) = p.pos + (IF p.syn THEN 1 ELSE 0) + p.len
  BY DEF Contract!ChunkEnd
<1>4. n = Isn + Contract!ChunkEnd(x) /\ n \in Sequence /\ Contract!ChunkEnd(x) <= Top
  <2> DEFINE l == p.len + (IF p.syn THEN 1 ELSE 0)
  <2>1. l \in Nat /\ l <= p.len + 1
    BY <1>1
  <2>2. Isn + p.pos + l <= uint32Max - Quarter
    BY <1>1, <2>1, TopType
  <2>3. Add(Isn + p.pos, l) = Isn + p.pos + l
    BY <1>1, <2>1, <2>2, AddExact
  <2>4. n = Isn + p.pos + l
    BY <1>1, <2>3
  <2>5. n \in Sequence
    <3>1. Isn + p.pos + l \in 0 .. uint32Max
      BY <1>1, <2>1, <2>2, TopType
    <3> QED BY <2>4, <3>1 DEF Sequence
  <2>6. Contract!ChunkEnd(x) = p.pos + l
    BY <1>1, <1>3
  <2> HIDE DEF n, x
  <2>7. n = Isn + Contract!ChunkEnd(x)
    BY <1>1, <2>1, <2>4, <2>6, TopType
  <2> QED BY <1>1, <2>1, <2>5, <2>6, <2>7, TopType
<1>5. b \in Conn(Located) /\ b.open
  BY <1>0, NoConnectionType, SeenType
<1>6. x.at >= Contract!Unknown
  BY <1>1 DEF Contract!Unknown
<1> HIDE DEF b, n, x
<1>7. c \in Conn(Located) /\ c.open /\ c.nextSeq = n
  BY <1>0, <1>4, <1>5, NextSeqType
<1> HIDE DEF c
<1>8. <<x>> \in Seq(ChunkType) /\ <<x>> # <<>> /\ Contract!Unknown \in Int
  BY <1>2 DEF Contract!Unknown
<1>9. Sent(c, Contract!Unknown, <<x>>)
  BY <1>2, <1>4, <1>6, <1>7, <1>8, SentSingle
<1>10. w \in Work(Located) /\ w.conn.open
  BY <1>0, <1>7, <1>8, HoldsLocated, InsertType
<1>11. Sent(w.conn, Contract!Unknown, w.ret)
  BY <1>0, <1>7, <1>8, <1>9, SentInsert
<1>12. Commit(k, w)
  BY Zenon DEF AssembleFirst, b, n, x, c
<1> HIDE DEF w
<1>13. conns'[k] = w.conn /\ (\A j \in Keys : j # k => conns'[j] = conns[j]) /\ ret' = w.ret
  BY <1>0, <1>10, <1>12, CommitType DEF Commit
<1>14. streams' = [streams EXCEPT ![k] = Contract!NewStream]
  BY DEF AssembleFirst
<1> QED BY <1>10, <1>11, <1>13, <1>14

\* A segment beyond the expected byte sends nothing, or buffered bytes in order.
LEMMA AheadDelivered ==
  ASSUME NoRollOver, Delivered, NEW k \in Keys, NEW p \in Packets, AssembleAhead(k, p)
  PROVE  /\ conns'[k].open
         /\ streams' = streams
         /\ Sent(conns'[k], streams[k].next, ret')
         /\ \A j \in Keys : j # k => conns'[j] = conns[j]
<1> DEFINE c == Seen(conns[k])
           w == insertIntoConn([conn |-> c, cache |-> cache, ret |-> <<>>], p, now)
<1>0. /\ WellFormed(Located) /\ Located \in SUBSET Page /\ now \in Nat /\ cache \in Cache
      /\ <<>> \in Seq(ChunkType) /\ conns[k] \in Conn(Located) /\ streams[k].next \in Int
  BY DeliveredFacts
<1>1. conns[k].open /\ phase = "idle" /\ streams' = streams
  BY DEF AssembleAhead, Arrives
<1>2. Sent(conns[k], streams[k].next, <<>>)
  BY <1>1 DEF Delivered, Collected
<1>3. c \in Conn(Located) /\ c.open /\ c.nextSeq = conns[k].nextSeq
  BY <1>0, <1>1, SeenType
<1> HIDE DEF c
<1>4. Sent(c, streams[k].next, <<>>)
  BY <1>2, <1>3 DEF Sent
<1>5. w \in Work(Located) /\ w.conn.open
  BY <1>0, <1>3, HoldsLocated, InsertType
<1>6. Sent(w.conn, streams[k].next, w.ret)
  BY <1>0, <1>3, <1>4, SentInsert
<1>7. Commit(k, w)
  BY Zenon DEF AssembleAhead, c
<1> HIDE DEF w
<1>8. conns'[k] = w.conn /\ (\A j \in Keys : j # k => conns'[j] = conns[j]) /\ ret' = w.ret
  BY <1>0, <1>5, <1>7, CommitType DEF Commit
<1> QED BY <1>1, <1>5, <1>6, <1>8

\* A segment that is due is trimmed to the bytes not yet sent.
LEMMA DueDelivered ==
  ASSUME NoRollOver, Delivered, NEW k \in Keys, NEW p \in Packets, AssembleDue(k, p)
  PROVE  /\ conns'[k].open
         /\ streams' = streams
         /\ Sent(conns'[k], streams[k].next, ret')
         /\ \A j \in Keys : j # k => conns'[j] = conns[j]
<1> DEFINE c == Seen(conns[k])
           n == streams[k].next
           span == byteSpan(c.nextSeq, seqOf(p), p.len)
           x == Chunk([at |-> p.pos, end |-> p.fin], span, 0)
           d == [c EXCEPT !.nextSeq = span.next]
           w == [conn |-> d, cache |-> cache, ret |-> <<x>>]
<1>0. /\ WellFormed(Located) /\ Located \in SUBSET Page /\ now \in Nat /\ cache \in Cache
      /\ conns[k] \in Conn(Located) /\ n \in Int
  BY DeliveredFacts
<1>1. /\ seqOf(p) = Isn + p.pos /\ p.fin \in BOOLEAN
      /\ p.pos \in Nat /\ p.len \in Nat /\ p.pos + p.len + 1 <= Top
  BY seqOfExact, PacketsAssumption DEF Segment
<1>2. conns[k].open /\ phase = "idle" /\ streams' = streams
  BY DEF AssembleDue, Arrives
<1>3. Sent(conns[k], n, <<>>)
  BY <1>2 DEF Delivered, Collected
<1>4. n \in Nat /\ n <= Top /\ conns[k].nextSeq = Isn + n
  BY <1>3 DEF Sent, End
<1> HIDE DEF n
<1>5. c \in Conn(Located) /\ c.open /\ c.nextSeq = Isn + n
  BY <1>0, <1>2, <1>4, SeenType
<1> HIDE DEF c
<1>6. span = byteSpan(Isn + n, Isn + p.pos, p.len)
  BY <1>1, <1>5
<1>7. span \in [cut : Nat, len : Nat, next : Sequence]
  BY <1>1, <1>5, ConnFields, seqOfType, byteSpanType
<1> HIDE DEF span
<1>8. /\ p.pos + span.cut >= n
      /\ p.pos + span.cut + span.len <= Top
      /\ span.cut \in Nat /\ span.len \in Nat
      /\ span.next = Isn + (p.pos + span.cut + span.len)
  <2>1. p.pos + p.len <= Top
    BY <1>1, TopType
  <2> QED BY <1>1, <1>4, <1>6, <2>1, SpanPosition
<1>9. x \in ChunkType /\ x.at = p.pos + span.cut /\ x.len = span.len
  BY <1>1, <1>7 DEF Chunk, ChunkType
<1> HIDE DEF x
<1>10. d \in Conn(Located) /\ d.open /\ d.nextSeq = span.next
  BY <1>0, <1>5, <1>7, NextSeqType
<1> HIDE DEF d
<1>11. Contract!ChunkEnd(x) = p.pos + span.cut + span.len
  BY <1>9 DEF Contract!ChunkEnd
<1>12. Sent(d, n, <<x>>)
  BY <1>0, <1>8, <1>9, <1>10, <1>11, SentSingle
<1>13. w \in Work(Located) /\ w.conn = d /\ w.ret = <<x>>
  BY <1>0, <1>9, <1>10, SingletonSeq DEF Work
<1>14. Commit(k, w)
  BY Zenon DEF AssembleDue, c, span, x, d
<1> HIDE DEF w
<1>15. conns'[k] = w.conn /\ (\A j \in Keys : j # k => conns'[j] = conns[j]) /\ ret' = w.ret
  BY <1>0, <1>10, <1>13, <1>14, CommitType DEF Commit
<1> QED BY <1>2, <1>10, <1>12, <1>13, <1>15 DEF n

\* addContiguous and skipFlush send buffered bytes in order.
LEMMA PopDelivered ==
  ASSUME Delivered, phase # "panic", NEW k \in Keys, conns[k].open, conns[k].list # <<>>,
         Commit(k, addNextFromConn([conn |-> conns[k], cache |-> cache, ret |-> Collected(k)]))
  PROVE  /\ conns'[k].open
         /\ Sent(conns'[k], streams[k].next, ret')
         /\ \A j \in Keys : j # k => conns'[j] = conns[j]
<1> DEFINE v == [conn |-> conns[k], cache |-> cache, ret |-> Collected(k)]
           w == addNextFromConn(v)
<1>1. /\ WellFormed(Located) /\ Located \in SUBSET Page /\ conns[k] \in Conn(Located)
      /\ cache \in Cache /\ Collected(k) \in Seq(ChunkType) /\ streams[k].next \in Int
  BY DeliveredFacts DEF Collected
<1>2. v \in Work(Located) /\ v.conn = conns[k] /\ v.ret = Collected(k)
  BY <1>1 DEF Work
<1>3. Sent(conns[k], streams[k].next, Collected(k))
  BY DEF Delivered
<1>4. Commit(k, w)
  OBVIOUS
<1> HIDE DEF v
<1>5. w \in Work(Located) /\ w.conn.open = conns[k].open
  BY <1>1, <1>2, addNextFromConnType
<1>6. Sent(w.conn, streams[k].next, w.ret)
  BY <1>1, <1>2, <1>3, SentPop
<1> HIDE DEF w
<1>7. conns'[k] = w.conn /\ (\A j \in Keys : j # k => conns'[j] = conns[j]) /\ ret' = w.ret
  BY <1>1, <1>4, <1>5, CommitType DEF Commit
<1> QED BY <1>5, <1>6, <1>7

\* A step that works on the connection k and keeps every stream's position.
LEMMA DeliveredKeep ==
  ASSUME Delivered, phase # "panic", WellFormed(Located)', NEW k \in Keys, key' = k,
         phase' \in {"gather", "panic"} \/ (phase' = "idle" /\ ret' = <<>>),
         phase # "gather" \/ key = k,
         streams' = streams, conns[k].open, conns'[k].open,
         Sent(conns'[k], streams[k].next, ret'),
         \A j \in Keys : j # k => conns'[j] = conns[j]
  PROVE  Delivered'
<1>1. \A j \in Keys : conns'[j].open <=> streams'[j].state = "open"
  BY DEF Delivered
<1>2. phase' \in {"gather", "close"} => conns'[key'].open
  OBVIOUS
<1>3. ASSUME NEW j \in Keys, conns'[j].open, phase' # "panic"
      PROVE  Sent(conns'[j], streams'[j].next, Collected(j)')
  <2>1. CASE j = k
    <3>1. Collected(j)' = ret'
      BY <1>3, <2>1 DEF Collected
    <3> QED BY <2>1, <3>1
  <2>2. CASE j # k
    <3>1. Collected(j)' = <<>> /\ Collected(j) = <<>>
      BY <2>2 DEF Collected
    <3>2. conns'[j] = conns[j] /\ Sent(conns[j], streams[j].next, <<>>)
      BY <1>3, <2>2, <3>1 DEF Delivered
    <3> QED BY <3>1, <3>2
  <2> QED BY <2>1, <2>2
<1> QED BY <1>1, <1>2, <1>3 DEF Delivered

\* A step that collects nothing and changes no connection and no stream.
LEMMA DeliveredSame ==
  ASSUME Delivered, phase # "panic", phase # "gather", WellFormed(Located)',
         conns' = conns, streams' = streams, phase' \in {"idle", "flush", "close"},
         phase' = "close" => conns[key'].open
  PROVE  Delivered'
<1>1. \A j \in Keys : Collected(j)' = <<>> /\ Collected(j) = <<>>
  BY DEF Collected
<1> QED BY <1>1 DEF Delivered

\* Every step keeps the invariant and is a step of StreamContract, or none.
LEMMA DeliveredStep ==
  ASSUME NoRollOver, Delivered, [Next]_vars
  PROVE  Delivered' /\ [Contract!Next]_streams
<1>0. WellFormed(Located)'
  BY DeliveredFacts, HoldsLocated, WellFormedStep
<1>1. CASE Tick
  BY <1>0, <1>1, DeliveredSame DEF Tick
<1>2. ASSUME NEW k \in Keys, NEW p \in Packets, AssembleFirst(k, p)
      PROVE  Delivered' /\ [Contract!Next]_streams
  <2>1. /\ conns'[k].open
        /\ streams' = [streams EXCEPT ![k] = Contract!NewStream]
        /\ Sent(conns'[k], Contract!Unknown, ret')
        /\ \A j \in Keys : j # k => conns'[j] = conns[j]
    BY <1>2, FirstDelivered
  <2>2. /\ phase = "idle" /\ phase' = "gather" /\ key' = k /\ ~ conns[k].open
    BY <1>2 DEF AssembleFirst, Arrives
  <2>3. streams \in [Keys -> StreamType] /\ streams[k].state # "open"
    BY <2>2 DEF Delivered, WellFormed
  <2>4. Contract!New(k)
    BY <2>1, <2>3 DEF Contract!New
  <2>5. /\ streams'[k].state = "open" /\ streams'[k].next = Contract!Unknown
        /\ \A j \in Keys : j # k => streams'[j] = streams[j]
    BY <2>1, <2>3 DEF Contract!NewStream
  <2>6. \A j \in Keys : conns'[j].open <=> streams'[j].state = "open"
    BY <2>1, <2>5 DEF Delivered
  <2>7. ASSUME NEW j \in Keys, conns'[j].open
        PROVE  Sent(conns'[j], streams'[j].next, Collected(j)')
    <3>1. CASE j = k
      BY <2>1, <2>2, <2>5, <3>1 DEF Collected
    <3>2. CASE j # k
      <4>1. Collected(j)' = <<>> /\ Collected(j) = <<>>
        BY <2>2, <3>2 DEF Collected
      <4>2. Sent(conns[j], streams[j].next, <<>>)
        BY <2>1, <2>2, <2>7, <3>2, <4>1 DEF Delivered
      <4> QED BY <2>1, <2>5, <3>2, <4>1, <4>2
    <3> QED BY <3>1, <3>2
  <2>8. Delivered'
    BY <1>0, <2>1, <2>2, <2>6, <2>7 DEF Delivered
  <2> QED BY <2>4, <2>8 DEF Contract!Next
<1>3. ASSUME NEW k \in Keys, NEW p \in Packets, AssembleAhead(k, p)
      PROVE  Delivered' /\ [Contract!Next]_streams
  <2>1. /\ conns'[k].open
        /\ streams' = streams
        /\ Sent(conns'[k], streams[k].next, ret')
        /\ \A j \in Keys : j # k => conns'[j] = conns[j]
    BY <1>3, AheadDelivered
  <2>2. /\ phase = "idle" /\ key' = k /\ conns[k].open
        /\ phase' \in {"gather", "panic"} \/ (phase' = "idle" /\ ret' = <<>>)
    BY <1>3 DEF AssembleAhead, Arrives, Commit
  <2> QED BY <1>0, <2>1, <2>2, DeliveredKeep
<1>4. ASSUME NEW k \in Keys, NEW p \in Packets, AssembleDue(k, p)
      PROVE  Delivered' /\ [Contract!Next]_streams
  <2>1. /\ conns'[k].open
        /\ streams' = streams
        /\ Sent(conns'[k], streams[k].next, ret')
        /\ \A j \in Keys : j # k => conns'[j] = conns[j]
    BY <1>4, DueDelivered
  <2>2. phase = "idle" /\ key' = k /\ conns[k].open /\ phase' = "gather"
    BY <1>4 DEF AssembleDue, Arrives
  <2> QED BY <1>0, <2>1, <2>2, DeliveredKeep
<1>5. CASE FlushOlderThan \/ FlushAll
  BY <1>0, <1>5, DeliveredSame DEF FlushOlderThan, FlushAll, BeginFlush
<1>6. CASE addContiguous
  <2>1. /\ phase = "gather" /\ phase' = "gather" /\ key' = key /\ streams' = streams
        /\ conns[key].list # <<>> /\ key \in Keys /\ conns[key].open
    BY <1>6, DeliveredFacts DEF addContiguous, FirstIsDue, Delivered
  <2>2. Collected(key) = ret
    BY <2>1 DEF Collected
  <2>3. Commit(key, addNextFromConn([conn |-> conns[key], cache |-> cache,
                                     ret |-> Collected(key)]))
    BY <1>6, <2>2 DEF addContiguous
  <2>4. /\ conns'[key].open
        /\ Sent(conns'[key], streams[key].next, ret')
        /\ \A j \in Keys : j # key => conns'[j] = conns[j]
    BY <2>1, <2>3, PopDelivered
  <2> QED BY <1>0, <2>1, <2>4, DeliveredKeep
<1>7. CASE sendToConnection
  <2>1. /\ phase = "gather" /\ key' = key /\ key \in Keys /\ conns' = conns /\ conns[key].open
        /\ streams' = [streams EXCEPT ![key] = Contract!Received(@, ret)]
        /\ phase' \in {"close", "idle", "flush"}
    BY <1>7, DeliveredFacts DEF sendToConnection, Delivered, Resume
  <2>2. /\ ret \in Seq(ChunkType) /\ ret # <<>> /\ streams \in [Keys -> StreamType]
        /\ streams[key].state = "open"
    BY <2>1, DeliveredFacts DEF Delivered, WellFormed
  <2>3. Sent(conns[key], streams[key].next, ret)
    BY <2>1 DEF Delivered, Collected
  <2>4. /\ streams'[key] = Contract!Received(streams[key], ret)
        /\ streams'[key].state = "open" /\ streams'[key].batch = ret
        /\ streams'[key].next = Contract!ChunkEnd(ret[Len(ret)])
        /\ streams'[key].next \in Nat
        /\ \A j \in Keys : j # key => streams'[j] = streams[j]
    BY <2>1, <2>2, ReceivedType
  <2>5. Contract!Reassembled(key)
    BY <2>1, <2>2, <2>3, <2>4 DEF Sent, Contract!Reassembled
  <2>6. \A j \in Keys : conns'[j].open <=> streams'[j].state = "open"
    BY <2>1, <2>4 DEF Delivered
  <2>7. ASSUME NEW j \in Keys, conns'[j].open
        PROVE  Sent(conns'[j], streams'[j].next, Collected(j)')
    <3>1. Collected(j)' = <<>>
      BY <2>1 DEF Collected
    <3>2. CASE j = key
      <4>1. /\ streams'[j].next <= Top
            /\ conns'[j].nextSeq = Isn + streams'[j].next
        BY <2>1, <2>2, <2>3, <2>4, <3>2 DEF Sent, End
      <4> QED BY <2>4, <3>1, <3>2, <4>1, SentNothing
    <3>3. CASE j # key
      <4>1. Collected(j) = <<>>
        BY <3>3 DEF Collected
      <4> QED BY <2>1, <2>4, <2>7, <3>1, <3>3, <4>1 DEF Delivered
    <3> QED BY <3>2, <3>3
  <2>8. Delivered'
    BY <1>0, <2>1, <2>6, <2>7 DEF Delivered
  <2> QED BY <2>1, <2>5, <2>8 DEF Contract!Next
<1>8. CASE closeConnection
  <2>1. /\ phase = "close" /\ key \in Keys /\ conns[key].open
        /\ conns' = [conns EXCEPT ![key] = NoConnection]
        /\ streams' = [streams EXCEPT ![key] = Contract!Completed(@)]
        /\ phase' \in {"idle", "flush"}
    BY <1>8, DeliveredFacts DEF closeConnection, Delivered, Resume
  <2>2. /\ streams \in [Keys -> StreamType] /\ streams[key].state = "open"
        /\ conns \in [Keys -> Conn(Located)]
    BY <2>1 DEF Delivered, WellFormed
  <2>3. Contract!ReassemblyComplete(key)
    BY <2>1, <2>2 DEF Contract!ReassemblyComplete
  <2>4. /\ streams'[key].state = "complete" /\ ~ conns'[key].open
        /\ \A j \in Keys : j # key => streams'[j] = streams[j] /\ conns'[j] = conns[j]
    BY <2>1, <2>2, CompletedType DEF NoConnection
  <2>5. \A j \in Keys : conns'[j].open <=> streams'[j].state = "open"
    BY <2>4 DEF Delivered
  <2>6. ASSUME NEW j \in Keys, conns'[j].open
        PROVE  Sent(conns'[j], streams'[j].next, Collected(j)')
    <3>1. j # key /\ Collected(j)' = <<>> /\ Collected(j) = <<>>
      BY <2>1, <2>4, <2>6 DEF Collected
    <3> QED BY <2>1, <2>4, <2>6, <3>1 DEF Delivered
  <2>7. Delivered'
    BY <1>0, <2>1, <2>5, <2>6 DEF Delivered
  <2> QED BY <2>1, <2>3, <2>7 DEF Contract!Next
<1>9. ASSUME NEW k \in Keys, skipFlush(k)
      PROVE  Delivered' /\ [Contract!Next]_streams
  <2>1. /\ phase = "flush" /\ phase' = "gather" /\ key' = k /\ streams' = streams
        /\ conns[k].list # <<>> /\ conns[k].open
    BY <1>9 DEF skipFlush, MustPush, Flushing
  <2>2. Collected(k) = <<>>
    BY <2>1 DEF Collected
  <2>3. Commit(k, addNextFromConn([conn |-> conns[k], cache |-> cache, ret |-> Collected(k)]))
    BY <1>9, <2>2 DEF skipFlush
  <2>4. /\ conns'[k].open
        /\ Sent(conns'[k], streams[k].next, ret')
        /\ \A j \in Keys : j # k => conns'[j] = conns[j]
    BY <2>1, <2>3, PopDelivered
  <2> QED BY <1>0, <2>1, <2>4, DeliveredKeep
<1>10. ASSUME NEW k \in Keys, FlushCloses(k)
       PROVE  Delivered' /\ [Contract!Next]_streams
  BY <1>0, <1>10, DeliveredSame DEF FlushCloses, Flushing, MustClose
<1>11. ASSUME NEW k \in Keys, FlushNextConn(k)
       PROVE  Delivered' /\ [Contract!Next]_streams
  BY <1>0, <1>11, DeliveredSame DEF FlushNextConn, Flushing
<1>12. CASE FlushReturns
  BY <1>0, <1>12, DeliveredSame DEF FlushReturns
<1>13. CASE UNCHANGED vars
  BY <1>0, <1>13 DEF vars, Delivered, Collected, Sent
<1> QED BY <1>1, <1>2, <1>3, <1>4, <1>5, <1>6, <1>7, <1>8, <1>9, <1>10, <1>11, <1>12, <1>13
        DEF Next, Call, Continue

\* No stream exists and nothing was sent.
LEMMA DeliveredInit ==
  ASSUME Init
  PROVE  Delivered /\ Contract!Init
<1>1. WellFormed(Located)
  <2>1. Located \in SUBSET Page
    BY DEF Located
  <2> QED BY <2>1, WellFormedInit
<1>2. Contract!Init
  BY DEF Init, Contract!Init
<1>3. \A k \in Keys : streams[k].state = "none"
  <2>1. \A s \in StreamType : [s EXCEPT !.state = "none"].state = "none"
    BY DEF StreamType
  <2> QED BY <2>1, NewStreamType DEF Init
<1>4. \A k \in Keys : ~ conns[k].open
  BY DEF Init, NoConnection
<1> QED BY <1>1, <1>2, <1>3, <1>4 DEF Init, Delivered

\* Ordered delivery: as long as no sequence number of the capture reaches the
\* last quarter of the sequence space, every stream is created, receives its
\* bytes in stream order, each at most once, and is completed, for any limits
\* and with flushes at any time.
THEOREM DeliveredInOrder ==
  ASSUME NoRollOver
  PROVE  Spec => OrderedDelivery
<1>1. Init => Delivered /\ Contract!Init
  BY DeliveredInit
<1>2. Delivered /\ [Next]_vars => Delivered' /\ [Contract!Next]_streams
  BY DeliveredStep
<1> QED BY <1>1, <1>2, PTL DEF Spec, OrderedDelivery, Contract!Spec

=============================================================================
