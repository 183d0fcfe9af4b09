------------------------- MODULE StreamReaderProofs -------------------------
(***************************************************************************)
(* Proofs about StreamReader, for any streams, consumers, sizes of slices, *)
(* capacity of the channels and number of batches.  ReaderInv holds of     *)
(* every behaviour: types, and ranges of slots that are in the array.      *)
(* KeptInv says of a reader whose slots and pages were not written again   *)
(* what is still to be read and that it follows what the consumer was      *)
(* given, or got past.                                                     *)
(***************************************************************************)
EXTENDS StreamReader, SequenceTheorems, WellFoundedInduction, TLAPS

-----------------------------------------------------------------------------
(* The invariants.                                                         *)

Empty(r) == r.to < r.from

Reading == {"none", "idle", "select", "head", "advance", "eof"}

\* Batches are ranges of slots that exist.
RangesExist ==
  /\ sending.to # "nobody" => /\ sending.batch.from = 1
                              /\ sending.batch.to \in 1 .. Len(array)
  /\ \A s \in Streams :
       /\ \A r \in Waiting(s) : r.from = 1 /\ r.to \in 1 .. Len(array)
       /\ reader[s].current.to <= Len(array)

\* Where a consumer is in Read says whether it has something to read, and a
\* loss is reported of the chunk at the front only.
LabelsMatch ==
  \A s \in Streams :
    /\ reader[s].pc \in {"head", "advance"} => ~Empty(reader[s].current)
    /\ reader[s].pc \in {"select", "eof"} => Empty(reader[s].current)
    /\ reader[s].pc \in Reading /\ Empty(reader[s].current) => ~reader[s].lossReported

\* After ReassemblyComplete nothing is sent, and a reader that was closed by
\* the end of its stream has received all.
EndIsLast ==
  \A s \in Streams :
    /\ complete[s] => sending.to # s
    /\ reader[s].pc \in Reading /\ reader[s].closed => complete[s] /\ reassembled[s] = <<>>
    /\ reader[s].pc = "eof" => reader[s].closed

ReaderInv == TypeOK /\ RangesExist /\ LabelsMatch /\ EndIsLast

\* The chunks in the range r of the array a are of stream s, with the bytes that
\* were sent, and follow one another.
Joined(a, s, r) ==
  /\ \A i \in r.from .. r.to : a[i].of = s /\ a[i].whole
  /\ \A i \in r.from + 1 .. r.to : a[i].at = a[i-1].at + a[i-1].len + Missing(a[i])

\* They begin where p is the end of what came before.
Begins(a, r, p) == a[r.from].at = p + Missing(a[r.from])

\* The position after the last byte of a range of slots.
End(a, r) == a[r.to].at + a[r.to].len

\* A consumer at position p has the chunk c at its front: it is the next one, or
\* the loss before it is still to be told.
AtFront(c, p, reported) ==
  \/ c.at = p /\ (LossErrors => reported \/ ~c.skip)
  \/ c.at = p + 1 /\ c.skip /\ ~reported

\* The position after the last byte that s has received.
Received(s) ==
  IF Empty(reader[s].current) THEN got[s] ELSE End(array, reader[s].current)

\* The batches that are sent to s and not received.
Coming(s) == Waiting(s) \cup (IF sending.to = s THEN {sending.batch} ELSE {})

\* No two batches are on their way, since they would share slots.
OneComes(s) ==
  /\ Len(reassembled[s]) <= 1
  /\ sending.to = s => reassembled[s] = <<>>

\* What is on its way follows what was received, and lies in slots that were
\* read.
ComingFollows(s) ==
  /\ \A r \in Coming(s) :
       /\ Joined(array, s, r)
       /\ Begins(array, r, Received(s))
       /\ End(array, r) = sent[s]
       /\ ~Empty(reader[s].current) => r.to < reader[s].current.from
  /\ Coming(s) = {} => Received(s) = sent[s]

\* The chunks a reader has are what its consumer is to be given next.  Between
\* copy and cut the consumer was given the bytes that are to be cut.
CurrentFollows(s) ==
  LET r == reader[s]
  IN  ~Empty(r.current) =>
        /\ Joined(array, s, r.current)
        /\ r.pc # "advance" => AtFront(Front(s), got[s], r.lossReported)
        /\ r.pc = "advance" => /\ got[s] = Front(s).at + r.length
                               /\ r.length <= Front(s).len
                               /\ LossErrors => r.lossReported \/ ~Front(s).skip

Kept(s) ==
  ~spoilt[s] /\ reader[s].pc \in Reading =>
    OneComes(s) /\ ComingFollows(s) /\ CurrentFollows(s)

KeptInv == \A s \in Streams : Kept(s)

-----------------------------------------------------------------------------
(* Facts about numbers and records.                                        *)

\* A set of numbers that is not empty has a least one, and Min is it.
LEMMA MinIsLeast ==
  ASSUME NEW S \in SUBSET Nat, S # {}
  PROVE  Min(S) \in S /\ \A y \in S : Min(S) <= y
<1>1. PICK x \in S : \A y \in S : ~ (<<y, x>> \in OpToRel(<, Nat))
  BY NatLessThanWellFounded, WFMin
<1>2. \A y \in S : x <= y
  <2> SUFFICES ASSUME NEW y \in S PROVE x <= y
    OBVIOUS
  <2>1. x \in Nat /\ y \in Nat
    OBVIOUS
  <2>2. ~ (y < x)
    <3>1. <<y, x>> \in Nat \X Nat
      BY <2>1
    <3>2. (<<y, x>>)[1] = y /\ (<<y, x>>)[2] = x
      OBVIOUS
    <3> QED BY <1>1, <3>1, <3>2 DEF OpToRel
  <2> QED BY <2>1, <2>2
<1> QED BY <1>2 DEF Min

\* The fields of a reader, and of the range it reads.
LEMMA ReaderFields ==
  ASSUME NEW r \in Reader
  PROVE  /\ r.pc \in Labels /\ r.size \in Nat /\ r.length \in Nat
         /\ r.current \in Slice /\ r.closed \in BOOLEAN /\ r.lossReported \in BOOLEAN
         /\ r.current.from \in Nat \ {0} /\ r.current.to \in Nat
BY DEF Reader, Slice

LEMMA SlotFields ==
  ASSUME NEW c \in Slot
  PROVE  /\ c.of \in Streams /\ c.at \in Nat /\ c.len \in Nat /\ c.skip \in BOOLEAN
         /\ c.whole \in BOOLEAN
         /\ Missing(c) \in {0, 1} /\ (c.skip <=> Missing(c) = 1)
BY DEF Slot, Missing

\* What stripEmpty returns, field by field.
LEMMA StripReader ==
  ASSUME NEW r \in Reader, NEW v, v = stripEmpty(r)
  PROVE  LET full == {i \in r.current.from .. r.current.to : array[i].len > 0}
             from == IF full = {} THEN r.current.to + 1 ELSE Min(full)
         IN  /\ v \in Reader
             /\ v.pc = r.pc /\ v.size = r.size /\ v.length = r.length /\ v.closed = r.closed
             /\ v.current.to = r.current.to /\ v.current.from = from
             /\ v.lossReported = (r.lossReported /\ from = r.current.from)
<1> DEFINE full == {i \in r.current.from .. r.current.to : array[i].len > 0}
           from == IF full = {} THEN r.current.to + 1 ELSE Min(full)
           w == [r EXCEPT !.current.from = from,
                          !.lossReported = @ /\ from = r.current.from]
           cur == [r.current EXCEPT !.from = from]
<1>1. v = w
  BY DEF stripEmpty
<1>2. /\ r.current \in Slice /\ r.current.from \in Nat \ {0} /\ r.current.to \in Nat
      /\ r.lossReported \in BOOLEAN
  BY ReaderFields
<1>3. from \in Nat \ {0}
  <2>1. full \in SUBSET Nat /\ 0 \notin full
    BY <1>2
  <2> QED BY <2>1, <1>2, MinIsLeast
<1> HIDE DEF full, from
<1>4. cur \in Slice /\ cur.to = r.current.to /\ cur.from = from
  BY <1>2, <1>3 DEF Slice
<1>5. (r.lossReported /\ from = r.current.from) \in BOOLEAN
  OBVIOUS
<1>6. w = [[r EXCEPT !.current = cur] EXCEPT !.lossReported = @ /\ from = r.current.from]
  BY DEF Reader
<1>7. /\ w \in Reader /\ w.current = cur
      /\ w.pc = r.pc /\ w.size = r.size /\ w.length = r.length /\ w.closed = r.closed
      /\ w.lossReported = (r.lossReported /\ from = r.current.from)
  <2> HIDE DEF cur
  <2> DEFINE u == [r EXCEPT !.current = cur]
  <2>1. /\ u \in Reader /\ u.current = cur /\ u.pc = r.pc /\ u.size = r.size
        /\ u.length = r.length /\ u.closed = r.closed /\ u.lossReported = r.lossReported
    BY <1>4 DEF Reader
  <2> DEFINE rep == r.lossReported /\ from = r.current.from
  <2>2. w = [u EXCEPT !.lossReported = rep]
    BY <1>6, <2>1
  <2>3. rep \in BOOLEAN
    OBVIOUS
  <2> HIDE DEF u, rep, w
  <2>4. /\ w \in Reader /\ w.current = u.current /\ w.pc = u.pc /\ w.size = u.size
        /\ w.length = u.length /\ w.closed = u.closed /\ w.lossReported = rep
    BY <2>1, <2>2, <2>3 DEF Reader
  <2> QED BY <2>1, <2>4 DEF rep
<1> QED BY <1>1, <1>4, <1>7 DEF full, from

\* stripEmpty goes to the first chunk with bytes, or past the last one.
LEMMA Stripped ==
  ASSUME NEW r \in Reader, NEW v, v = stripEmpty(r)
  PROVE  /\ v \in Reader
         /\ v.pc = r.pc /\ v.size = r.size /\ v.length = r.length /\ v.closed = r.closed
         /\ v.current.to = r.current.to
         /\ v.lossReported = (r.lossReported /\ v.current.from = r.current.from)
         /\ Empty(v.current) => v.current.from = r.current.to + 1
         /\ ~Empty(v.current) => /\ v.current.from \in r.current.from .. r.current.to
                                 /\ array[v.current.from].len > 0
         /\ \A i \in r.current.from .. r.current.to :
              i < v.current.from => ~(array[i].len > 0)
<1> DEFINE full == {i \in r.current.from .. r.current.to : array[i].len > 0}
           from == IF full = {} THEN r.current.to + 1 ELSE Min(full)
<1>1. /\ v \in Reader
      /\ v.pc = r.pc /\ v.size = r.size /\ v.length = r.length /\ v.closed = r.closed
      /\ v.current.to = r.current.to /\ v.current.from = from
      /\ v.lossReported = (r.lossReported /\ from = r.current.from)
  BY StripReader
<1>2. r.current.from \in Nat \ {0} /\ r.current.to \in Nat
  BY ReaderFields
<1>3. full \in SUBSET Nat
  BY <1>2
<1>4. CASE full = {}
  <2>1. v.current.from = r.current.to + 1
    BY <1>1, <1>4
  <2>2. Empty(v.current)
    BY <1>1, <1>2, <2>1 DEF Empty
  <2>3. \A i \in r.current.from .. r.current.to : ~(array[i].len > 0)
    BY <1>4
  <2> HIDE DEF full, from
  <2>4. v.lossReported = (r.lossReported /\ v.current.from = r.current.from)
    BY <1>1
  <2> QED BY <1>1, <2>1, <2>2, <2>3, <2>4
<1>5. CASE full # {}
  <2>1. Min(full) \in full /\ \A y \in full : Min(full) <= y
    BY <1>3, <1>5, MinIsLeast
  <2>2. v.current.from = Min(full)
    BY <1>1, <1>5
  <2>3. v.current.from \in r.current.from .. r.current.to /\ array[v.current.from].len > 0
    BY <2>1, <2>2
  <2>4. ~Empty(v.current)
    BY <1>1, <1>2, <2>3 DEF Empty
  <2>5. \A i \in r.current.from .. r.current.to :
          i < v.current.from => ~(array[i].len > 0)
    BY <1>2, <2>1, <2>2
  <2> HIDE DEF full, from
  <2>6. v.lossReported = (r.lossReported /\ v.current.from = r.current.from)
    BY <1>1
  <2> QED BY <1>1, <2>3, <2>4, <2>5, <2>6
<1> QED BY <1>4, <1>5

-----------------------------------------------------------------------------
(* Ranges of slots that follow one another.                                *)

\* A range of slots that are all in the array a.
Lies(a, r) == r.from \in Nat \ {0} /\ r.to \in 1 .. Len(a) /\ r.from <= r.to

\* The array and the positions of consumers.
ReaderArray == array \in Seq(Slot) /\ got \in [Streams -> Nat]

\* The slots of such a range.
LEMMA RangeSlots ==
  ASSUME NEW a \in Seq(Slot), NEW r, Lies(a, r), NEW i \in r.from .. r.to
  PROVE  /\ i \in 1 .. Len(a) /\ i \in Nat \ {0} /\ a[i] \in Slot
         /\ a[i].of \in Streams /\ a[i].at \in Nat /\ a[i].len \in Nat
         /\ a[i].skip \in BOOLEAN
         /\ Missing(a[i]) \in {0, 1} /\ (a[i].skip <=> Missing(a[i]) = 1)
<1>1. Len(a) \in Nat
  OBVIOUS
<1>2. i \in 1 .. Len(a) /\ i \in Nat \ {0}
  BY <1>1 DEF Lies
<1>3. a[i] \in Slot
  BY <1>2
<1> QED BY <1>2, <1>3, SlotFields

\* The position a consumer gets past in stripEmpty.
LEMMA PassedPosition ==
  ASSUME ReaderArray, NEW s \in Streams, NEW r \in Reader, r.current.to <= Len(array),
         NEW v, v = stripEmpty(r)
  PROVE  /\ Passed(s, r) \in Nat
         /\ v.current.from - 1 \in r.current.from .. r.current.to =>
              Passed(s, r) = array[v.current.from - 1].at
         /\ v.current.from - 1 \notin r.current.from .. r.current.to =>
              Passed(s, r) = got[s]
<1> DEFINE last == v.current.from - 1
           c == r.current
<1>1. /\ last \in c.from .. c.to => Passed(s, r) = array[last].at
      /\ last \notin c.from .. c.to => Passed(s, r) = got[s]
  BY DEF Passed
<1>2. got[s] \in Nat /\ array \in Seq(Slot) /\ Len(array) \in Nat
  BY DEF ReaderArray
<1>3. c.from \in Nat \ {0} /\ c.to \in Nat
  BY ReaderFields
<1> HIDE DEF last
<1>4. ASSUME last \in c.from .. c.to PROVE array[last].at \in Nat
  <2>1. Lies(array, c)
    BY <1>2, <1>3, <1>4 DEF Lies
  <2> QED BY <1>2, <1>4, <2>1, RangeSlots
<1> QED BY <1>1, <1>2, <1>4 DEF last

\* After stripEmpty a consumer has the next chunk at its front, or it has
\* received all of the range.
LEMMA StripFollows ==
  ASSUME ReaderArray, NEW r \in Reader, NEW v, v = stripEmpty(r),
         ~Empty(r.current), r.current.to <= Len(array),
         NEW s \in Streams, Joined(array, s, r.current),
         AtFront(array[r.current.from], got[s], r.lossReported)
  PROVE  /\ v.current.to = r.current.to
         /\ ~Empty(v.current) =>
              /\ v.current.from \in r.current.from .. r.current.to
              /\ Joined(array, s, v.current)
              /\ AtFront(array[v.current.from], Passed(s, r), v.lossReported)
         /\ Empty(v.current) => Passed(s, r) = End(array, r.current)
<1> DEFINE c == r.current
           d == v.current
           p == Passed(s, r)
<1>0. array \in Seq(Slot) /\ Len(array) \in Nat
  BY DEF ReaderArray
<1>1. /\ v \in Reader /\ d.to = c.to
      /\ v.lossReported = (r.lossReported /\ d.from = c.from)
      /\ Empty(d) => d.from = c.to + 1
      /\ ~Empty(d) => d.from \in c.from .. c.to /\ array[d.from].len > 0
      /\ \A i \in c.from .. c.to : i < d.from => ~(array[i].len > 0)
  BY Stripped
<1>2. c.from \in Nat \ {0} /\ c.to \in Nat /\ c.to <= Len(array)
  BY ReaderFields
<1>3. Lies(array, c)
  BY <1>0, <1>2 DEF Lies, Empty
<1>4. c.from \in c.from .. c.to
  BY <1>3 DEF Lies
<1>5. d.from \in Nat \ {0} /\ d.to \in Nat
  BY <1>1, ReaderFields
<1>6. /\ p \in Nat
      /\ d.from - 1 \in c.from .. c.to => p = array[d.from - 1].at
      /\ d.from - 1 \notin c.from .. c.to => p = got[s]
  BY PassedPosition
<1> HIDE DEF d, p
<1>7. \A i \in c.from .. c.to : i < d.from => array[i].len = 0
  <2> SUFFICES ASSUME NEW i \in c.from .. c.to, i < d.from PROVE array[i].len = 0
    OBVIOUS
  <2>1. array[i].len \in Nat
    BY <1>0, <1>3, RangeSlots
  <2> QED BY <1>1, <2>1
<1>8. CASE d.from = c.from
  <2>1. ~Empty(d)
    BY <1>1, <1>2, <1>3, <1>8 DEF Empty, Lies
  <2>2. Joined(array, s, d)
    BY <1>1, <1>8 DEF Joined
  <2>3. v.lossReported = r.lossReported
    BY <1>1, <1>8, ReaderFields
  <2>4. p = got[s]
    BY <1>2, <1>6, <1>8
  <2> QED BY <1>1, <1>4, <1>8, <2>1, <2>2, <2>3, <2>4 DEF d, p
<1>9. CASE d.from # c.from
  <2>1. d.from \in c.from + 1 .. c.to + 1
    BY <1>1, <1>2, <1>3, <1>5, <1>9 DEF Empty, Lies
  <2> DEFINE n == d.from - 1
  <2>2. n \in c.from .. c.to /\ n \in Nat /\ d.from = n + 1
    BY <1>2, <2>1, SMTT(30)
  <2>3. p = array[n].at
    BY <1>6, <2>2
  <2> HIDE DEF n
  <2>4. array[n].len = 0
    BY <1>7, <2>2
  <2>5. ~v.lossReported
    BY <1>1, <1>9
  <2>6. CASE Empty(d)
    <3>1. n = c.to
      BY <1>1, <1>2, <2>2, <2>6
    <3>2. End(array, c) = p
      BY <1>6, <2>3, <2>4, <3>1 DEF End
    <3> QED BY <1>1, <2>6, <3>2 DEF d, p
  <2>7. CASE ~Empty(d)
    <3>1. d.from \in c.from .. c.to /\ d.from \in c.from + 1 .. c.to
      BY <1>1, <1>2, <2>1, <2>7
    <3>2. Joined(array, s, d)
      <4>1. d.from .. d.to \subseteq c.from .. c.to
        BY <1>1, <1>2, <1>5, <3>1
      <4>2. d.from + 1 .. d.to \subseteq c.from + 1 .. c.to
        BY <1>1, <1>2, <1>5, <3>1
      <4> QED BY <4>1, <4>2 DEF Joined
    <3>3. array[d.from].at = array[n].at + array[n].len + Missing(array[d.from])
      BY <1>2, <2>2, <3>1 DEF Joined
    <3>4. /\ Missing(array[d.from]) \in {0, 1}
          /\ (array[d.from].skip <=> Missing(array[d.from]) = 1)
          /\ array[d.from].skip \in BOOLEAN /\ array[d.from].at \in Nat
      BY <1>0, <1>3, <3>1, RangeSlots
    <3>5. array[d.from].at = p + Missing(array[d.from])
      BY <1>6, <2>3, <2>4, <3>3, <3>4
    <3>6. AtFront(array[d.from], p, v.lossReported)
      <4>1. CASE array[d.from].skip
        BY <1>6, <2>5, <3>4, <3>5, <4>1 DEF AtFront
      <4>2. CASE ~array[d.from].skip
        BY <1>6, <2>5, <3>4, <3>5, <4>2 DEF AtFront
      <4> QED BY <4>1, <4>2
    <3> QED BY <1>1, <2>7, <3>1, <3>2, <3>6 DEF d, p
  <2> QED BY <2>6, <2>7
<1> QED BY <1>8, <1>9

\* What a range of slots says depends on the slots in it.
SameIn(a, b, r) == \A i \in r.from .. r.to : b[i] = a[i]

LEMMA SameSlots ==
  ASSUME NEW a, NEW b, NEW r, r.from \in Nat, r.to \in Nat, ~Empty(r),
         SameIn(a, b, r)
  PROVE  /\ \A s : Joined(a, s, r) => Joined(b, s, r)
         /\ \A p : Begins(a, r, p) => Begins(b, r, p)
         /\ End(b, r) = End(a, r)
         /\ b[r.from] = a[r.from]
<1> USE DEF SameIn
<1>1. r.from \in r.from .. r.to /\ r.to \in r.from .. r.to
  BY DEF Empty
<1>2. b[r.from] = a[r.from] /\ b[r.to] = a[r.to]
  BY <1>1
<1>3. \A i \in r.from + 1 .. r.to : b[i] = a[i] /\ b[i-1] = a[i-1]
  OBVIOUS
<1>4. ASSUME NEW s, Joined(a, s, r) PROVE Joined(b, s, r)
  BY <1>3, <1>4 DEF Joined
<1> QED BY <1>2, <1>4 DEF Begins, End

-----------------------------------------------------------------------------
(* The array when a batch is written from its start.                       *)

\* The chunks of a batch, one after the other.
LEMMA BatchFields ==
  ASSUME NEW b \in Batches
  PROVE  /\ Len(b) \in Nat \ {0} /\ DOMAIN b = 1 .. Len(b)
         /\ \A i \in 1 .. Len(b) : b[i].at \in Nat /\ b[i].len \in Nat /\ b[i].skip \in BOOLEAN
         /\ \A i \in 1 .. Len(b) : b[i].page \in Pages \cup {NoPage}
         /\ b[1].at = Missing(b[1])
         /\ \A i \in 2 .. Len(b) : b[i].at = b[i-1].at + b[i-1].len + Missing(b[i])
         /\ Extent(b) \in Nat /\ Extent(b) = b[Len(b)].at + b[Len(b)].len
<1>1. b \in Batch
  BY StreamReaderAssumption
<1>2. /\ b \in Seq([skip : BOOLEAN, at : Nat, len : Nat, page : Pages \cup {NoPage}]) /\ b # <<>>
      /\ b[1].at = Missing(b[1])
      /\ \A i \in DOMAIN b \ {1} : b[i].at = b[i-1].at + b[i-1].len + Missing(b[i])
  BY <1>1 DEF Batch
<1>3. Len(b) \in Nat \ {0} /\ DOMAIN b = 1 .. Len(b)
  BY <1>2
<1>4. ASSUME NEW S, b \in Seq(S), NEW i \in 1 .. Len(b) PROVE b[i] \in S
  BY <1>4
<1>5. \A i \in 1 .. Len(b) : /\ b[i].at \in Nat /\ b[i].len \in Nat /\ b[i].skip \in BOOLEAN
                             /\ b[i].page \in Pages \cup {NoPage}
  <2> SUFFICES ASSUME NEW i \in 1 .. Len(b)
      PROVE /\ b[i].at \in Nat /\ b[i].len \in Nat /\ b[i].skip \in BOOLEAN
            /\ b[i].page \in Pages \cup {NoPage}
    OBVIOUS
  <2>1. b[i] \in [skip : BOOLEAN, at : Nat, len : Nat, page : Pages \cup {NoPage}]
    BY <1>2, <1>4
  <2> QED BY <2>1
<1>6. Len(b) \in 1 .. Len(b)
  BY <1>3
<1>7. Extent(b) \in Nat /\ Extent(b) = b[Len(b)].at + b[Len(b)].len
  BY <1>5, <1>6 DEF Extent
<1>8. \A i \in 2 .. Len(b) : i \in DOMAIN b \ {1}
  BY <1>3
<1> QED BY <1>2, <1>3, <1>5, <1>7, <1>8

\* An array written again from its start.
Written(d, n, a) == d \o SubSeq(a, n + 1, Len(a))

IsWritten(w, d, n, a) ==
  /\ w \in Seq(Slot)
  /\ Len(w) \in Nat /\ Len(w) >= Len(a) /\ Len(w) >= n
  /\ \A i \in 1 .. n : w[i] = d[i]
  /\ \A i \in n + 1 .. Len(a) : w[i] = a[i]

LEMMA WrittenFromStart ==
  ASSUME NEW a \in Seq(Slot), NEW n \in Nat, NEW d \in [1 .. n -> Slot],
         NEW w, w = Written(d, n, a)
  PROVE  IsWritten(w, d, n, a)
<1> DEFINE rest == SubSeq(a, n + 1, Len(a))
<1>1. Len(a) \in Nat /\ \A i \in n + 1 .. Len(a) : a[i] \in Slot
  <2>1. Len(a) \in Nat
    BY LenProperties
  <2>2. \A i \in n + 1 .. Len(a) : i \in 1 .. Len(a)
    BY <2>1
  <2> QED BY <2>1, <2>2, ElementOfSeq
<1>2. /\ rest \in Seq(Slot)
      /\ Len(rest) = IF n + 1 <= Len(a) THEN Len(a) - (n + 1) + 1 ELSE 0
      /\ \A i \in 1 .. Len(a) - (n + 1) + 1 : rest[i] = a[n + 1 + i - 1]
  BY <1>1, SubSeqProperties
<1>3. d \in Seq(Slot)
  BY SeqDef
<1>4. Len(d) = n
  BY <1>3, LenProperties
<1> HIDE DEF rest
<1>5. /\ w \in Seq(Slot) /\ Len(w) = Len(d) + Len(rest)
      /\ \A i \in 1 .. Len(d) + Len(rest) :
           w[i] = IF i <= Len(d) THEN d[i] ELSE rest[i - Len(d)]
  <2>1. w = d \o rest
    BY DEF rest, Written
  <2>2. /\ d \o rest \in Seq(Slot) /\ Len(d \o rest) = Len(d) + Len(rest)
        /\ \A i \in 1 .. Len(d) + Len(rest) :
             (d \o rest)[i] = IF i <= Len(d) THEN d[i] ELSE rest[i - Len(d)]
    BY <1>2, <1>3, ConcatProperties
  <2> QED BY <2>1, <2>2
<1>6. Len(rest) \in Nat /\ Len(rest) >= Len(a) - n
  BY <1>1, <1>2
<1>7. \A i \in 1 .. n : w[i] = d[i]
  BY <1>4, <1>5, <1>6
<1>8. \A i \in n + 1 .. Len(a) : w[i] = a[i]
  <2> SUFFICES ASSUME NEW i \in n + 1 .. Len(a) PROVE w[i] = a[i]
    OBVIOUS
  <2>1. w[i] = rest[i - n]
    BY <1>1, <1>4, <1>5, <1>6
  <2>2. i - n \in 1 .. Len(a) - (n + 1) + 1 /\ n + 1 + (i - n) - 1 = i
    BY <1>1
  <2> QED BY <1>2, <2>1, <2>2
<1> QED BY <1>1, <1>4, <1>5, <1>6, <1>7, <1>8 DEF IsWritten

\* The slot of a chunk c of stream s, in a batch that begins at position p.
Carried(s, c, p) ==
  [of |-> s, at |-> p + c.at, len |-> c.len, skip |-> c.skip, page |-> c.page,
   whole |-> TRUE]

\* The first slots of the array w are the chunks of batch b.
CarriesBatch(w, s, b, p) ==
  \A i \in 1 .. Len(b) : w[i] = Carried(s, b[i], p)

\* The array begins with the batch and goes on as before.
LEMMA ArrayWritten ==
  ASSUME array \in Seq(Slot), sent \in [Streams -> Nat],
         NEW s \in Streams, NEW b \in Batches,
         array' = Slots(s, b) \o SubSeq(array, Len(b) + 1, Len(array))
  PROVE  /\ array' \in Seq(Slot)
         /\ Len(array') \in Nat /\ Len(array') >= Len(array) /\ Len(array') >= Len(b)
         /\ \A i \in 1 .. Len(b) :
              array'[i] = Carried(s, b[i], sent[s])
         /\ \A i \in Len(b) + 1 .. Len(array) : array'[i] = array[i]
<1> DEFINE old == Slots(s, b)
<1>1. /\ Len(b) \in Nat \ {0} /\ DOMAIN b = 1 .. Len(b)
      /\ \A i \in 1 .. Len(b) : /\ b[i].at \in Nat /\ b[i].len \in Nat /\ b[i].skip \in BOOLEAN
                               /\ b[i].page \in Pages \cup {NoPage}
  BY BatchFields
<1>2. sent[s] \in Nat /\ Len(array) \in Nat
  OBVIOUS
<1>3. \A i \in 1 .. Len(b) : Carried(s, b[i], sent[s]) \in Slot
  <2> SUFFICES ASSUME NEW i \in 1 .. Len(b)
      PROVE Carried(s, b[i], sent[s]) \in Slot
    OBVIOUS
  <2>1. /\ b[i].at \in Nat /\ b[i].len \in Nat /\ b[i].skip \in BOOLEAN
        /\ b[i].page \in Pages \cup {NoPage}
    BY <1>1
  <2>2. sent[s] + b[i].at \in Nat
    BY <1>2, <2>1
  <2> QED BY <2>1, <2>2 DEF Slot, Carried
<1>4. old \in [1 .. Len(b) -> Slot]
  BY <1>1, <1>3 DEF Slots, Carried
<1>5. \A i \in 1 .. Len(b) : old[i] = Carried(s, b[i], sent[s])
  BY <1>1 DEF Slots, Carried
<1> HIDE DEF old
<1>6. array' = Written(old, Len(b), array)
  BY DEF old, Written
<1>7. Len(b) \in Nat /\ array \in Seq(Slot)
  BY <1>1
<1>8. IsWritten(array', old, Len(b), array)
  BY ONLY <1>4, <1>6, <1>7, WrittenFromStart
<1> QED BY <1>5, <1>8 DEF IsWritten

\* The slots of a batch that is written where p is the end of the one before.
LEMMA BatchWritten ==
  ASSUME NEW s, NEW b \in Batches, NEW p \in Nat,
         NEW w, CarriesBatch(w, s, b, p),
         NEW r, r.from = 1, r.to = Len(b)
  PROVE  /\ Joined(w, s, r)
         /\ Begins(w, r, p)
         /\ End(w, r) = p + Extent(b)
<1>1. /\ Len(b) \in Nat \ {0} /\ DOMAIN b = 1 .. Len(b)
      /\ \A i \in 1 .. Len(b) : b[i].at \in Nat /\ b[i].len \in Nat /\ b[i].skip \in BOOLEAN
      /\ b[1].at = Missing(b[1])
      /\ \A i \in 2 .. Len(b) : b[i].at = b[i-1].at + b[i-1].len + Missing(b[i])
      /\ Extent(b) \in Nat /\ Extent(b) = b[Len(b)].at + b[Len(b)].len
  BY BatchFields
<1>3. \A i \in 1 .. Len(b) :
        /\ w[i].of = s /\ w[i].at = p + b[i].at /\ w[i].whole
        /\ w[i].len = b[i].len /\ w[i].skip = b[i].skip
  <2> SUFFICES ASSUME NEW i \in 1 .. Len(b)
      PROVE /\ w[i].of = s /\ w[i].at = p + b[i].at /\ w[i].whole
            /\ w[i].len = b[i].len /\ w[i].skip = b[i].skip
    OBVIOUS
  <2> DEFINE at == p + b[i].at
             len == b[i].len
             skip == b[i].skip
             page == b[i].page
  <2>1. w[i] = [of |-> s, at |-> at, len |-> len, skip |-> skip, page |-> page,
                whole |-> TRUE]
    BY DEF CarriesBatch, Carried
  <2> HIDE DEF at, len, skip, page
  <2>2. w[i].of = s /\ w[i].at = at /\ w[i].len = len /\ w[i].skip = skip /\ w[i].whole
    BY <2>1
  <2> QED BY <2>2 DEF at, len, skip
<1>4. \A i \in 1 .. Len(b) : Missing(w[i]) = Missing(b[i]) /\ Missing(b[i]) \in {0, 1}
  BY <1>1, <1>3 DEF Missing
<1>7. 1 \in 1 .. Len(b) /\ Len(b) \in 1 .. Len(b)
  BY <1>1
<1>8. \A i \in 2 .. Len(b) : w[i].at = w[i-1].at + w[i-1].len + Missing(w[i])
  <2> SUFFICES ASSUME NEW i \in 2 .. Len(b)
      PROVE w[i].at = w[i-1].at + w[i-1].len + Missing(w[i])
    OBVIOUS
  <2>1. i \in 1 .. Len(b) /\ i - 1 \in 1 .. Len(b)
    BY <1>1
  <2>2. w[i].at = p + b[i].at /\ Missing(w[i]) = Missing(b[i])
    BY <1>3, <1>4, <2>1
  <2>3. w[i-1].at = p + b[i-1].at /\ w[i-1].len = b[i-1].len
    BY <1>3, <2>1
  <2>4. b[i].at = b[i-1].at + b[i-1].len + Missing(b[i])
    BY <1>1
  <2>5. /\ b[i].at \in Nat /\ b[i-1].at \in Nat /\ b[i-1].len \in Nat
        /\ Missing(b[i]) \in {0, 1}
    BY <1>1, <1>4, <2>1
  <2>6. ASSUME NEW x \in Nat, NEW y \in Nat, NEW z \in {0, 1}
        PROVE p + (x + y + z) = (p + x) + y + z
    OBVIOUS
  <2> QED BY <2>2, <2>3, <2>4, <2>5, <2>6, SMTT(30)
<1>9. \A i \in 2 .. Len(b) : i \in 1 .. Len(b)
  BY <1>1
<1>10. Joined(w, s, r)
  BY <1>3, <1>8, <1>9 DEF Joined
<1>11. Begins(w, r, p)
  BY <1>1, <1>3, <1>4, <1>7 DEF Begins
<1>12. End(w, r) = p + Extent(b)
  BY <1>1, <1>3, <1>7 DEF End
<1> QED BY <1>10, <1>11, <1>12

-----------------------------------------------------------------------------
(* Types, ranges and labels, action by action.                             *)

\* A step of the goroutine of s that puts v for its reader, and may take a batch
\* from its channel.
LEMMA ReaderStep ==
  ASSUME ReaderInv, NEW s \in Streams, NEW v \in Reader,
         reader' = [reader EXCEPT ![s] = v],
         UNCHANGED <<array, held, complete, sending, sent, spoilt, crashed, batches>>,
         got' \in [Streams -> Nat],
         reassembled' \in [Streams -> Seq(Slice)],
         \A t \in Streams : /\ Waiting(t)' \subseteq Waiting(t)
                            /\ Len(reassembled'[t]) <= Capacity
                            /\ reassembled[t] = <<>> => reassembled'[t] = <<>>,
         v.current.to <= Len(array),
         v.pc \in {"head", "advance"} => ~Empty(v.current),
         v.pc \in {"select", "eof"} => Empty(v.current),
         v.pc \in Reading /\ Empty(v.current) => ~v.lossReported,
         v.pc \in Reading /\ v.closed => complete[s] /\ reassembled'[s] = <<>>,
         v.pc = "eof" => v.closed
  PROVE  ReaderInv'
<1> USE DEF ReaderInv
<1>1. \A t \in Streams : reader'[t] = IF t = s THEN v ELSE reader[t]
  BY DEF TypeOK
<1>2. TypeOK'
  BY DEF TypeOK
<1>3. RangesExist'
  <2>1. \A t \in Streams : reader'[t].current.to <= Len(array)
    BY <1>1 DEF RangesExist
  <2>2. \A t \in Streams : \A r \in Waiting(t)' : r.from = 1 /\ r.to \in 1 .. Len(array)
    BY DEF RangesExist
  <2>3. array' = array /\ sending' = sending
    OBVIOUS
  <2> QED BY <2>1, <2>2, <2>3 DEF RangesExist
<1>4. LabelsMatch'
  <2> SUFFICES ASSUME NEW t \in Streams
      PROVE /\ reader'[t].pc \in {"head", "advance"} => ~Empty(reader'[t].current)
            /\ reader'[t].pc \in {"select", "eof"} => Empty(reader'[t].current)
            /\ reader'[t].pc \in Reading /\ Empty(reader'[t].current) => ~reader'[t].lossReported
    BY DEF LabelsMatch, Empty
  <2>1. CASE t = s
    BY <1>1, <2>1
  <2>2. CASE t # s
    BY <1>1, <2>2 DEF LabelsMatch
  <2> QED BY <2>1, <2>2
<1>5. EndIsLast'
  <2> SUFFICES ASSUME NEW t \in Streams
      PROVE /\ complete'[t] => sending'.to # t
            /\ reader'[t].pc \in Reading /\ reader'[t].closed =>
                 complete'[t] /\ reassembled'[t] = <<>>
            /\ reader'[t].pc = "eof" => reader'[t].closed
    BY DEF EndIsLast
  <2>1. CASE t = s
    BY <1>1, <2>1 DEF EndIsLast
  <2>2. CASE t # s
    BY <1>1, <2>2 DEF EndIsLast
  <2> QED BY <2>1, <2>2
<1> QED BY <1>2, <1>3, <1>4, <1>5

\* When the channels are left alone.
LEMMA ChannelsAlone ==
  ASSUME ReaderInv, reassembled' = reassembled
  PROVE  /\ reassembled' \in [Streams -> Seq(Slice)]
         /\ \A t \in Streams : /\ Waiting(t)' \subseteq Waiting(t)
                               /\ Len(reassembled'[t]) <= Capacity
                               /\ reassembled[t] = <<>> => reassembled'[t] = <<>>
BY DEF ReaderInv, TypeOK, Waiting

\* The first batch of a channel that is not empty is received.
LEMMA HeadTaken ==
  ASSUME ReaderInv, NEW s \in Streams, reassembled[s] # <<>>,
         reassembled' = [reassembled EXCEPT ![s] = Tail(@)]
  PROVE  /\ reassembled' \in [Streams -> Seq(Slice)]
         /\ \A t \in Streams : /\ Waiting(t)' \subseteq Waiting(t)
                               /\ Len(reassembled'[t]) <= Capacity
                               /\ reassembled[t] = <<>> => reassembled'[t] = <<>>
         /\ Head(reassembled[s]) \in Slice
         /\ Head(reassembled[s]) \in Waiting(s)
         /\ Len(reassembled'[s]) = Len(reassembled[s]) - 1
         /\ Len(reassembled[s]) \in Nat
         /\ \A t \in Streams \ {s} : reassembled'[t] = reassembled[t]
<1>1. /\ reassembled \in [Streams -> Seq(Slice)]
      /\ \A t \in Streams : Len(reassembled[t]) <= Capacity
      /\ Capacity \in Nat
  BY StreamReaderAssumption DEF ReaderInv, TypeOK
<1> DEFINE c == reassembled[s]
           d == Tail(c)
<1>2. c \in Seq(Slice) /\ c # <<>>
  BY <1>1
<1>3. /\ Head(c) \in Slice /\ d \in Seq(Slice) /\ Len(d) = Len(c) - 1
      /\ \A i \in 1 .. Len(d) : d[i] = c[i+1]
      /\ Len(c) \in Nat \ {0} /\ DOMAIN c = 1 .. Len(c) /\ DOMAIN d = 1 .. Len(d)
  BY <1>2, HeadTailProperties, LenProperties, EmptySeq
<1>4. Head(c) = c[1] /\ 1 \in DOMAIN c
  BY <1>2, <1>3
<1> HIDE DEF d
<1>5. reassembled' = [reassembled EXCEPT ![s] = d]
  BY DEF d
<1>6. \A t \in Streams : reassembled'[t] = IF t = s THEN d ELSE reassembled[t]
  BY <1>1, <1>5
<1>7. reassembled' \in [Streams -> Seq(Slice)]
  BY <1>1, <1>3, <1>5
<1>8. \A t \in Streams : Len(reassembled'[t]) <= Capacity
  BY <1>1, <1>3, <1>6
<1>9. \A t \in Streams : Waiting(t)' \subseteq Waiting(t)
  <2> SUFFICES ASSUME NEW t \in Streams PROVE Waiting(t)' \subseteq Waiting(t)
    OBVIOUS
  <2>1. CASE t # s
    BY <1>6, <2>1 DEF Waiting
  <2>2. CASE t = s
    <3>1. \A i \in DOMAIN d : i + 1 \in DOMAIN c /\ d[i] = c[i+1]
      BY <1>3
    <3>2. Waiting(t)' = {d[i] : i \in DOMAIN d}
      BY <1>6, <2>2 DEF Waiting
    <3> QED BY <2>2, <3>1, <3>2 DEF Waiting
  <2> QED BY <2>1, <2>2
<1>10. \A t \in Streams : reassembled[t] = <<>> => reassembled'[t] = <<>>
  BY <1>2, <1>6
<1>11. Head(c) \in Waiting(s)
  BY <1>4 DEF Waiting
<1>12. Len(reassembled'[s]) = Len(c) - 1
  BY <1>3, <1>6
<1> QED BY <1>3, <1>6, <1>7, <1>8, <1>9, <1>10, <1>11, <1>12

\* Looks(r) is r at the label that its range and its flag say.
LEMMA LooksFields ==
  ASSUME NEW r \in Reader, NEW v, v = Looks(r)
  PROVE  /\ v \in Reader /\ v.size = r.size /\ v.length = r.length
         /\ v.current = r.current /\ v.closed = r.closed /\ v.lossReported = r.lossReported
         /\ v.pc \in {"head", "eof", "select"}
         /\ v.pc = "head" <=> ~Empty(r.current)
         /\ v.pc = "eof" => r.closed
<1> DEFINE pc == IF r.current.from <= r.current.to THEN "head"
                 ELSE IF r.closed THEN "eof" ELSE "select"
<1>1. pc \in Labels /\ pc \in {"head", "eof", "select"} /\ (pc = "eof" => r.closed)
  BY DEF Labels
<1>2. pc = "head" <=> ~Empty(r.current)
  BY ReaderFields DEF Empty
<1>3. v = [r EXCEPT !.pc = pc]
  BY DEF Looks
<1> HIDE DEF pc
<1>4. /\ v \in Reader /\ v.pc = pc /\ v.size = r.size /\ v.length = r.length
      /\ v.current = r.current /\ v.closed = r.closed /\ v.lossReported = r.lossReported
  BY <1>1, <1>3 DEF Reader
<1> QED BY <1>1, <1>2, <1>4

\* What Read does with r before it looks at a chunk.
LEMMA LooksStripped ==
  ASSUME NEW r \in Reader, Empty(r.current) => ~r.lossReported,
         NEW v, v = Looks(stripEmpty(r))
  PROVE  /\ v \in Reader /\ v.closed = r.closed /\ v.current.to = r.current.to
         /\ v.pc \in {"head", "eof", "select"}
         /\ v.pc = "head" <=> ~Empty(v.current)
         /\ v.pc = "eof" => v.closed
         /\ Empty(v.current) => ~v.lossReported
<1> DEFINE w == stripEmpty(r)
<1>1. w = stripEmpty(r)
  OBVIOUS
<1> HIDE DEF w
<1>2. /\ w \in Reader /\ w.closed = r.closed /\ w.current.to = r.current.to
      /\ w.lossReported = (r.lossReported /\ w.current.from = r.current.from)
      /\ Empty(w.current) => w.current.from = r.current.to + 1
  BY <1>1, Stripped
<1>3. v = Looks(w)
  BY <1>1
<1>4. /\ v \in Reader /\ v.current = w.current /\ v.closed = w.closed
      /\ v.lossReported = w.lossReported
      /\ v.pc \in {"head", "eof", "select"}
      /\ v.pc = "head" <=> ~Empty(w.current)
      /\ v.pc = "eof" => w.closed
  BY <1>2, <1>3, LooksFields
<1>5. Empty(w.current) => ~w.lossReported
  <2> SUFFICES ASSUME Empty(w.current), r.lossReported PROVE ~w.lossReported
    BY <1>2
  <2>1. ~Empty(r.current)
    OBVIOUS
  <2>2. w.current.from # r.current.from
    BY <1>2, <2>1, ReaderFields DEF Empty
  <2> QED BY <1>2, <2>2
<1> QED BY <1>2, <1>4, <1>5

LEMMA NewReader ==
  ASSUME ReaderInv, NEW s \in Streams, New(s)
  PROVE  ReaderInv'
<1> USE DEF New, Runs
<1> DEFINE r == reader[s]
           v == [r EXCEPT !.pc = "idle"]
<1>1. r \in Reader /\ r.pc = "none"
  BY DEF ReaderInv, TypeOK
<1>2. /\ v \in Reader /\ v.pc = "idle" /\ v.current = r.current
      /\ v.closed = r.closed /\ v.lossReported = r.lossReported
  BY <1>1 DEF Reader, Labels
<1>3. reader' = [reader EXCEPT ![s] = v]
  OBVIOUS
<1>4. /\ r.current.to <= Len(array)
      /\ r.pc \in Reading /\ Empty(r.current) => ~r.lossReported
      /\ r.pc \in Reading /\ r.closed => complete[s] /\ reassembled[s] = <<>>
  BY DEF ReaderInv, RangesExist, LabelsMatch, EndIsLast
<1>5. r.pc \in Reading /\ reassembled' = reassembled /\ got' = got /\ got \in [Streams -> Nat]
  BY <1>1 DEF Reading, ReaderInv, TypeOK
<1>6. UNCHANGED <<array, held, complete, sending, sent, spoilt, crashed, batches>>
  OBVIOUS
<1> HIDE DEF r, v, New, Runs
<1> QED BY <1>2, <1>3, <1>4, <1>5, <1>6, ReaderStep, ChannelsAlone

LEMMA BeginReadReader ==
  ASSUME ReaderInv, NEW s \in Streams, NEW n \in ReadSizes, BeginRead(s, n)
  PROVE  ReaderInv'
<1> USE DEF BeginRead, Runs
<1> DEFINE r == reader[s]
           u == [r EXCEPT !.size = n]
           v == Looks(stripEmpty(u))
<1>1. r \in Reader /\ r.pc = "idle" /\ n \in Nat
  BY StreamReaderAssumption DEF ReaderInv, TypeOK
<1>2. /\ u \in Reader /\ u.pc = "idle" /\ u.current = r.current
      /\ u.closed = r.closed /\ u.lossReported = r.lossReported
  BY <1>1 DEF Reader
<1>3. reader' = [reader EXCEPT ![s] = v] /\ got' = [got EXCEPT ![s] = Passed(s, u)]
  OBVIOUS
<1>4. /\ r.current.to <= Len(array)
      /\ r.pc \in Reading /\ Empty(r.current) => ~r.lossReported
      /\ r.pc \in Reading /\ r.closed => complete[s] /\ reassembled[s] = <<>>
  BY DEF ReaderInv, RangesExist, LabelsMatch, EndIsLast
<1>5. r.pc \in Reading /\ reassembled' = reassembled /\ ReaderArray
  BY <1>1 DEF Reading, ReaderInv, TypeOK, ReaderArray
<1>6. UNCHANGED <<array, held, complete, sending, sent, spoilt, crashed, batches>>
  OBVIOUS
<1>7. v = Looks(stripEmpty(u))
  OBVIOUS
<1> HIDE DEF r, u, v, BeginRead, Runs
<1>11. got' \in [Streams -> Nat]
  <2>1. Passed(s, u) \in Nat
    BY <1>2, <1>4, <1>5, PassedPosition
  <2> QED BY <1>3, <1>5, <2>1 DEF ReaderArray
<1>8. Empty(u.current) => ~u.lossReported
  BY <1>2, <1>4, <1>5
<1>9. /\ v \in Reader /\ v.closed = u.closed /\ v.current.to = u.current.to
      /\ v.pc \in {"head", "eof", "select"}
      /\ v.pc = "head" <=> ~Empty(v.current)
      /\ v.pc = "eof" => v.closed
      /\ Empty(v.current) => ~v.lossReported
  BY <1>2, <1>7, <1>8, LooksStripped
<1>10. /\ v.current.to <= Len(array)
       /\ v.pc \in {"head", "advance"} => ~Empty(v.current)
       /\ v.pc \in {"select", "eof"} => Empty(v.current)
       /\ v.closed => complete[s] /\ reassembled[s] = <<>>
  BY <1>2, <1>4, <1>5, <1>9
<1> QED BY <1>3, <1>5, <1>6, <1>9, <1>10, <1>11, ReaderStep, ChannelsAlone

LEMMA ReceiveReader ==
  ASSUME ReaderInv, NEW s \in Streams, Receive(s)
  PROVE  ReaderInv'
<1> USE DEF Receive, Runs
<1> DEFINE r == reader[s]
           u == [r EXCEPT !.current = Head(reassembled[s])]
           v == Looks(stripEmpty(u))
<1>1. r \in Reader /\ r.pc = "select"
  BY DEF ReaderInv, TypeOK
<1>2. /\ reassembled[s] # <<>> /\ reassembled' = [reassembled EXCEPT ![s] = Tail(@)]
      /\ ReaderArray
  BY DEF ReaderInv, TypeOK, ReaderArray
<1>3. /\ reassembled' \in [Streams -> Seq(Slice)]
      /\ \A t \in Streams : /\ Waiting(t)' \subseteq Waiting(t)
                            /\ Len(reassembled'[t]) <= Capacity
                            /\ reassembled[t] = <<>> => reassembled'[t] = <<>>
      /\ Head(reassembled[s]) \in Slice
      /\ Head(reassembled[s]) \in Waiting(s)
  BY <1>2, HeadTaken
<1>4. /\ u \in Reader /\ u.pc = "select" /\ u.current = Head(reassembled[s])
      /\ u.closed = r.closed /\ u.lossReported = r.lossReported
  BY <1>1, <1>3 DEF Reader
<1>5. reader' = [reader EXCEPT ![s] = v] /\ got' = [got EXCEPT ![s] = Passed(s, u)]
  OBVIOUS
<1>6. /\ \A q \in Waiting(s) : q.to <= Len(array)
      /\ r.pc \in {"select", "eof"} => Empty(r.current)
      /\ r.pc \in Reading /\ Empty(r.current) => ~r.lossReported
      /\ r.pc \in Reading /\ r.closed => complete[s] /\ reassembled[s] = <<>>
  <2>1. \A q \in Waiting(s) : q.to \in 1 .. Len(array)
    BY DEF ReaderInv, RangesExist
  <2> QED BY <2>1 DEF ReaderInv, TypeOK, LabelsMatch, EndIsLast
<1>7. UNCHANGED <<array, held, complete, sending, sent, spoilt, crashed, batches>>
  OBVIOUS
<1>8. v = Looks(stripEmpty(u))
  OBVIOUS
<1> HIDE DEF r, u, v, Receive, Runs
<1>9. ~r.lossReported /\ ~r.closed
  BY <1>1, <1>2, <1>6 DEF Reading
<1>10. /\ v \in Reader /\ v.closed = u.closed /\ v.current.to = u.current.to
       /\ v.pc \in {"head", "eof", "select"}
       /\ v.pc = "head" <=> ~Empty(v.current)
       /\ v.pc = "eof" => v.closed
       /\ Empty(v.current) => ~v.lossReported
  BY <1>4, <1>8, <1>9, LooksStripped
<1>11. /\ v.current.to <= Len(array)
       /\ v.pc \in {"head", "advance"} => ~Empty(v.current)
       /\ v.pc \in {"select", "eof"} => Empty(v.current)
       /\ ~v.closed
  BY <1>3, <1>4, <1>6, <1>9, <1>10
<1>12. got' \in [Streams -> Nat]
  <2>1. u.current.to <= Len(array)
    BY <1>3, <1>4, <1>6
  <2>2. Passed(s, u) \in Nat
    BY <1>2, <1>4, <2>1, PassedPosition
  <2> QED BY <1>2, <1>5, <2>2 DEF ReaderArray
<1> QED BY <1>2, <1>3, <1>5, <1>7, <1>10, <1>11, <1>12, ReaderStep

LEMMA ReceiveClosedReader ==
  ASSUME ReaderInv, NEW s \in Streams, ReceiveClosed(s)
  PROVE  ReaderInv'
<1> USE DEF ReceiveClosed, Runs
<1> DEFINE r == reader[s]
           u == [r EXCEPT !.closed = TRUE]
           v == [u EXCEPT !.pc = "eof"]
<1>1. r \in Reader /\ r.pc = "select"
  BY DEF ReaderInv, TypeOK
<1>2. /\ u \in Reader /\ u.closed = TRUE /\ u.current = r.current
      /\ u.lossReported = r.lossReported
  BY <1>1 DEF Reader
<1>3. reader' = [reader EXCEPT ![s] = v]
  BY DEF ReaderInv, TypeOK
<1>4. v = [u EXCEPT !.pc = "eof"]
  OBVIOUS
<1>5. /\ r.current.to <= Len(array)
      /\ r.pc \in {"select", "eof"} => Empty(r.current)
      /\ r.pc \in Reading /\ Empty(r.current) => ~r.lossReported
  BY DEF ReaderInv, RangesExist, LabelsMatch
<1>6. /\ reassembled' = reassembled /\ got' = got /\ got \in [Streams -> Nat]
      /\ complete[s] /\ reassembled[s] = <<>>
  BY DEF ReaderInv, TypeOK
<1>7. UNCHANGED <<array, held, complete, sending, sent, spoilt, crashed, batches>>
  OBVIOUS
<1> HIDE DEF r, u, v, ReceiveClosed, Runs
<1>8. /\ v \in Reader /\ v.pc = "eof" /\ v.closed = TRUE /\ v.current = r.current
      /\ v.lossReported = r.lossReported
  BY <1>2, <1>4 DEF Reader, Labels
<1>9. Empty(v.current) /\ ~v.lossReported
  BY <1>1, <1>5, <1>8 DEF Reading
<1> QED BY <1>3, <1>5, <1>6, <1>7, <1>8, <1>9, ReaderStep, ChannelsAlone

\* The chunk at the front of a reader that looks at it.
LEMMA FrontSlot ==
  ASSUME ReaderInv, NEW s \in Streams, reader[s].pc \in {"head", "advance"}
  PROVE  /\ reader[s] \in Reader
         /\ reader[s].current.from \in 1 .. Len(array)
         /\ ~Empty(reader[s].current) /\ Lies(array, reader[s].current)
         /\ Front(s) \in Slot
         /\ Front(s).of \in Streams /\ Front(s).at \in Nat /\ Front(s).len \in Nat
<1> DEFINE c == reader[s].current
<1>1. reader[s] \in Reader /\ array \in Seq(Slot)
  BY DEF ReaderInv, TypeOK
<1>2. c.from \in Nat \ {0} /\ c.to \in Nat
  BY <1>1, ReaderFields
<1>3. ~Empty(c) /\ c.to <= Len(array) /\ Len(array) \in Nat
  BY <1>1 DEF ReaderInv, LabelsMatch, RangesExist
<1>4. Lies(array, c) /\ c.from \in 1 .. Len(array) /\ c.from \in c.from .. c.to
  BY <1>2, <1>3 DEF Lies, Empty
<1>5. Front(s) \in Slot
  BY <1>1, <1>4 DEF Front
<1> QED BY <1>1, <1>3, <1>4, <1>5, SlotFields

LEMMA DataLostReader ==
  ASSUME ReaderInv, NEW s \in Streams, DataLost(s)
  PROVE  /\ ReaderInv'
         /\ \E v \in Reader : /\ reader' = [reader EXCEPT ![s] = v] /\ v.pc = "idle"
                              /\ v.current = reader[s].current /\ v.lossReported = TRUE
                              /\ v.closed = reader[s].closed
<1> USE DEF DataLost, Runs
<1> DEFINE r == reader[s]
           u == [r EXCEPT !.lossReported = TRUE]
           w == [u EXCEPT !.size = 0]
           v == [w EXCEPT !.pc = "idle"]
<1>1. r \in Reader /\ r.pc = "head" /\ ~Empty(r.current)
  BY FrontSlot
<1>2. reader' = [reader EXCEPT ![s] = v]
  BY DEF ReaderInv, TypeOK
<1>3. u = [r EXCEPT !.lossReported = TRUE] /\ w = [u EXCEPT !.size = 0] /\ v = [w EXCEPT !.pc = "idle"]
  OBVIOUS
<1>4. /\ r.current.to <= Len(array)
      /\ r.pc \in Reading /\ r.closed => complete[s] /\ reassembled[s] = <<>>
  BY DEF ReaderInv, RangesExist, EndIsLast
<1>5. /\ reassembled' = reassembled
      /\ got' = [got EXCEPT ![s] = @ + 1] /\ got \in [Streams -> Nat]
  BY DEF ReaderInv, TypeOK
<1>6. UNCHANGED <<array, held, complete, sending, sent, spoilt, crashed, batches>>
  OBVIOUS
<1> HIDE DEF r, u, v, w, DataLost, Runs
<1>7. /\ u \in Reader /\ u.lossReported = TRUE /\ u.current = r.current /\ u.closed = r.closed
  BY <1>1, <1>3 DEF Reader
<1>8. /\ w \in Reader /\ w.lossReported = TRUE /\ w.current = r.current /\ w.closed = r.closed
  BY <1>3, <1>7 DEF Reader
<1>9. /\ v \in Reader /\ v.lossReported = TRUE /\ v.current = r.current /\ v.closed = r.closed
      /\ v.pc = "idle"
  BY <1>3, <1>8 DEF Reader, Labels
<1>10. got' \in [Streams -> Nat]
  BY <1>5
<1>11. v.closed => complete[s] /\ reassembled[s] = <<>>
  BY <1>1, <1>4, <1>9 DEF Reading
<1>12. ReaderInv'
  BY <1>1, <1>2, <1>4, <1>5, <1>6, <1>9, <1>10, <1>11, ReaderStep, ChannelsAlone
<1> QED BY <1>2, <1>9, <1>12 DEF r

LEMMA CopyReader ==
  ASSUME ReaderInv, NEW s \in Streams, Copy(s)
  PROVE  /\ ReaderInv'
         /\ \E v \in Reader : /\ reader' = [reader EXCEPT ![s] = v] /\ v.pc = "advance"
                              /\ v.current = reader[s].current
                              /\ v.lossReported = reader[s].lossReported
                              /\ v.closed = reader[s].closed
                              /\ v.length <= Front(s).len
                              /\ got'[s] = Front(s).at + v.length
         /\ \A t \in Streams \ {s} : got'[t] = got[t]
<1> USE DEF Copy, Runs
<1> DEFINE r == reader[s]
           n == Least(r.size, Front(s).len)
           u == [r EXCEPT !.pc = "advance"]
           v == [u EXCEPT !.length = n]
<1>1. /\ r \in Reader /\ r.pc = "head" /\ ~Empty(r.current)
      /\ Front(s).at \in Nat /\ Front(s).len \in Nat /\ r.size \in Nat
  BY FrontSlot, ReaderFields
<1>2. n \in Nat /\ n <= Front(s).len
  BY <1>1 DEF Least
<1>3. reader' = [reader EXCEPT ![s] = v]
  BY DEF ReaderInv, TypeOK
<1>4. u = [r EXCEPT !.pc = "advance"] /\ v = [u EXCEPT !.length = n]
  OBVIOUS
<1>5. /\ r.current.to <= Len(array)
      /\ r.pc \in Reading /\ r.closed => complete[s] /\ reassembled[s] = <<>>
  BY DEF ReaderInv, RangesExist, EndIsLast
<1>6. /\ reassembled' = reassembled
      /\ got' = [got EXCEPT ![s] = Front(s).at + n] /\ got \in [Streams -> Nat]
  BY DEF ReaderInv, TypeOK
<1>7. UNCHANGED <<array, held, complete, sending, sent, spoilt, crashed, batches>>
  OBVIOUS
<1> HIDE DEF r, n, u, v, Copy, Runs
<1>8. /\ u \in Reader /\ u.pc = "advance" /\ u.current = r.current /\ u.closed = r.closed
      /\ u.lossReported = r.lossReported
  BY <1>1, <1>4 DEF Reader, Labels
<1>9. /\ v \in Reader /\ v.pc = "advance" /\ v.current = r.current /\ v.closed = r.closed
      /\ v.lossReported = r.lossReported /\ v.length = n
  BY <1>2, <1>4, <1>8 DEF Reader
<1>10. /\ got' \in [Streams -> Nat] /\ got'[s] = Front(s).at + n
       /\ \A t \in Streams \ {s} : got'[t] = got[t]
  BY <1>1, <1>2, <1>6
<1>11. v.closed => complete[s] /\ reassembled[s] = <<>>
  BY <1>1, <1>5, <1>9 DEF Reading
<1>12. ReaderInv'
  BY <1>1, <1>3, <1>5, <1>6, <1>7, <1>9, <1>10, <1>11, ReaderStep, ChannelsAlone
<1> QED BY <1>2, <1>3, <1>9, <1>10, <1>12 DEF r

LEMMA LeaveReader ==
  ASSUME ReaderInv, NEW s \in Streams, Leave(s) \/ CloseReturns(s)
  PROVE  /\ ReaderInv'
         /\ \E v \in Reader : reader' = [reader EXCEPT ![s] = v] /\ v.pc = "left"
<1> DEFINE r == reader[s]
           v == [r EXCEPT !.pc = "left"]
<1>1. r \in Reader
  BY DEF ReaderInv, TypeOK
<1>2. reader' = [reader EXCEPT ![s] = v]
  BY DEF Leave, CloseReturns
<1>3. v = [r EXCEPT !.pc = "left"]
  OBVIOUS
<1>4. r.current.to <= Len(array)
  BY DEF ReaderInv, RangesExist
<1>5. reassembled' = reassembled /\ got' = got /\ got \in [Streams -> Nat]
  BY DEF Leave, CloseReturns, ReaderInv, TypeOK
<1>6. UNCHANGED <<array, held, complete, sending, sent, spoilt, crashed, batches>>
  BY DEF Leave, CloseReturns
<1> HIDE DEF r, v
<1>7. v \in Reader /\ v.pc = "left" /\ v.current = r.current
  BY <1>1, <1>3 DEF Reader, Labels
<1>8. v.pc \notin Reading
  BY <1>7 DEF Reading
<1>9. ReaderInv'
  BY <1>2, <1>4, <1>5, <1>6, <1>7, <1>8, ReaderStep, ChannelsAlone
<1> QED BY <1>2, <1>7, <1>9

LEMMA CloseReader ==
  ASSUME ReaderInv, NEW s \in Streams, Close(s)
  PROVE  /\ ReaderInv'
         /\ \E v \in Reader : reader' = [reader EXCEPT ![s] = v] /\ v.pc = "closing"
<1> USE DEF Close, Runs
<1> DEFINE r == reader[s]
           u == [r EXCEPT !.current = NoSlots]
           w == [u EXCEPT !.closed = TRUE]
           v == [w EXCEPT !.pc = "closing"]
<1>1. r \in Reader
  BY DEF ReaderInv, TypeOK
<1>2. reader' = [reader EXCEPT ![s] = v]
  BY DEF ReaderInv, TypeOK
<1>3. u = [r EXCEPT !.current = NoSlots] /\ w = [u EXCEPT !.closed = TRUE] /\ v = [w EXCEPT !.pc = "closing"]
  OBVIOUS
<1>4. NoSlots \in Slice /\ NoSlots.to = 0
  BY DEF NoSlots, Slice
<1>5. reassembled' = reassembled /\ got' = got /\ got \in [Streams -> Nat] /\ Len(array) \in Nat
  BY DEF ReaderInv, TypeOK
<1>6. UNCHANGED <<array, held, complete, sending, sent, spoilt, crashed, batches>>
  OBVIOUS
<1> HIDE DEF r, u, v, w, Close, Runs
<1>7. u \in Reader /\ u.current = NoSlots
  BY <1>1, <1>3, <1>4 DEF Reader
<1>8. w \in Reader /\ w.current = NoSlots
  BY <1>3, <1>7 DEF Reader
<1>9. v \in Reader /\ v.current = NoSlots /\ v.pc = "closing"
  BY <1>3, <1>8 DEF Reader, Labels
<1>10. v.pc \notin Reading /\ v.current.to <= Len(array)
  BY <1>4, <1>5, <1>9 DEF Reading
<1>11. ReaderInv'
  BY <1>2, <1>5, <1>6, <1>9, <1>10, ReaderStep, ChannelsAlone
<1> QED BY <1>2, <1>9, <1>11

LEMMA CloseReceiveReader ==
  ASSUME ReaderInv, NEW s \in Streams, CloseReceive(s)
  PROVE  /\ ReaderInv'
         /\ \E v \in Reader : reader' = [reader EXCEPT ![s] = v] /\ v.pc = "done"
<1> USE DEF CloseReceive, Runs
<1> DEFINE r == reader[s]
           v == [r EXCEPT !.pc = "done"]
<1>1. r \in Reader
  BY DEF ReaderInv, TypeOK
<1>2. /\ reassembled[s] # <<>> /\ reassembled' = [reassembled EXCEPT ![s] = Tail(@)]
      /\ got' = got /\ got \in [Streams -> Nat]
  BY DEF ReaderInv, TypeOK
<1>3. /\ reassembled' \in [Streams -> Seq(Slice)]
      /\ \A t \in Streams : /\ Waiting(t)' \subseteq Waiting(t)
                            /\ Len(reassembled'[t]) <= Capacity
                            /\ reassembled[t] = <<>> => reassembled'[t] = <<>>
  BY <1>2, HeadTaken
<1>4. reader' = [reader EXCEPT ![s] = v] /\ v = [r EXCEPT !.pc = "done"]
  OBVIOUS
<1>5. r.current.to <= Len(array)
  BY DEF ReaderInv, RangesExist
<1>6. UNCHANGED <<array, held, complete, sending, sent, spoilt, crashed, batches>>
  OBVIOUS
<1> HIDE DEF r, v, CloseReceive, Runs
<1>7. v \in Reader /\ v.pc = "done" /\ v.current = r.current
  BY <1>1, <1>4 DEF Reader, Labels
<1>8. v.pc \notin Reading
  BY <1>7 DEF Reading
<1>9. ReaderInv'
  BY <1>2, <1>3, <1>4, <1>5, <1>6, <1>7, <1>8, ReaderStep
<1> QED BY <1>4, <1>7, <1>9

LEMMA AssembleReader ==
  ASSUME ReaderInv, NEW s \in Streams, NEW b \in Batches, Assemble(s, b)
  PROVE  ReaderInv'
<1> USE DEF Assemble
<1>1. /\ array \in Seq(Slot) /\ sent \in [Streams -> Nat] /\ Len(array) \in Nat
      /\ batches \in 0 .. MaxBatches /\ MaxBatches \in Nat /\ sending = Idle
  BY StreamReaderAssumption DEF ReaderInv, TypeOK
<1>2. /\ Len(b) \in Nat \ {0} /\ Extent(b) \in Nat
  BY BatchFields
<1>3. /\ array' \in Seq(Slot)
      /\ Len(array') \in Nat /\ Len(array') >= Len(array) /\ Len(array') >= Len(b)
  BY <1>1, ArrayWritten
<1>4. TypeOK'
  <2>1. sent' \in [Streams -> Nat]
    BY <1>1, <1>2
  <2> DEFINE r == [from |-> 1, to |-> Len(b)]
  <2>2. r \in Slice
    BY <1>2 DEF Slice
  <2>3. sending' = [to |-> s, batch |-> r]
    OBVIOUS
  <2> HIDE DEF r
  <2>4. sending' \in [to : Streams \cup {"nobody"}, batch : Slice]
    BY <2>2, <2>3
  <2>5. spoilt' \in [Streams -> BOOLEAN]
    <3>1. \A t \in Streams : (spoilt[t] \/ ToRead(t) \cap 1 .. Len(b) # {}) \in BOOLEAN
      OBVIOUS
    <3> QED BY <3>1
  <2>6. batches' \in 0 .. MaxBatches
    BY <1>1
  <2>7. /\ reader' = reader /\ reassembled' = reassembled /\ complete' = complete
        /\ got' = got /\ crashed' = crashed
    OBVIOUS
  <2>8. held' \in [Pages -> Streams \cup {"nobody"}]
    BY DEF ReaderInv, TypeOK
  <2> HIDE DEF Assemble
  <2> QED BY <1>3, <2>1, <2>4, <2>5, <2>6, <2>7, <2>8 DEF ReaderInv, TypeOK
<1>5. RangesExist'
  <2>1. sending'.batch.from = 1 /\ sending'.batch.to \in 1 .. Len(array')
    BY <1>2, <1>3
  <2>2. /\ reader' = reader /\ reassembled' = reassembled
        /\ \A t \in Streams : Waiting(t)' = Waiting(t)
    BY DEF Waiting
  <2>3. \A t \in Streams : /\ \A r \in Waiting(t) : r.from = 1 /\ r.to \in 1 .. Len(array)
                           /\ reader[t].current.to <= Len(array)
    BY DEF ReaderInv, RangesExist
  <2>4. \A t \in Streams : reader[t].current.to \in Nat
    BY ReaderFields DEF ReaderInv, TypeOK
  <2> HIDE DEF Assemble
  <2>5. \A t \in Streams : reader[t].current.to <= Len(array')
    BY <1>1, <1>3, <2>3, <2>4
  <2>6. \A t \in Streams : \A r \in Waiting(t) : r.from = 1 /\ r.to \in 1 .. Len(array')
    BY <1>1, <1>3, <2>3
  <2> QED BY <2>1, <2>2, <2>5, <2>6 DEF RangesExist
<1>6. LabelsMatch'
  BY DEF ReaderInv, LabelsMatch
<1>7. EndIsLast'
  <2>1. reader' = reader /\ complete' = complete /\ reassembled' = reassembled
        /\ sending'.to = s /\ ~complete[s]
    OBVIOUS
  <2> HIDE DEF Assemble
  <2> QED BY <2>1 DEF ReaderInv, EndIsLast
<1> QED BY <1>4, <1>5, <1>6, <1>7 DEF ReaderInv

LEMMA ReassembledReader ==
  ASSUME ReaderInv, NEW s \in Streams, Reassembled(s)
  PROVE  /\ ReaderInv'
         /\ reassembled'[s] = Append(reassembled[s], sending.batch)
         /\ \A t \in Streams \ {s} : reassembled'[t] = reassembled[t]
         /\ Waiting(s)' = Waiting(s) \cup {sending.batch}
<1> USE DEF Reassembled
<1> DEFINE c == reassembled[s]
           q == sending.batch
           d == Append(c, q)
<1>1. /\ c \in Seq(Slice) /\ q \in Slice /\ Len(c) \in Nat /\ Capacity \in Nat
      /\ reassembled \in [Streams -> Seq(Slice)]
  BY StreamReaderAssumption DEF ReaderInv, TypeOK
<1>2. /\ d \in Seq(Slice) /\ Len(d) = Len(c) + 1
      /\ \A i \in 1 .. Len(c) : d[i] = c[i]
      /\ d[Len(c) + 1] = q
  BY <1>1
<1>3. s # "nobody" /\ sending.to = s
  BY StreamReaderAssumption
<1>4. reassembled' = [reassembled EXCEPT ![s] = d]
  OBVIOUS
<1> HIDE DEF c, q, d
<1>5. \A t \in Streams : reassembled'[t] = IF t = s THEN d ELSE reassembled[t]
  BY <1>1, <1>4
<1>6. Waiting(s)' = Waiting(s) \cup {q}
  <2>1. DOMAIN d = 1 .. Len(c) + 1 /\ DOMAIN c = 1 .. Len(c)
    BY <1>1, <1>2
  <2>2. Waiting(s)' = {d[i] : i \in 1 .. Len(c) + 1}
    BY <1>5, <2>1 DEF Waiting
  <2>3. Waiting(s) = {c[i] : i \in 1 .. Len(c)}
    BY <2>1 DEF Waiting, c
  <2>4. 1 .. Len(c) + 1 = (1 .. Len(c)) \cup {Len(c) + 1}
    BY <1>1
  <2> QED BY <1>2, <2>2, <2>3, <2>4
<1>7. TypeOK'
  <2>1. reassembled' \in [Streams -> Seq(Slice)]
    BY <1>1, <1>2, <1>4
  <2>2. \A t \in Streams : Len(reassembled'[t]) <= Capacity
    <3>1. Len(c) < Capacity
      BY DEF c
    <3>2. \A t \in Streams : Len(reassembled[t]) <= Capacity
      BY DEF ReaderInv, TypeOK
    <3> QED BY <1>1, <1>2, <1>5, <3>1, <3>2
  <2>3. sending' \in [to : Streams \cup {"nobody"}, batch : Slice]
    BY DEF Idle, NoSlots, Slice
  <2> QED BY <2>1, <2>2, <2>3 DEF ReaderInv, TypeOK
<1>8. RangesExist'
  <2>1. q.from = 1 /\ q.to \in 1 .. Len(array)
    BY <1>3 DEF ReaderInv, RangesExist, q
  <2>2. \A t \in Streams \ {s} : Waiting(t)' = Waiting(t)
    BY <1>5 DEF Waiting
  <2>3. sending'.to = "nobody" /\ array' = array /\ reader' = reader
    BY DEF Idle
  <2>4. \A t \in Streams : /\ \A r \in Waiting(t) : r.from = 1 /\ r.to \in 1 .. Len(array)
                           /\ reader[t].current.to <= Len(array)
    BY DEF ReaderInv, RangesExist
  <2> HIDE DEF Reassembled
  <2>5. \A t \in Streams : \A r \in Waiting(t)' : r.from = 1 /\ r.to \in 1 .. Len(array)
    <3> SUFFICES ASSUME NEW t \in Streams, NEW r \in Waiting(t)'
        PROVE r.from = 1 /\ r.to \in 1 .. Len(array)
      OBVIOUS
    <3>1. CASE t = s
      BY <1>6, <2>1, <2>4, <3>1
    <3>2. CASE t # s
      BY <2>2, <2>4, <3>2
    <3> QED BY <3>1, <3>2
  <2> QED BY <2>3, <2>4, <2>5 DEF RangesExist
<1>9. LabelsMatch'
  BY DEF ReaderInv, LabelsMatch
<1>10. EndIsLast'
  <2>1. reader' = reader /\ complete' = complete /\ sending'.to = "nobody"
    BY DEF Idle
  <2>2. ~complete[s]
    BY <1>3 DEF ReaderInv, EndIsLast
  <2> HIDE DEF Reassembled
  <2> QED BY <1>5, <2>1, <2>2, StreamReaderAssumption DEF ReaderInv, EndIsLast
<1> QED BY <1>5, <1>6, <1>7, <1>8, <1>9, <1>10 DEF ReaderInv, c, q, d

LEMMA ReassemblyCompleteReader ==
  ASSUME ReaderInv, NEW s \in Streams, ReassemblyComplete(s)
  PROVE  ReaderInv'
<1> USE DEF ReassemblyComplete
<1>1. TypeOK'
  <2>1. (reader[s].pc = "done") \in BOOLEAN
    OBVIOUS
  <2>2. held' \in [Pages -> Streams \cup {"nobody"}]
    BY DEF ReaderInv, TypeOK
  <2> QED BY <2>1, <2>2 DEF ReaderInv, TypeOK
<1>2. RangesExist'
  BY DEF ReaderInv, RangesExist, Waiting
<1>3. LabelsMatch'
  BY DEF ReaderInv, LabelsMatch
<1>4. EndIsLast'
  <2>1. /\ reader' = reader /\ reassembled' = reassembled
        /\ sending' = sending /\ sending.to = "nobody"
    BY DEF Idle
  <2>2. \A t \in Streams : complete[t] => complete'[t]
    BY DEF ReaderInv, TypeOK
  <2> HIDE DEF ReassemblyComplete
  <2> QED BY <2>1, <2>2, StreamReaderAssumption DEF ReaderInv, EndIsLast
<1> QED BY <1>1, <1>2, <1>3, <1>4 DEF ReaderInv

\* The slots when a page is filled again.
LEMMA PageFilled ==
  ASSUME array \in Seq(Slot), NEW q,
         array' = [i \in DOMAIN array |-> [array[i] EXCEPT !.whole = @ /\ array[i].page # q]]
  PROVE  /\ array' \in Seq(Slot) /\ Len(array') = Len(array)
         /\ \A i \in 1 .. Len(array) : array[i].page # q => array'[i] = array[i]
<1>1. Len(array) \in Nat /\ DOMAIN array = 1 .. Len(array)
  OBVIOUS
<1>2. ASSUME NEW c \in Slot
      PROVE  /\ [c EXCEPT !.whole = @ /\ c.page # q] \in Slot
             /\ c.page # q => [c EXCEPT !.whole = @ /\ c.page # q] = c
  <2> DEFINE w == c.whole /\ c.page # q
  <2>1. c.whole \in BOOLEAN /\ w \in BOOLEAN
    BY DEF Slot
  <2>2. [c EXCEPT !.whole = @ /\ c.page # q] = [c EXCEPT !.whole = w]
    OBVIOUS
  <2>3. c.page # q => w = c.whole
    BY <2>1
  <2> HIDE DEF w
  <2>4. [c EXCEPT !.whole = w] \in Slot
    BY <2>1 DEF Slot
  <2>5. [c EXCEPT !.whole = c.whole] = c
    BY DEF Slot
  <2> QED BY <2>2, <2>3, <2>4, <2>5
<1>3. \A i \in 1 .. Len(array) : array[i] \in Slot
  OBVIOUS
<1> DEFINE d(i) == [array[i] EXCEPT !.whole = @ /\ array[i].page # q]
<1>4. \A i \in 1 .. Len(array) : /\ d(i) \in Slot
                                 /\ array[i].page # q => d(i) = array[i]
  BY <1>2, <1>3
<1>5. array' = [i \in 1 .. Len(array) |-> d(i)]
  BY <1>1
<1> HIDE DEF d
<1>6. array' \in [1 .. Len(array) -> Slot]
  BY <1>4, <1>5
<1>7. array' \in Seq(Slot) /\ Len(array') = Len(array)
  BY <1>1, <1>6, SeqDef, LenProperties
<1> QED BY <1>4, <1>5, <1>7

LEMMA BufferReader ==
  ASSUME ReaderInv, NEW s \in Streams, NEW q \in Pages, Buffer(s, q)
  PROVE  ReaderInv'
<1>1. /\ UNCHANGED <<reader, reassembled, complete, sending, sent, got, crashed, batches>>
      /\ held' = [held EXCEPT ![q] = s]
      /\ spoilt' = [t \in Streams |-> spoilt[t] \/ \E i \in ToRead(t) : array[i].page = q]
  BY DEF Buffer
<1>2. array' \in Seq(Slot) /\ Len(array') = Len(array)
  BY PageFilled DEF Buffer, ReaderInv, TypeOK
<1>3. held' \in [Pages -> Streams \cup {"nobody"}]
  BY <1>1 DEF ReaderInv, TypeOK
<1>4. spoilt' \in [Streams -> BOOLEAN]
  <2>1. \A t \in Streams : (spoilt[t] \/ \E i \in ToRead(t) : array[i].page = q) \in BOOLEAN
    OBVIOUS
  <2> QED BY <1>1, <2>1
<1>5. TypeOK'
  BY <1>1, <1>2, <1>3, <1>4 DEF ReaderInv, TypeOK
<1>6. RangesExist'
  <2>1. \A t \in Streams : Waiting(t)' = Waiting(t)
    BY <1>1 DEF Waiting
  <2> QED BY <1>1, <1>2, <2>1 DEF ReaderInv, RangesExist
<1>7. LabelsMatch' /\ EndIsLast'
  BY <1>1 DEF ReaderInv, LabelsMatch, EndIsLast
<1> QED BY <1>5, <1>6, <1>7 DEF ReaderInv

LEMMA CrashReader ==
  ASSUME ReaderInv, Crash
  PROVE  ReaderInv'
BY DEF Crash, ReaderInv, TypeOK, RangesExist, LabelsMatch, EndIsLast, Waiting

\* The cut of the chunk at the front.
LEMMA AdvanceCuts ==
  ASSUME ReaderInv, NEW s \in Streams, Advance(s)
  PROVE  LET f == reader[s].current.from
             n == reader[s].length
         IN  /\ array' \in Seq(Slot) /\ Len(array') = Len(array)
             /\ \A i \in 1 .. Len(array) : i # f => array'[i] = array[i]
             /\ f \in 1 .. Len(array) /\ n \in Nat
             /\ array'[f].of = array[f].of /\ array'[f].skip = array[f].skip
             /\ array'[f].whole = array[f].whole
             /\ array'[f].at = array[f].at + n /\ array'[f].len = array[f].len - n
<1> DEFINE f == reader[s].current.from
           n == reader[s].length
           c == array[f]
           d == [c EXCEPT !.at = @ + n]
           e == [d EXCEPT !.len = @ - n]
<1>1. /\ reader[s].pc = "advance" /\ n <= Front(s).len
      /\ array' = [array EXCEPT ![f].at = @ + n, ![f].len = @ - n]
  BY DEF Advance, Runs
<1>2. /\ f \in 1 .. Len(array) /\ c \in Slot /\ c.at \in Nat /\ c.len \in Nat
      /\ reader[s] \in Reader /\ Front(s) = c
  BY <1>1, FrontSlot DEF Front
<1>3. n \in Nat /\ n <= c.len /\ array \in Seq(Slot)
  BY <1>1, <1>2, ReaderFields DEF ReaderInv, TypeOK
<1>4. c.at + n \in Nat /\ c.len - n \in Nat
  BY <1>2, <1>3
<1>5. /\ d \in Slot /\ d.of = c.of /\ d.at = c.at + n /\ d.len = c.len /\ d.skip = c.skip
      /\ d.whole = c.whole
  BY <1>2, <1>4 DEF Slot
<1>6. array' = [array EXCEPT ![f] = e]
  BY <1>1, <1>2, <1>3
<1>7. e = [d EXCEPT !.len = c.len - n]
  BY <1>5
<1> HIDE DEF d, e, c
<1>8. /\ e \in Slot /\ e.of = c.of /\ e.at = c.at + n /\ e.len = c.len - n /\ e.skip = c.skip
      /\ e.whole = c.whole
  BY <1>4, <1>5, <1>7 DEF Slot
<1> HIDE DEF f, n
<1>9. /\ array' \in Seq(Slot) /\ Len(array') = Len(array)
      /\ \A i \in 1 .. Len(array) : array'[i] = IF i = f THEN e ELSE array[i]
  BY <1>2, <1>3, <1>6, <1>8, ExceptSeq
<1> QED BY <1>2, <1>3, <1>8, <1>9 DEF f, n, c

LEMMA AdvanceReader ==
  ASSUME ReaderInv, NEW s \in Streams, Advance(s)
  PROVE  /\ ReaderInv'
         /\ \E v \in Reader : /\ reader' = [reader EXCEPT ![s] = v] /\ v.pc = "idle"
                              /\ v.current = reader[s].current
                              /\ v.lossReported = reader[s].lossReported
                              /\ v.closed = reader[s].closed
<1> DEFINE r == reader[s]
           u == [r EXCEPT !.size = 0]
           w == [u EXCEPT !.length = 0]
           v == [w EXCEPT !.pc = "idle"]
<1>1. /\ r \in Reader /\ r.pc = "advance" /\ ~Empty(r.current) /\ Front(s).of \in Streams
  BY FrontSlot DEF Advance, Runs
<1>2. reader' = [reader EXCEPT ![s] = v] /\ reader \in [Streams -> Reader]
  BY DEF ReaderInv, TypeOK, Advance, Runs
<1>3. u = [r EXCEPT !.size = 0] /\ w = [u EXCEPT !.length = 0] /\ v = [w EXCEPT !.pc = "idle"]
  OBVIOUS
<1> HIDE DEF r, u, v, w
<1>4. u \in Reader /\ u.lossReported = r.lossReported /\ u.current = r.current /\ u.closed = r.closed
  BY <1>1, <1>3 DEF Reader
<1>5. w \in Reader /\ w.lossReported = r.lossReported /\ w.current = r.current /\ w.closed = r.closed
  BY <1>3, <1>4 DEF Reader
<1>6. /\ v \in Reader /\ v.lossReported = r.lossReported /\ v.current = r.current
      /\ v.closed = r.closed /\ v.pc = "idle"
  BY <1>3, <1>5 DEF Reader, Labels
<1>7. \A t \in Streams : reader'[t] = IF t = s THEN v ELSE reader[t]
  BY <1>2
<1>8. array' \in Seq(Slot) /\ Len(array') = Len(array)
  BY AdvanceCuts
<1>9. /\ reassembled' = reassembled /\ complete' = complete /\ sending' = sending
      /\ sent' = sent /\ got' = got /\ crashed' = crashed /\ batches' = batches
      /\ held' = held
      /\ spoilt' = [spoilt EXCEPT ![Front(s).of] = @ \/ Front(s).of # s]
  BY DEF Advance
<1>10. TypeOK'
  <2>1. spoilt' \in [Streams -> BOOLEAN]
    <3>1. spoilt \in [Streams -> BOOLEAN]
      BY DEF ReaderInv, TypeOK
    <3>2. (spoilt[Front(s).of] \/ Front(s).of # s) \in BOOLEAN
      BY <1>1, <3>1
    <3> QED BY <1>1, <1>9, <3>1, <3>2
  <2>2. reader' \in [Streams -> Reader]
    BY <1>2, <1>6
  <2> QED BY <1>8, <1>9, <2>1, <2>2 DEF ReaderInv, TypeOK
<1>11. RangesExist'
  <2>1. \A t \in Streams : Waiting(t)' = Waiting(t)
    BY <1>9 DEF Waiting
  <2>2. \A t \in Streams : reader'[t].current.to <= Len(array')
    BY <1>6, <1>7, <1>8 DEF ReaderInv, RangesExist, r
  <2> QED BY <1>8, <1>9, <2>1, <2>2 DEF ReaderInv, RangesExist
<1>12. LabelsMatch'
  <2> SUFFICES ASSUME NEW t \in Streams
      PROVE /\ reader'[t].pc \in {"head", "advance"} => ~Empty(reader'[t].current)
            /\ reader'[t].pc \in {"select", "eof"} => Empty(reader'[t].current)
            /\ reader'[t].pc \in Reading /\ Empty(reader'[t].current) => ~reader'[t].lossReported
    BY DEF LabelsMatch, Empty
  <2>1. CASE t = s
    BY <1>1, <1>6, <1>7, <2>1
  <2>2. CASE t # s
    BY <1>7, <2>2 DEF ReaderInv, LabelsMatch
  <2> QED BY <2>1, <2>2
<1>13. EndIsLast'
  <2> SUFFICES ASSUME NEW t \in Streams
      PROVE /\ complete[t] => sending.to # t
            /\ reader'[t].pc \in Reading /\ reader'[t].closed =>
                 complete[t] /\ reassembled[t] = <<>>
            /\ reader'[t].pc = "eof" => reader'[t].closed
    BY <1>9 DEF EndIsLast
  <2>0. /\ complete[t] => sending.to # t
        /\ reader[t].pc \in Reading /\ reader[t].closed =>
             complete[t] /\ reassembled[t] = <<>>
        /\ reader[t].pc = "eof" => reader[t].closed
    BY DEF ReaderInv, EndIsLast
  <2>1. CASE t = s
    BY <1>1, <1>6, <1>7, <2>0, <2>1 DEF r, Reading
  <2>2. CASE t # s
    BY <1>7, <2>0, <2>2
  <2> QED BY <2>1, <2>2
<1>14. ReaderInv'
  BY <1>10, <1>11, <1>12, <1>13 DEF ReaderInv
<1> QED BY <1>2, <1>6, <1>14 DEF r

LEMMA ReaderInit ==
  Init => ReaderInv
<1> SUFFICES ASSUME Init PROVE ReaderInv
  OBVIOUS
<1> USE DEF Init
<1>1. NoSlots \in Slice /\ NoSlots.to = 0 /\ NoSlots.from = 1
  BY DEF NoSlots, Slice
<1>2. NoReader \in Reader
  BY <1>1 DEF NoReader, Reader, Labels
<1>3. array \in Seq(Slot) /\ Len(array) = 0
  OBVIOUS
<1>4. \A s \in Streams : /\ reader[s] = NoReader /\ reassembled[s] = <<>>
                         /\ complete[s] = FALSE /\ Waiting(s) = {}
  BY DEF Waiting
<1>5. TypeOK
  <2>1. reader \in [Streams -> Reader]
    BY <1>2
  <2>2. reassembled \in [Streams -> Seq(Slice)] /\ \A s \in Streams : Len(reassembled[s]) <= Capacity
    BY StreamReaderAssumption
  <2>3. sending \in [to : Streams \cup {"nobody"}, batch : Slice]
    BY <1>1 DEF Idle
  <2>4. batches \in 0 .. MaxBatches
    BY StreamReaderAssumption
  <2>5. /\ complete \in [Streams -> BOOLEAN] /\ sent \in [Streams -> Nat]
        /\ got \in [Streams -> Nat] /\ spoilt \in [Streams -> BOOLEAN] /\ crashed \in BOOLEAN
    OBVIOUS
  <2>6. held \in [Pages -> Streams \cup {"nobody"}]
    OBVIOUS
  <2> QED BY <1>3, <2>1, <2>2, <2>3, <2>4, <2>5, <2>6 DEF TypeOK
<1>6. RangesExist
  BY <1>1, <1>3, <1>4 DEF RangesExist, Idle, NoReader
<1>7. LabelsMatch
  BY <1>4 DEF LabelsMatch, NoReader
<1>8. EndIsLast
  BY <1>4 DEF EndIsLast, NoReader
<1> QED BY <1>5, <1>6, <1>7, <1>8 DEF ReaderInv

LEMMA ReaderNext ==
  ReaderInv /\ [Next]_vars => ReaderInv'
<1> SUFFICES ASSUME ReaderInv, [Next]_vars PROVE ReaderInv'
  OBVIOUS
<1>1. CASE UNCHANGED vars
  BY <1>1 DEF vars, ReaderInv, TypeOK, RangesExist, LabelsMatch, EndIsLast, Waiting
<1>2. ASSUME NEW s \in Streams, NEW b \in Batches, Assemble(s, b) PROVE ReaderInv'
  BY <1>2, AssembleReader
<1>3. ASSUME NEW s \in Streams, Read(s) PROVE ReaderInv'
  BY <1>3, BeginReadReader DEF Read
<1>4. ASSUME NEW s \in Streams, Step(s) PROVE ReaderInv'
  BY <1>4, ReceiveReader, ReceiveClosedReader, DataLostReader, CopyReader,
     AdvanceReader, CloseReceiveReader, LeaveReader, CrashReader
     DEF Step, AdvancePanics, ClosePanics
<1>5. ASSUME NEW s \in Streams, New(s) \/ Reassembled(s) \/ ReassemblyComplete(s)
      PROVE ReaderInv'
  BY <1>5, NewReader, ReassembledReader, ReassemblyCompleteReader
<1>6. ASSUME NEW s \in Streams, Leave(s) \/ Close(s) PROVE ReaderInv'
  BY <1>6, LeaveReader, CloseReader
<1>7. ASSUME NEW s \in Streams, NEW q \in Pages, Buffer(s, q) PROVE ReaderInv'
  BY <1>7, BufferReader
<1> QED BY <1>1, <1>2, <1>3, <1>4, <1>5, <1>6, <1>7 DEF Next

\* Every variable has the type of what it stands for in the code, and the
\* channel of a reader holds no more batches than its capacity.
THEOREM ReaderTypeCorrect ==
  Spec => []TypeOK
<1>1. Spec => []ReaderInv
  BY ReaderInit, ReaderNext, PTL DEF Spec
<1>2. ReaderInv => TypeOK
  BY DEF ReaderInv
<1> QED BY <1>1, <1>2, PTL

-----------------------------------------------------------------------------
(* What is still to be read, action by action.                             *)

\* The ranges of a stream that are sent and not received lie in the array.
LEMMA ComingLies ==
  ASSUME ReaderInv, NEW t \in Streams, NEW r \in Coming(t)
  PROVE  Lies(array, r) /\ r.from = 1
<1>1. t # "nobody"
  BY StreamReaderAssumption
<1>2. r.from = 1 /\ r.to \in 1 .. Len(array)
  BY <1>1 DEF Coming, ReaderInv, RangesExist
<1>3. Len(array) \in Nat
  BY DEF ReaderInv, TypeOK
<1> QED BY <1>2, <1>3 DEF Lies

\* The slots of t that are on their way or at its consumer.
Used(t) == UNION {r.from .. r.to : r \in Coming(t) \cup {reader[t].current}}

\* A step that does not touch the chunks of t, its reader and its channel.
LEMMA KeptAlike ==
  ASSUME ReaderInv, NEW t \in Streams, Kept(t),
         reader'[t] = reader[t], reassembled'[t] = reassembled[t],
         got'[t] = got[t], sent'[t] = sent[t], spoilt[t] => spoilt'[t],
         Coming(t)' = Coming(t), sending'.to = t => sending.to = t,
         ~spoilt'[t] =>
           \A i \in 1 .. Len(array) :
             i \in Used(t) /\ array[i].of = t => array'[i] = array[i]
  PROVE  Kept(t)'
<1> SUFFICES ASSUME ~spoilt'[t], reader'[t].pc \in Reading
             PROVE  (OneComes(t) /\ ComingFollows(t) /\ CurrentFollows(t))'
  BY DEF Kept
<1> DEFINE c == reader[t].current
<1>1. OneComes(t) /\ ComingFollows(t) /\ CurrentFollows(t)
  BY DEF Kept
<1>2. OneComes(t)'
  BY <1>1 DEF OneComes
<1>3. /\ c.from \in Nat \ {0} /\ c.to \in Nat /\ c.to <= Len(array) /\ Len(array) \in Nat
      /\ reader[t] \in Reader
  BY ReaderFields DEF ReaderInv, TypeOK, RangesExist
<1>4. ASSUME ~Empty(c)
      PROVE  /\ Joined(array, t, c) /\ Joined(array', t, c)
             /\ End(array', c) = End(array, c) /\ array'[c.from] = array[c.from]
  <2>1. Joined(array, t, c)
    BY <1>1, <1>4 DEF CurrentFollows
  <2>2. \A i \in c.from .. c.to : i \in 1 .. Len(array) /\ array[i].of = t /\ i \in Used(t)
    BY <1>3, <2>1 DEF Joined, Used
  <2>3. \A i \in c.from .. c.to : array'[i] = array[i]
    BY <2>2
  <2>4. SameIn(array, array', c)
    BY <2>3 DEF SameIn
  <2> HIDE DEF c
  <2> QED BY <1>3, <1>4, <2>1, <2>4, SameSlots
<1>5. Received(t)' = Received(t)
  BY <1>4 DEF Received, Empty
<1>6. ComingFollows(t)'
  <2>1. ASSUME NEW r \in Coming(t)
        PROVE  /\ Joined(array', t, r) /\ Begins(array', r, Received(t))
               /\ End(array', r) = sent[t]
               /\ ~Empty(c) => r.to < c.from
    <3>1. /\ Joined(array, t, r) /\ Begins(array, r, Received(t))
          /\ End(array, r) = sent[t]
          /\ ~Empty(c) => r.to < c.from
      BY <1>1 DEF ComingFollows
    <3>2. r.from \in Nat /\ r.to \in Nat /\ ~Empty(r) /\ r.to <= Len(array) /\ r.from = 1
      BY <1>3, ComingLies DEF Lies, Empty
    <3>3. \A i \in r.from .. r.to : i \in 1 .. Len(array) /\ array[i].of = t /\ i \in Used(t)
      BY <1>3, <3>1, <3>2 DEF Joined, Used
    <3>4. \A i \in r.from .. r.to : array'[i] = array[i]
      BY <3>3
    <3>5. SameIn(array, array', r)
      BY <3>4 DEF SameIn
    <3> HIDE DEF c
    <3> QED BY <3>1, <3>2, <3>5, SameSlots
  <2>2. Coming(t) = {} => Received(t) = sent[t]
    BY <1>1 DEF ComingFollows
  <2> QED BY <1>5, <2>1, <2>2 DEF ComingFollows, Empty
<1>7. CurrentFollows(t)'
  <2>1. ASSUME ~Empty(c) PROVE Front(t)' = Front(t) /\ Joined(array', t, c)
    BY <1>4, <2>1 DEF Front
  <2> QED BY <1>1, <2>1 DEF CurrentFollows, Empty
<1> QED BY <1>2, <1>6, <1>7

\* The batches of t that are coming, when its channel and the assembler are alone.
LEMMA ComingAlike ==
  ASSUME NEW t, reassembled'[t] = reassembled[t], sending' = sending
  PROVE  Coming(t)' = Coming(t)
BY DEF Coming, Waiting

\* A step of the goroutine of s leaves the other readers alone.
LEMMA KeptStep ==
  ASSUME ReaderInv, KeptInv, NEW s \in Streams, NEW v \in Reader,
         reader' = [reader EXCEPT ![s] = v],
         UNCHANGED <<array, sending, sent, spoilt>>,
         \A t \in Streams \ {s} : got'[t] = got[t] /\ reassembled'[t] = reassembled[t],
         Kept(s)'
  PROVE  KeptInv'
<1> SUFFICES ASSUME NEW t \in Streams \ {s} PROVE Kept(t)'
  BY DEF KeptInv
<1>1. reader'[t] = reader[t]
  BY DEF ReaderInv, TypeOK
<1>2. Kept(t)
  BY DEF KeptInv
<1>3. Coming(t)' = Coming(t)
  BY ComingAlike
<1> QED BY <1>1, <1>2, <1>3, KeptAlike

\* A consumer that has stopped is promised nothing.
LEMMA KeptStopped ==
  ASSUME ReaderInv, KeptInv, NEW s \in Streams, NEW v \in Reader,
         reader' = [reader EXCEPT ![s] = v], v.pc \notin Reading,
         UNCHANGED <<array, sending, sent, spoilt, got>>,
         \A t \in Streams \ {s} : reassembled'[t] = reassembled[t]
  PROVE  KeptInv'
<1>1. reader'[s] = v
  BY DEF ReaderInv, TypeOK
<1>2. Kept(s)'
  BY <1>1 DEF Kept
<1> QED BY <1>2, KeptStep

LEMMA LeaveKept ==
  ASSUME ReaderInv, KeptInv, NEW s \in Streams, Leave(s) \/ CloseReturns(s)
  PROVE  KeptInv'
<1>1. PICK v \in Reader : reader' = [reader EXCEPT ![s] = v] /\ v.pc = "left"
  BY LeaveReader
<1>2. UNCHANGED <<array, sending, sent, spoilt, got, reassembled>>
  BY DEF Leave, CloseReturns
<1>3. v.pc \notin Reading
  BY <1>1 DEF Reading
<1> QED BY <1>1, <1>2, <1>3, KeptStopped

LEMMA CloseKept ==
  ASSUME ReaderInv, KeptInv, NEW s \in Streams, Close(s)
  PROVE  KeptInv'
<1>1. PICK v \in Reader : reader' = [reader EXCEPT ![s] = v] /\ v.pc = "closing"
  BY CloseReader
<1>2. UNCHANGED <<array, sending, sent, spoilt, got, reassembled>>
  BY DEF Close
<1>3. v.pc \notin Reading
  BY <1>1 DEF Reading
<1> QED BY <1>1, <1>2, <1>3, KeptStopped

LEMMA CloseReceiveKept ==
  ASSUME ReaderInv, KeptInv, NEW s \in Streams, CloseReceive(s)
  PROVE  KeptInv'
<1>1. PICK v \in Reader : reader' = [reader EXCEPT ![s] = v] /\ v.pc = "done"
  BY CloseReceiveReader
<1>2. UNCHANGED <<array, sending, sent, spoilt, got>>
  BY DEF CloseReceive
<1>3. v.pc \notin Reading
  BY <1>1 DEF Reading
<1>4. \A t \in Streams \ {s} : reassembled'[t] = reassembled[t]
  BY DEF CloseReceive, ReaderInv, TypeOK
<1> QED BY <1>1, <1>2, <1>3, <1>4, KeptStopped

\* A step of the consumer of s that leaves it the same chunks, or receives none.
LEMMA KeptSameChunks ==
  ASSUME ReaderInv, KeptInv, NEW s \in Streams, NEW v \in Reader,
         reader' = [reader EXCEPT ![s] = v], v.current = reader[s].current,
         reader[s].pc \in Reading,
         UNCHANGED <<array, sending, sent, spoilt, reassembled>>,
         \A t \in Streams \ {s} : got'[t] = got[t],
         Empty(v.current) => got'[s] = got[s],
         ~spoilt[s] => CurrentFollows(s)'
  PROVE  KeptInv'
<1>1. reader'[s] = v /\ Front(s)' = Front(s)
  BY DEF ReaderInv, TypeOK, Front
<1>2. Kept(s)'
  <2> SUFFICES ASSUME ~spoilt[s] PROVE OneComes(s)' /\ ComingFollows(s)'
    BY DEF Kept
  <2>1. OneComes(s) /\ ComingFollows(s)
    BY DEF KeptInv, Kept
  <2>2. Coming(s)' = Coming(s)
    BY ComingAlike
  <2>3. Received(s)' = Received(s)
    BY <1>1 DEF Received, Empty
  <2>4. OneComes(s)'
    BY <2>1 DEF OneComes
  <2>5. ComingFollows(s)'
    BY <1>1, <2>1, <2>2, <2>3 DEF ComingFollows, Empty
  <2> QED BY <2>4, <2>5
<1> QED BY <1>2, KeptStep

LEMMA NewKept ==
  ASSUME ReaderInv, KeptInv, NEW s \in Streams, New(s)
  PROVE  KeptInv'
<1> DEFINE r == reader[s]
           v == [r EXCEPT !.pc = "idle"]
<1>1. r \in Reader /\ r.pc = "none" /\ r.pc \in Reading
  BY DEF New, Runs, ReaderInv, TypeOK, Reading
<1>2. /\ v \in Reader /\ v.pc = "idle" /\ v.current = r.current
      /\ v.lossReported = r.lossReported
  BY <1>1 DEF Reader, Labels
<1>3. /\ reader' = [reader EXCEPT ![s] = v]
      /\ UNCHANGED <<array, sending, sent, spoilt, got, reassembled>>
  BY DEF New
<1> HIDE DEF v
<1>4. reader'[s] = v
  BY <1>3 DEF ReaderInv, TypeOK
<1>5. ~spoilt[s] => CurrentFollows(s)
  BY <1>1 DEF KeptInv, Kept
<1>6. CurrentFollows(s) => CurrentFollows(s)'
  BY <1>1, <1>2, <1>3, <1>4 DEF CurrentFollows, Front, Empty
<1> QED BY <1>1, <1>2, <1>3, <1>5, <1>6, KeptSameChunks

LEMMA ReceiveClosedKept ==
  ASSUME ReaderInv, KeptInv, NEW s \in Streams, ReceiveClosed(s)
  PROVE  KeptInv'
<1> DEFINE r == reader[s]
           u == [r EXCEPT !.closed = TRUE]
           v == [u EXCEPT !.pc = "eof"]
<1>1. r \in Reader /\ r.pc = "select" /\ r.pc \in Reading /\ Empty(r.current)
  BY DEF ReceiveClosed, Runs, ReaderInv, TypeOK, LabelsMatch, Reading
<1>2. u \in Reader /\ u.current = r.current
  BY <1>1 DEF Reader
<1>3. /\ reader' = [reader EXCEPT ![s] = v]
      /\ UNCHANGED <<array, sending, sent, spoilt, got, reassembled>>
  BY DEF ReceiveClosed, ReaderInv, TypeOK
<1>4. v = [u EXCEPT !.pc = "eof"]
  OBVIOUS
<1> HIDE DEF u, v
<1>5. v \in Reader /\ v.current = r.current
  BY <1>2, <1>4 DEF Reader, Labels
<1>6. reader'[s] = v
  BY <1>3, <1>5 DEF ReaderInv, TypeOK
<1>7. CurrentFollows(s)'
  BY <1>1, <1>5, <1>6 DEF CurrentFollows, Empty
<1> QED BY <1>1, <1>3, <1>5, <1>7, KeptSameChunks

LEMMA DataLostKept ==
  ASSUME ReaderInv, KeptInv, NEW s \in Streams, DataLost(s)
  PROVE  KeptInv'
<1>1. PICK v \in Reader : /\ reader' = [reader EXCEPT ![s] = v] /\ v.pc = "idle"
                          /\ v.current = reader[s].current /\ v.lossReported = TRUE
  BY DataLostReader
<1>2. /\ UNCHANGED <<array, sending, sent, spoilt, reassembled>>
      /\ got' = [got EXCEPT ![s] = @ + 1] /\ got \in [Streams -> Nat]
      /\ LossErrors /\ ~reader[s].lossReported /\ Front(s).skip
      /\ reader[s].pc = "head" /\ reader[s].pc \in Reading
  BY DEF DataLost, Runs, ReportsLoss, ReaderInv, TypeOK, Reading
<1>3. ~Empty(reader[s].current) /\ Front(s).at \in Nat
  BY <1>2, FrontSlot
<1>4. reader'[s] = v /\ Front(s)' = Front(s)
  BY <1>1, <1>2 DEF ReaderInv, TypeOK, Front
<1>5. /\ got'[s] = got[s] + 1 /\ got[s] \in Nat
      /\ \A t \in Streams \ {s} : got'[t] = got[t]
  BY <1>2
<1>6. ASSUME ~spoilt[s] PROVE CurrentFollows(s)'
  <2>1. CurrentFollows(s)
    BY <1>2, <1>6 DEF KeptInv, Kept
  <2>2. Joined(array, s, reader[s].current) /\ AtFront(Front(s), got[s], reader[s].lossReported)
    BY <1>2, <1>3, <2>1 DEF CurrentFollows
  <2>3. Front(s).at = got[s] + 1
    BY <1>2, <2>2 DEF AtFront
  <2>4. AtFront(Front(s), got'[s], TRUE)
    BY <1>5, <2>3 DEF AtFront
  <2> QED BY <1>1, <1>2, <1>4, <2>2, <2>4 DEF CurrentFollows
<1> QED BY <1>1, <1>2, <1>3, <1>5, <1>6, KeptSameChunks

\* What a Read copies follows what the consumer was given.
LEMMA CopyFollows ==
  ASSUME ReaderInv, KeptInv, NEW s \in Streams, Copy(s), ~spoilt[s]
  PROVE  /\ Joined(array, s, reader[s].current)
         /\ Front(s).of = s /\ Front(s).whole
         /\ got[s] \in Nat /\ Front(s).at \in Nat
         /\ Front(s).at = got[s] \/ Front(s).at = got[s] + 1
         /\ LossErrors => Front(s).at = got[s]
         /\ LossErrors => reader[s].lossReported \/ ~Front(s).skip
<1>1. /\ reader[s].pc = "head" /\ reader[s].pc \in Reading
      /\ ~(LossErrors /\ ~reader[s].lossReported /\ Front(s).skip)
  BY DEF Copy, Runs, ReportsLoss, Reading
<1>2. /\ ~Empty(reader[s].current) /\ Front(s).at \in Nat
      /\ Lies(array, reader[s].current) /\ got[s] \in Nat
  BY <1>1, FrontSlot DEF ReaderInv, TypeOK
<1>3. Joined(array, s, reader[s].current) /\ AtFront(Front(s), got[s], reader[s].lossReported)
  BY <1>1, <1>2 DEF KeptInv, Kept, CurrentFollows
<1>4. Front(s).of = s /\ Front(s).whole
  <2>1. reader[s].current.from \in reader[s].current.from .. reader[s].current.to
    BY <1>2 DEF Lies
  <2> QED BY <1>3, <2>1 DEF Joined, Front
<1> QED BY <1>1, <1>2, <1>3, <1>4 DEF AtFront

LEMMA CopyKept ==
  ASSUME ReaderInv, KeptInv, NEW s \in Streams, Copy(s)
  PROVE  KeptInv'
<1>1. PICK v \in Reader : /\ reader' = [reader EXCEPT ![s] = v] /\ v.pc = "advance"
                          /\ v.current = reader[s].current
                          /\ v.lossReported = reader[s].lossReported
                          /\ v.length <= Front(s).len
                          /\ got'[s] = Front(s).at + v.length
  BY CopyReader
<1>2. \A t \in Streams \ {s} : got'[t] = got[t]
  BY CopyReader
<1>3. /\ UNCHANGED <<array, sending, sent, spoilt, reassembled>>
      /\ reader[s].pc = "head" /\ reader[s].pc \in Reading
  BY DEF Copy, Runs, Reading
<1>4. ~Empty(reader[s].current)
  BY <1>3, FrontSlot
<1>5. reader'[s] = v /\ Front(s)' = Front(s)
  BY <1>1, <1>3 DEF ReaderInv, TypeOK, Front
<1>6. ASSUME ~spoilt[s] PROVE CurrentFollows(s)'
  BY <1>1, <1>3, <1>5, <1>6, CopyFollows DEF CurrentFollows
<1> QED BY <1>1, <1>2, <1>3, <1>4, <1>6, KeptSameChunks

\* A Read that goes on with a range of slots that begins where the consumer is.
LEMMA LooksFollows ==
  ASSUME ReaderInv, NEW s \in Streams, NEW r \in Reader, NEW v, v = Looks(stripEmpty(r)),
         r.current.to <= Len(array),
         ~Empty(r.current) => /\ Joined(array, s, r.current)
                              /\ AtFront(array[r.current.from], got[s], r.lossReported)
  PROVE  /\ v.pc # "advance"
         /\ v.current.to = r.current.to
         /\ Empty(r.current) => Empty(v.current) /\ Passed(s, r) = got[s]
         /\ ~Empty(r.current) /\ ~Empty(v.current) => v.current.from >= r.current.from
         /\ ~Empty(r.current) /\ Empty(v.current) => Passed(s, r) = End(array, r.current)
         /\ ~Empty(v.current) => /\ Joined(array, s, v.current)
                                 /\ AtFront(array[v.current.from], Passed(s, r), v.lossReported)
<1> DEFINE w == stripEmpty(r)
<1>1. w = stripEmpty(r)
  OBVIOUS
<1> HIDE DEF w
<1>2. /\ w \in Reader /\ w.current.to = r.current.to
      /\ Empty(w.current) => w.current.from = r.current.to + 1
      /\ ~Empty(w.current) => w.current.from \in r.current.from .. r.current.to
  BY <1>1, Stripped
<1>3. v = Looks(w)
  BY <1>1
<1>4. /\ v.current = w.current /\ v.lossReported = w.lossReported
      /\ v.pc \in {"head", "eof", "select"}
  BY <1>2, <1>3, LooksFields
<1>5. ReaderArray
  BY DEF ReaderInv, TypeOK, ReaderArray
<1>6. r.current.from \in Nat \ {0} /\ r.current.to \in Nat
  BY ReaderFields
<1>7. CASE Empty(r.current)
  <2>1. Empty(w.current)
    BY <1>2, <1>6, <1>7 DEF Empty
  <2>2. w.current.from - 1 \notin r.current.from .. r.current.to
    BY <1>2, <1>6, <1>7, <2>1 DEF Empty
  <2>3. Passed(s, r) = got[s]
    BY <1>1, <1>5, <2>2, PassedPosition
  <2> QED BY <1>2, <1>4, <1>7, <2>1, <2>3
<1>8. CASE ~Empty(r.current)
  <2>1. /\ ~Empty(w.current) =>
             /\ w.current.from \in r.current.from .. r.current.to
             /\ Joined(array, s, w.current)
             /\ AtFront(array[w.current.from], Passed(s, r), w.lossReported)
        /\ Empty(w.current) => Passed(s, r) = End(array, r.current)
    BY <1>1, <1>5, <1>8, StripFollows
  <2>2. ~Empty(w.current) => w.current.from >= r.current.from
    BY <1>6, <2>1
  <2> QED BY <1>2, <1>4, <1>8, <2>1, <2>2
<1> QED BY <1>7, <1>8

LEMMA BeginReadKept ==
  ASSUME ReaderInv, KeptInv, NEW s \in Streams, NEW n \in ReadSizes, BeginRead(s, n)
  PROVE  KeptInv'
<1> DEFINE r == reader[s]
           u == [r EXCEPT !.size = n]
           v == Looks(stripEmpty(u))
<1>1. r \in Reader /\ r.pc = "idle" /\ r.pc \in Reading /\ n \in Nat
  BY StreamReaderAssumption DEF BeginRead, Runs, ReaderInv, TypeOK, Reading
<1>2. /\ u \in Reader /\ u.current = r.current /\ u.lossReported = r.lossReported
  BY <1>1 DEF Reader
<1>3. /\ reader' = [reader EXCEPT ![s] = v]
      /\ got' = [got EXCEPT ![s] = Passed(s, u)]
      /\ UNCHANGED <<array, sending, sent, spoilt, reassembled>>
  BY DEF BeginRead
<1>4. v = Looks(stripEmpty(u))
  OBVIOUS
<1> HIDE DEF r, u, v
<1>5. /\ r.current.to <= Len(array) /\ (Empty(r.current) => ~r.lossReported)
      /\ Len(array) \in Nat
  BY <1>1 DEF ReaderInv, TypeOK, RangesExist, LabelsMatch, r
<1>6. v \in Reader
  BY <1>2, <1>4, <1>5, LooksStripped
<1> DEFINE p == Passed(s, u)
<1> HIDE DEF p
<1>7. reader'[s] = v /\ got'[s] = p
  BY <1>3 DEF ReaderInv, TypeOK, p
<1>8. Kept(s)'
  <2> SUFFICES ASSUME ~spoilt[s] PROVE (OneComes(s) /\ ComingFollows(s) /\ CurrentFollows(s))'
    BY <1>3 DEF Kept
  <2>1. OneComes(s) /\ ComingFollows(s) /\ CurrentFollows(s)
    BY <1>1 DEF KeptInv, Kept, r
  <2>2. ~Empty(u.current) => /\ Joined(array, s, u.current)
                             /\ AtFront(array[u.current.from], got[s], u.lossReported)
    BY <1>1, <1>2, <2>1 DEF CurrentFollows, Front, r
  <2>3. /\ v.pc # "advance"
        /\ v.current.to = r.current.to
        /\ Empty(r.current) => Empty(v.current) /\ p = got[s]
        /\ ~Empty(r.current) /\ ~Empty(v.current) => v.current.from >= r.current.from
        /\ ~Empty(r.current) /\ Empty(v.current) => p = End(array, r.current)
        /\ ~Empty(v.current) => /\ Joined(array, s, v.current)
                                /\ AtFront(array[v.current.from], p, v.lossReported)
    <3>1. u.current.to <= Len(array)
      BY <1>2, <1>5
    <3>2. /\ v.pc # "advance"
          /\ v.current.to = u.current.to
          /\ Empty(u.current) => Empty(v.current) /\ p = got[s]
          /\ ~Empty(u.current) /\ ~Empty(v.current) => v.current.from >= u.current.from
          /\ ~Empty(u.current) /\ Empty(v.current) => p = End(array, u.current)
          /\ ~Empty(v.current) => /\ Joined(array, s, v.current)
                                  /\ AtFront(array[v.current.from], p, v.lossReported)
      BY <1>2, <1>4, <2>2, <3>1, LooksFollows DEF p
    <3> QED BY <1>2, <3>2
  <2>4. Coming(s)' = Coming(s)
    BY <1>3, ComingAlike
  <2>5. Received(s)' = Received(s)
    <3>1. Received(s)' = IF Empty(v.current) THEN p ELSE End(array, v.current)
      BY <1>3, <1>7 DEF Received, Empty
    <3>2. Received(s) = IF Empty(r.current) THEN got[s] ELSE End(array, r.current)
      BY DEF Received, r
    <3>3. End(array, v.current) = End(array, r.current)
      BY <2>3 DEF End
    <3> QED BY <2>3, <3>1, <3>2, <3>3
  <2>6. OneComes(s)'
    BY <1>3, <2>1 DEF OneComes
  <2>7. ASSUME NEW q \in Coming(s), ~Empty(v.current) PROVE q.to < v.current.from
    <3>1. q.to < r.current.from /\ q.to \in Nat
      BY <2>1, <2>3, <2>7, ComingLies DEF ComingFollows, r, Lies
    <3>2. r.current.from \in Nat /\ v.current.from \in Nat
      BY <1>1, <1>6, ReaderFields
    <3> QED BY <2>3, <2>7, <3>1, <3>2
  <2>8. ComingFollows(s)'
    <3>1. \A q \in Coming(s) : /\ Joined(array, s, q) /\ Begins(array, q, Received(s))
                               /\ End(array, q) = sent[s]
      BY <2>1 DEF ComingFollows
    <3>2. Coming(s) = {} => Received(s) = sent[s]
      BY <2>1 DEF ComingFollows
    <3>3. Empty(reader'[s].current) <=> Empty(v.current)
      BY <1>7
    <3> QED BY <1>3, <1>7, <2>4, <2>5, <2>7, <3>1, <3>2, <3>3 DEF ComingFollows, Empty
  <2>9. CurrentFollows(s)'
    BY <1>3, <1>7, <2>3 DEF CurrentFollows, Front, Empty
  <2> QED BY <2>6, <2>8, <2>9
<1>9. \A t \in Streams \ {s} : got'[t] = got[t] /\ reassembled'[t] = reassembled[t]
  BY <1>3 DEF ReaderInv, TypeOK
<1> QED BY <1>3, <1>6, <1>8, <1>9, KeptStep

LEMMA ReceiveKept ==
  ASSUME ReaderInv, KeptInv, NEW s \in Streams, Receive(s)
  PROVE  KeptInv'
<1> DEFINE r == reader[s]
           q == Head(reassembled[s])
           u == [r EXCEPT !.current = q]
           v == Looks(stripEmpty(u))
<1>1. /\ r \in Reader /\ r.pc = "select" /\ r.pc \in Reading
      /\ reassembled[s] # <<>> /\ reassembled' = [reassembled EXCEPT ![s] = Tail(@)]
  BY DEF Receive, Runs, ReaderInv, TypeOK, Reading
<1>2. /\ q \in Slice /\ q \in Waiting(s) /\ Len(reassembled[s]) \in Nat
      /\ Len(reassembled'[s]) = Len(reassembled[s]) - 1
      /\ \A t \in Streams \ {s} : reassembled'[t] = reassembled[t]
      /\ reassembled' \in [Streams -> Seq(Slice)]
  BY <1>1, HeadTaken
<1>3. /\ reader' = [reader EXCEPT ![s] = v]
      /\ got' = [got EXCEPT ![s] = Passed(s, u)]
      /\ UNCHANGED <<array, sending, sent, spoilt>>
  BY DEF Receive
<1>4. v = Looks(stripEmpty(u)) /\ u = [r EXCEPT !.current = q]
  OBVIOUS
<1> HIDE DEF r, q, u, v
<1>5. u \in Reader /\ u.current = q /\ u.lossReported = r.lossReported
  BY <1>1, <1>2, <1>4 DEF Reader
<1>6. Empty(r.current) /\ ~r.lossReported
  BY <1>1 DEF ReaderInv, LabelsMatch, r
<1>7. v \in Reader
  BY <1>4, <1>5, <1>6, LooksStripped
<1> DEFINE p == Passed(s, u)
<1> HIDE DEF p
<1>8. reader'[s] = v /\ got'[s] = p
  BY <1>3 DEF ReaderInv, TypeOK, p
<1>9. Kept(s)'
  <2> SUFFICES ASSUME ~spoilt[s] PROVE (OneComes(s) /\ ComingFollows(s) /\ CurrentFollows(s))'
    BY <1>3 DEF Kept
  <2>1. OneComes(s) /\ ComingFollows(s)
    BY <1>1 DEF KeptInv, Kept, r
  <2>2. q \in Coming(s)
    BY <1>2 DEF Coming
  <2>3. Received(s) = got[s]
    BY <1>6 DEF Received, r
  <2>4. /\ Joined(array, s, q) /\ Begins(array, q, got[s]) /\ End(array, q) = sent[s]
    BY <2>1, <2>2, <2>3 DEF ComingFollows
  <2>5. Lies(array, q) /\ q.from = 1
    BY <2>2, ComingLies
  <2>6. ~Empty(q) /\ q.to <= Len(array) /\ q.from \in q.from .. q.to
    BY <2>5 DEF Lies, Empty
  <2>7. AtFront(array[q.from], got[s], u.lossReported)
    <3>1. /\ array[q.from].at \in Nat /\ array[q.from].skip \in BOOLEAN
          /\ Missing(array[q.from]) \in {0, 1}
          /\ (array[q.from].skip <=> Missing(array[q.from]) = 1)
      BY <2>5, <2>6, RangeSlots DEF ReaderInv, TypeOK
    <3>2. got[s] \in Nat
      BY DEF ReaderInv, TypeOK
    <3> QED BY <1>5, <1>6, <2>4, <3>1, <3>2 DEF Begins, AtFront
  <2>8. /\ v.pc # "advance"
        /\ v.current.to = u.current.to
        /\ ~Empty(u.current) /\ Empty(v.current) => p = End(array, u.current)
        /\ ~Empty(v.current) => /\ Joined(array, s, v.current)
                                /\ AtFront(array[v.current.from], p, v.lossReported)
    <3>1. /\ u.current.to <= Len(array)
          /\ ~Empty(u.current) => /\ Joined(array, s, u.current)
                                  /\ AtFront(array[u.current.from], got[s], u.lossReported)
      BY <1>5, <2>4, <2>6, <2>7
    <3>2. /\ v.pc # "advance"
          /\ v.current.to = u.current.to
          /\ Empty(u.current) => Empty(v.current) /\ p = got[s]
          /\ ~Empty(u.current) /\ ~Empty(v.current) => v.current.from >= u.current.from
          /\ ~Empty(u.current) /\ Empty(v.current) => p = End(array, u.current)
          /\ ~Empty(v.current) => /\ Joined(array, s, v.current)
                                  /\ AtFront(array[v.current.from], p, v.lossReported)
      <4>1. v = Looks(stripEmpty(u)) /\ u \in Reader
        BY <1>4, <1>5
      <4> QED BY <3>1, <4>1, LooksFollows DEF p
    <3> QED BY <3>2
  <2>9. Received(s)' = sent[s]
    <3>1. Received(s)' = IF Empty(v.current) THEN p ELSE End(array, v.current)
      BY <1>3, <1>8 DEF Received, Empty
    <3>2. End(array, v.current) = End(array, q)
      BY <1>5, <2>8 DEF End
    <3> QED BY <1>5, <2>4, <2>6, <2>8, <3>1, <3>2
  <2>10. reassembled'[s] = <<>> /\ sending.to # s
    <3>1. Len(reassembled'[s]) = 0 /\ sending.to # s
      BY <1>1, <1>2, <2>1 DEF OneComes
    <3>2. reassembled'[s] \in Seq(Slice)
      BY <1>2
    <3> QED BY <3>1, <3>2, EmptySeq
  <2>11. Coming(s)' = {}
    BY <1>3, <2>10 DEF Coming, Waiting
  <2>12. OneComes(s)'
    BY <1>3, <2>10 DEF OneComes
  <2>13. ComingFollows(s)'
    BY <1>3, <2>9, <2>11 DEF ComingFollows
  <2>14. CurrentFollows(s)'
    BY <1>3, <1>8, <2>8 DEF CurrentFollows, Front, Empty
  <2> QED BY <2>12, <2>13, <2>14
<1>10. \A t \in Streams \ {s} : got'[t] = got[t] /\ reassembled'[t] = reassembled[t]
  BY <1>2, <1>3 DEF ReaderInv, TypeOK
<1> QED BY <1>3, <1>7, <1>9, <1>10, KeptStep

LEMMA AdvanceKept ==
  ASSUME ReaderInv, KeptInv, NEW s \in Streams, Advance(s)
  PROVE  KeptInv'
<1> DEFINE c == reader[s].current
           f == c.from
           n == reader[s].length
<1>1. PICK v \in Reader : /\ reader' = [reader EXCEPT ![s] = v] /\ v.pc = "idle"
                          /\ v.current = reader[s].current
                          /\ v.lossReported = reader[s].lossReported
  BY AdvanceReader
<1>2. /\ array' \in Seq(Slot) /\ Len(array') = Len(array)
      /\ \A i \in 1 .. Len(array) : i # f => array'[i] = array[i]
      /\ f \in 1 .. Len(array) /\ n \in Nat
      /\ array'[f].of = array[f].of /\ array'[f].skip = array[f].skip
      /\ array'[f].whole = array[f].whole
      /\ array'[f].at = array[f].at + n /\ array'[f].len = array[f].len - n
  BY AdvanceCuts
<1>3. /\ UNCHANGED <<sending, sent, got, reassembled>>
      /\ spoilt' = [spoilt EXCEPT ![Front(s).of] = @ \/ Front(s).of # s]
      /\ reader[s].pc = "advance" /\ reader[s].pc \in Reading
  BY DEF Advance, Runs, Reading
<1>4. /\ Lies(array, c) /\ ~Empty(c) /\ Front(s) = array[f]
      /\ Front(s).of \in Streams
  BY <1>3, FrontSlot DEF Front
<1>5. spoilt \in [Streams -> BOOLEAN]
  BY DEF ReaderInv, TypeOK
<1>6. ASSUME NEW t \in Streams \ {s} PROVE Kept(t)'
  <2>1. reader'[t] = reader[t] /\ Kept(t)
    BY <1>1 DEF ReaderInv, TypeOK, KeptInv
  <2>2. Coming(t)' = Coming(t)
    BY <1>3, ComingAlike
  <2>3. spoilt[t] => spoilt'[t]
    BY <1>3, <1>4, <1>5
  <2>4. CASE array[f].of = t
    <3>1. spoilt'[t]
      BY <1>3, <1>4, <1>5, <2>4
    <3> QED BY <3>1 DEF Kept
  <2>5. CASE array[f].of # t
    <3>1. \A i \in 1 .. Len(array) : array[i].of = t => array'[i] = array[i]
      BY <1>2, <2>5
    <3> QED BY <1>3, <2>1, <2>2, <2>3, <3>1, KeptAlike
  <2> QED BY <2>4, <2>5
<1>7. Kept(s)'
  <2> SUFFICES ASSUME ~spoilt'[s] PROVE (OneComes(s) /\ ComingFollows(s) /\ CurrentFollows(s))'
    BY DEF Kept
  <2>1. ~spoilt[s]
    BY <1>3, <1>4, <1>5
  <2>2. OneComes(s) /\ ComingFollows(s) /\ CurrentFollows(s)
    BY <1>3, <2>1 DEF KeptInv, Kept
  <2>3. /\ Joined(array, s, c)
        /\ got[s] = array[f].at + n /\ n <= array[f].len
        /\ LossErrors => reader[s].lossReported \/ ~array[f].skip
    BY <1>3, <1>4, <2>2 DEF CurrentFollows
  <2>4. /\ c.from \in Nat \ {0} /\ c.to \in 1 .. Len(array) /\ c.from <= c.to /\ Len(array) \in Nat
        /\ f \in c.from .. c.to /\ c.to \in c.from .. c.to
    BY <1>2, <1>4 DEF Lies
  <2>5. array[f].at \in Nat /\ array[f].len \in Nat /\ array[f].skip \in BOOLEAN
    BY <1>4, <2>4, RangeSlots DEF ReaderInv, TypeOK
  <2>6. \A i \in c.from .. c.to : i \in 1 .. Len(array) /\ array[i].of = s /\ array[i].whole
    BY <2>3, <2>4 DEF Joined
  <2>7. \A i \in c.from .. c.to : array'[i].of = s /\ array'[i].whole
    BY <1>2, <2>6
  <2>8. \A i \in c.from + 1 .. c.to :
          array'[i].at = array'[i-1].at + array'[i-1].len + Missing(array'[i])
    <3> SUFFICES ASSUME NEW i \in c.from + 1 .. c.to
        PROVE array'[i].at = array'[i-1].at + array'[i-1].len + Missing(array'[i])
      OBVIOUS
    <3>1. array[i].at = array[i-1].at + array[i-1].len + Missing(array[i])
      BY <2>3 DEF Joined
    <3>2. i \in 1 .. Len(array) /\ i # f /\ i - 1 \in 1 .. Len(array)
      BY <2>4
    <3>3. array'[i] = array[i]
      BY <1>2, <3>2
    <3>4. array'[i-1].at + array'[i-1].len = array[i-1].at + array[i-1].len
      <4>1. CASE i - 1 = f
        <5>1. array'[i-1].at = array[i-1].at + n /\ array'[i-1].len = array[i-1].len - n
          BY <1>2, <4>1
        <5>2. array[i-1].at \in Nat /\ array[i-1].len \in Nat /\ n \in Nat
          BY <1>2, <2>5, <4>1
        <5> HIDE DEF f, n, c
        <5> QED BY <5>1, <5>2
      <4>2. CASE i - 1 # f
        BY <1>2, <3>2, <4>2
      <4> QED BY <4>1, <4>2
    <3> QED BY <3>1, <3>3, <3>4
  <2>9. Joined(array', s, c)
    BY <2>7, <2>8 DEF Joined
  <2>10. End(array', c) = End(array, c)
    <3>1. CASE c.to = f
      <4>1. array'[f].at = array[f].at + n /\ array'[f].len = array[f].len - n /\ n \in Nat
        BY <1>2
      <4>2. End(array', c) = array'[f].at + array'[f].len /\ End(array, c) = array[f].at + array[f].len
        BY <3>1 DEF End
      <4> HIDE DEF f, n, c
      <4> QED BY <2>5, <4>1, <4>2
    <3>2. CASE c.to # f
      BY <1>2, <2>4, <3>2 DEF End
    <3> QED BY <3>1, <3>2
  <2>11. reader'[s] = v
    BY <1>1 DEF ReaderInv, TypeOK
  <2>12. v.current = c
    BY <1>1
  <2> HIDE DEF c
  <2>13. Received(s)' = Received(s)
    BY <1>4, <2>10, <2>11, <2>12 DEF Received, Empty, c
  <2>14. Coming(s)' = Coming(s)
    BY <1>3, ComingAlike
  <2>15. ASSUME NEW q \in Coming(s)
         PROVE  /\ Joined(array', s, q) /\ Begins(array', q, Received(s))
                /\ End(array', q) = sent[s] /\ q.to < c.from
    <3>1. /\ Joined(array, s, q) /\ Begins(array, q, Received(s))
          /\ End(array, q) = sent[s] /\ q.to < c.from
      BY <1>4, <2>2 DEF ComingFollows, c
    <3>2. q.from = 1 /\ q.from \in Nat /\ q.to \in Nat /\ ~Empty(q) /\ q.to <= Len(array)
      BY <2>4, ComingLies DEF Lies, Empty
    <3>3. \A i \in q.from .. q.to : i \in 1 .. Len(array) /\ i # c.from
      BY <2>4, <3>1, <3>2
    <3>4. SameIn(array, array', q)
      BY <1>2, <3>3 DEF SameIn, f
    <3> HIDE DEF f, n
    <3> QED BY <3>1, <3>2, <3>4, SameSlots
  <2>16. ComingFollows(s)'
    <3>1. Coming(s) = {} => Received(s) = sent[s]
      BY <2>2 DEF ComingFollows
    <3> QED BY <1>3, <2>11, <2>12, <2>13, <2>14, <2>15, <3>1 DEF ComingFollows
  <2>17. CurrentFollows(s)'
    <3>1. Front(s)' = array'[f]
      BY <2>11, <2>12 DEF Front, c
    <3>2. AtFront(array'[f], got[s], v.lossReported)
      BY <1>1, <1>2, <2>3 DEF AtFront
    <3> QED BY <1>1, <1>3, <2>9, <2>11, <2>12, <3>1, <3>2 DEF CurrentFollows
  <2>18. OneComes(s)'
    BY <1>3, <2>2 DEF OneComes
  <2> QED BY <2>16, <2>17, <2>18
<1> QED BY <1>6, <1>7 DEF KeptInv

LEMMA AssembleKept ==
  ASSUME ReaderInv, KeptInv, NEW s \in Streams, NEW b \in Batches, Assemble(s, b)
  PROVE  KeptInv'
<1> DEFINE r == [from |-> 1, to |-> Len(b)]
<1>1. /\ array \in Seq(Slot) /\ sent \in [Streams -> Nat] /\ Len(array) \in Nat
      /\ spoilt \in [Streams -> BOOLEAN]
  BY DEF ReaderInv, TypeOK
<1>2. /\ array' = Slots(s, b) \o SubSeq(array, Len(b) + 1, Len(array))
      /\ sending = Idle /\ sending' = [to |-> s, batch |-> r]
      /\ sent' = [sent EXCEPT ![s] = @ + Extent(b)]
      /\ spoilt' = [t \in Streams |-> spoilt[t] \/ ToRead(t) \cap 1 .. Len(b) # {}]
      /\ UNCHANGED <<reader, reassembled, got>>
  BY DEF Assemble
<1>3. Len(b) \in Nat \ {0} /\ Extent(b) \in Nat
  BY BatchFields
<1>4. /\ \A i \in 1 .. Len(b) :
           array'[i] = Carried(s, b[i], sent[s])
      /\ \A i \in Len(b) + 1 .. Len(array) : array'[i] = array[i]
  BY <1>1, <1>2, ArrayWritten
<1>5. r.from = 1 /\ r.to = Len(b) /\ sent[s] \in Nat
  BY <1>1
<1>6. sending'.to = s /\ sending'.batch = r /\ sending.to = "nobody"
  BY <1>2 DEF Idle
<1> HIDE DEF r
<1>7. Joined(array', s, r) /\ Begins(array', r, sent[s]) /\ End(array', r) = sent[s] + Extent(b)
  <2>1. CarriesBatch(array', s, b, sent[s])
    BY <1>4 DEF CarriesBatch
  <2> QED BY <1>5, <2>1, BatchWritten
<1> SUFFICES ASSUME NEW t \in Streams, ~spoilt'[t], reader[t].pc \in Reading
             PROVE  (OneComes(t) /\ ComingFollows(t) /\ CurrentFollows(t))'
  BY <1>2 DEF KeptInv, Kept
<1> DEFINE c == reader[t].current
<1>8. ~spoilt[t] /\ ToRead(t) \cap 1 .. Len(b) = {}
  BY <1>2
<1>9. /\ c.from \in Nat \ {0} /\ c.to \in Nat /\ c.to <= Len(array)
  BY ReaderFields DEF ReaderInv, TypeOK, RangesExist
<1>10. reassembled[t] = <<>> /\ (~Empty(c) => c.from > Len(b))
  <2>1. Waiting(t) = {}
    <3> SUFFICES ASSUME NEW q \in Waiting(t) PROVE FALSE
      OBVIOUS
    <3>1. q.from = 1 /\ q.to \in 1 .. Len(array)
      BY DEF ReaderInv, RangesExist
    <3>2. 1 \in q.from .. q.to /\ 1 \in 1 .. Len(b)
      BY <1>1, <1>3, <3>1
    <3> QED BY <1>8, <3>2 DEF ToRead
  <2>2. reassembled[t] = <<>>
    <3>1. reassembled[t] \in Seq(Slice)
      BY DEF ReaderInv, TypeOK
    <3>2. DOMAIN reassembled[t] = {}
      BY <2>1 DEF Waiting
    <3>3. Len(reassembled[t]) \in Nat /\ DOMAIN reassembled[t] = 1 .. Len(reassembled[t])
      BY <3>1
    <3> DEFINE n == Len(reassembled[t])
    <3>4. n = 0
      <4>1. n \in Nat /\ 1 .. n = {}
        BY <3>2, <3>3
      <4> HIDE DEF n
      <4>2. 1 \notin 1 .. n
        BY <4>1
      <4> QED BY <4>1, <4>2
    <3> QED BY <3>1, <3>4, EmptySeq
  <2>3. ASSUME ~Empty(c), c.from <= Len(b) PROVE FALSE
    <3>1. c.from \in c.from .. c.to /\ c.from \in 1 .. Len(b)
      BY <1>3, <1>9, <2>3 DEF Empty
    <3> QED BY <1>8, <3>1 DEF ToRead
  <2> QED BY <1>3, <1>9, <2>2, <2>3
<1>11. OneComes(t) /\ ComingFollows(t) /\ CurrentFollows(t)
  BY <1>8 DEF KeptInv, Kept
<1>12. t # "nobody"
  BY StreamReaderAssumption
<1>13. Coming(t) = {}
  BY <1>6, <1>10, <1>12 DEF Coming, Waiting
<1>14. Received(t) = sent[t]
  BY <1>11, <1>13 DEF ComingFollows
<1>15. ASSUME ~Empty(c)
       PROVE  /\ Joined(array', t, c) /\ End(array', c) = End(array, c)
              /\ array'[c.from] = array[c.from]
  <2>1. Joined(array, t, c)
    BY <1>11, <1>15 DEF CurrentFollows
  <2>2. \A i \in c.from .. c.to : i \in Len(b) + 1 .. Len(array)
    BY <1>1, <1>3, <1>9, <1>10, <1>15
  <2>3. SameIn(array, array', c)
    BY <1>4, <2>2 DEF SameIn
  <2> HIDE DEF c
  <2> QED BY <1>9, <1>15, <2>1, <2>3, SameSlots
<1>16. Received(t)' = Received(t)
  BY <1>2, <1>15 DEF Received, Empty
<1>17. CurrentFollows(t)'
  <2>1. Front(t)' = array'[c.from] /\ Front(t) = array[c.from]
    BY <1>2 DEF Front
  <2> QED BY <1>2, <1>11, <1>15, <2>1 DEF CurrentFollows, Empty
<1>18. OneComes(t)'
  BY <1>2, <1>10 DEF OneComes
<1>19. ComingFollows(t)'
  <2>1. CASE t = s
    <3>1. Coming(t)' = {r}
      BY <1>2, <1>6, <1>10, <2>1 DEF Coming, Waiting
    <3>2. sent'[t] = sent[s] + Extent(b)
      BY <1>1, <1>2, <2>1
    <3>3. ~Empty(c) => r.to < c.from
      BY <1>5, <1>9, <1>10, <1>3
    <3> QED BY <1>2, <1>7, <1>14, <1>16, <2>1, <3>1, <3>2, <3>3 DEF ComingFollows, Empty
  <2>2. CASE t # s
    <3>1. Coming(t)' = {}
      BY <1>2, <1>6, <1>10, <2>2 DEF Coming, Waiting
    <3>2. sent'[t] = sent[t]
      BY <1>1, <1>2, <2>2
    <3> QED BY <1>14, <1>16, <3>1, <3>2 DEF ComingFollows
  <2> QED BY <2>1, <2>2
<1> QED BY <1>17, <1>18, <1>19

LEMMA BufferKept ==
  ASSUME ReaderInv, KeptInv, NEW s \in Streams, NEW q \in Pages, Buffer(s, q)
  PROVE  KeptInv'
<1>1. /\ UNCHANGED <<reader, reassembled, sending, sent, got>> /\ sending = Idle
      /\ spoilt' = [t \in Streams |-> spoilt[t] \/ \E i \in ToRead(t) : array[i].page = q]
  BY DEF Buffer
<1>2. \A i \in 1 .. Len(array) : array[i].page # q => array'[i] = array[i]
  BY PageFilled DEF Buffer, ReaderInv, TypeOK
<1> SUFFICES ASSUME NEW t \in Streams PROVE Kept(t)'
  BY DEF KeptInv
<1>3. Kept(t) /\ Coming(t)' = Coming(t) /\ t # "nobody"
  BY <1>1, ComingAlike, StreamReaderAssumption DEF KeptInv
<1>4. Used(t) = ToRead(t)
  BY <1>1, <1>3 DEF Used, ToRead, Coming, Idle
<1>5. ASSUME ~spoilt'[t], NEW i \in 1 .. Len(array), i \in Used(t)
      PROVE  array'[i] = array[i]
  BY <1>1, <1>2, <1>4, <1>5
<1>6. spoilt[t] => spoilt'[t]
  BY <1>1
<1> QED BY <1>1, <1>3, <1>5, <1>6, KeptAlike

LEMMA ReassembledKept ==
  ASSUME ReaderInv, KeptInv, NEW s \in Streams, Reassembled(s)
  PROVE  KeptInv'
<1>1. /\ reassembled'[s] = Append(reassembled[s], sending.batch)
      /\ \A t \in Streams \ {s} : reassembled'[t] = reassembled[t]
      /\ Waiting(s)' = Waiting(s) \cup {sending.batch}
  BY ReassembledReader
<1>2. /\ sending.to = s /\ sending' = Idle /\ sending'.to = "nobody"
      /\ UNCHANGED <<array, reader, sent, got, spoilt>>
  BY DEF Reassembled, Idle
<1> SUFFICES ASSUME NEW t \in Streams PROVE Kept(t)'
  BY DEF KeptInv
<1>3. t # "nobody" /\ Kept(t)
  BY StreamReaderAssumption DEF KeptInv
<1>4. CASE t # s
  <2>1. Coming(t)' = Coming(t)
    BY <1>1, <1>2, <1>3, <1>4 DEF Coming, Waiting
  <2> QED BY <1>1, <1>2, <1>3, <1>4, <2>1, KeptAlike
<1>5. CASE t = s
  <2> SUFFICES ASSUME ~spoilt[s], reader[s].pc \in Reading
               PROVE  (OneComes(s) /\ ComingFollows(s) /\ CurrentFollows(s))'
    BY <1>2, <1>5 DEF Kept
  <2>1. OneComes(s) /\ ComingFollows(s) /\ CurrentFollows(s)
    BY <1>3, <1>5 DEF Kept
  <2>2. reassembled[s] = <<>>
    BY <1>2, <2>1 DEF OneComes
  <2>3. Coming(s)' = Coming(s)
    BY <1>1, <1>2, <1>3, <1>5 DEF Coming
  <2>4. OneComes(s)'
    <3>1. Len(reassembled'[s]) = 1
      BY <1>1, <2>2
    <3> QED BY <1>2, <1>3, <1>5, <3>1 DEF OneComes
  <2>5. ComingFollows(s)'
    BY <1>2, <2>1, <2>3 DEF ComingFollows, Received, Empty
  <2>6. CurrentFollows(s)'
    BY <1>2, <2>1 DEF CurrentFollows, Front, Empty
  <2> QED BY <2>4, <2>5, <2>6
<1> QED BY <1>4, <1>5

\* A step that leaves chunks, readers, channels and positions alone.
LEMMA KeptUnchanged ==
  ASSUME ReaderInv, KeptInv, UNCHANGED <<array, reader, reassembled, sending, sent, got, spoilt>>
  PROVE  KeptInv'
<1> SUFFICES ASSUME NEW t \in Streams PROVE Kept(t)'
  BY DEF KeptInv
<1>1. Kept(t) /\ Coming(t)' = Coming(t)
  BY ComingAlike DEF KeptInv
<1> QED BY <1>1, KeptAlike

LEMMA KeptInit ==
  Init => KeptInv
<1> SUFFICES ASSUME Init, NEW s \in Streams PROVE OneComes(s) /\ ComingFollows(s) /\ CurrentFollows(s)
  BY DEF KeptInv, Kept
<1>1. reader[s] = NoReader /\ reassembled[s] = <<>> /\ sending.to = "nobody" /\ s # "nobody"
      /\ sent[s] = 0 /\ got[s] = 0
  BY StreamReaderAssumption DEF Init, Idle
<1>2. Empty(reader[s].current)
  BY <1>1 DEF NoReader, NoSlots, Empty
<1>3. Coming(s) = {}
  BY <1>1 DEF Coming, Waiting
<1> QED BY <1>1, <1>2, <1>3 DEF OneComes, ComingFollows, CurrentFollows, Received

LEMMA KeptNext ==
  ReaderInv /\ KeptInv /\ [Next]_vars => KeptInv'
<1> SUFFICES ASSUME ReaderInv, KeptInv, [Next]_vars PROVE KeptInv'
  OBVIOUS
<1>1. CASE UNCHANGED vars
  BY <1>1, KeptUnchanged DEF vars
<1>2. ASSUME NEW s \in Streams, NEW b \in Batches, Assemble(s, b) PROVE KeptInv'
  BY <1>2, AssembleKept
<1>3. ASSUME NEW s \in Streams, Read(s) PROVE KeptInv'
  BY <1>3, BeginReadKept DEF Read
<1>4. ASSUME NEW s \in Streams, AdvancePanics(s) \/ ClosePanics(s) \/ ReassemblyComplete(s)
      PROVE KeptInv'
  BY <1>4, KeptUnchanged DEF AdvancePanics, ClosePanics, Crash, ReassemblyComplete
<1>5. ASSUME NEW s \in Streams, Step(s) PROVE KeptInv'
  BY <1>4, <1>5, ReceiveKept, ReceiveClosedKept, DataLostKept, CopyKept,
     AdvanceKept, CloseReceiveKept, LeaveKept DEF Step
<1>6. ASSUME NEW s \in Streams, New(s) \/ Reassembled(s) PROVE KeptInv'
  BY <1>6, NewKept, ReassembledKept
<1>7. ASSUME NEW s \in Streams, Leave(s) \/ Close(s) PROVE KeptInv'
  BY <1>7, LeaveKept, CloseKept
<1>8. ASSUME NEW s \in Streams, NEW q \in Pages, Buffer(s, q) PROVE KeptInv'
  BY <1>8, BufferKept
<1> QED BY <1>1, <1>2, <1>3, <1>4, <1>5, <1>6, <1>7, <1>8 DEF Next

LEMMA KeptAlways ==
  Spec => [](ReaderInv /\ KeptInv)
<1>1. Init => ReaderInv /\ KeptInv
  BY ReaderInit, KeptInit
<1>2. ReaderInv /\ KeptInv /\ [Next]_vars => (ReaderInv /\ KeptInv)'
  BY ReaderNext, KeptNext
<1> QED BY <1>1, <1>2, PTL DEF Spec

-----------------------------------------------------------------------------
(* The theorems.                                                           *)

\* io.EOF is the end: the stream is complete, every batch of it was received,
\* and if no slot and no page of them was written again, the consumer was given all
\* bytes.
THEOREM EndIsTheEnd ==
  Spec => []EOFMeansAll
<1>1. ReaderInv /\ KeptInv => EOFMeansAll
  <2> SUFFICES ASSUME ReaderInv, KeptInv, NEW s \in Streams, reader[s].pc = "eof"
               PROVE  /\ complete[s]
                      /\ reassembled[s] = <<>>
                      /\ spoilt[s] \/ got[s] = sent[s]
    BY DEF EOFMeansAll
  <2>1. reader[s].pc \in Reading /\ Empty(reader[s].current)
    BY DEF Reading, ReaderInv, LabelsMatch
  <2>2. complete[s] /\ reassembled[s] = <<>> /\ sending.to # s
    BY <2>1 DEF ReaderInv, EndIsLast
  <2>3. Coming(s) = {}
    BY <2>2 DEF Coming, Waiting
  <2>4. ~spoilt[s] => got[s] = sent[s]
    BY <2>1, <2>3 DEF KeptInv, Kept, ComingFollows, Received
  <2> QED BY <2>2, <2>4
<1> QED BY <1>1, KeptAlways, PTL

\* A Read copies the bytes that follow those of the Read before, and with
\* LossErrors it has returned DataLost once for the bytes missing between them, but
\* for those missing before empty chunks, whatever the sizes of slices and chunks,
\* if no slot and no page was written again that the consumer had to read.
THEOREM BytesInOrder ==
  Spec => ReadsInOrder
<1> DEFINE InOrder ==
      \A s \in Streams :
        Copy(s) /\ ~spoilt[s] =>
          /\ Front(s).of = s /\ Front(s).whole
          /\ Front(s).at - got[s] \in (IF LossErrors THEN {0} ELSE {0, 1})
<1>1. ReaderInv /\ KeptInv => InOrder
  <2> SUFFICES ASSUME ReaderInv, KeptInv, NEW s \in Streams, Copy(s), ~spoilt[s]
               PROVE  /\ Front(s).of = s /\ Front(s).whole
                      /\ Front(s).at - got[s] \in (IF LossErrors THEN {0} ELSE {0, 1})
    OBVIOUS
  <2>1. /\ Front(s).of = s /\ Front(s).whole
        /\ got[s] \in Nat /\ Front(s).at \in Nat
        /\ Front(s).at = got[s] \/ Front(s).at = got[s] + 1
        /\ LossErrors => Front(s).at = got[s]
    BY CopyFollows
  <2>2. CASE LossErrors
    BY <2>1, <2>2
  <2>3. CASE ~LossErrors
    BY <2>1, <2>3
  <2> QED BY <2>1, <2>2, <2>3
<1>2. ReaderInv /\ KeptInv /\ [Next]_vars => [InOrder]_vars
  BY <1>1
<1>3. Spec => [][InOrder]_vars
  BY <1>2, KeptAlways, PTL DEF Spec
<1> QED BY <1>3 DEF ReadsInOrder

=============================================================================
