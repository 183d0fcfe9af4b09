--------------------------- MODULE OperatorsProofs ---------------------------
(***************************************************************************)
(* What the pure algorithms return: Difference and byteSpan for a sequence *)
(* space of any size, getInfo for any addresses.                           *)
(***************************************************************************)
EXTENDS MCOperators, SequenceTheorems, FiniteSetTheorems, WellFoundedInduction, TLAPS

\* Difference is the distance of two sequence numbers, and one short of it where
\* it takes them to be on different sides of the wrap-around.
THEOREM DifferenceValue ==
  ASSUME NEW s \in Sequence, NEW t \in Sequence
  PROVE  /\ ~Wraps(s, t) /\ ~Wraps(t, s) => Difference(s, t) = t - s
         /\ Wraps(s, t) => Difference(s, t) = (t + SeqSpace - s) - 1
         /\ Wraps(t, s) => Difference(s, t) = (t - SeqSpace - s) + 1
BY SeqSpaceAssumption DEF Difference, Wraps, Quarter, Sequence, uint32Max

\* Difference orders two sequence numbers the same way from either side.
THEOREM DifferenceAntisymmetric ==
  ASSUME NEW s \in Sequence, NEW t \in Sequence
  PROVE  Difference(s, t) = - Difference(t, s)
BY SeqSpaceAssumption DEF Difference, Wraps, Quarter, Sequence, uint32Max

\* Difference never has the wrong sign: a byte less than a quarter of the
\* sequence space behind another one is never said to come before it.
THEOREM DifferenceSign ==
  ASSUME NEW s \in Sequence, NEW d \in 0 .. Quarter
  PROVE  Difference(s, Add(s, d)) >= 0
<1>1. /\ SeqSpace \in Nat /\ SeqSpace >= 8
      /\ Quarter \in Nat /\ 4 * Quarter <= SeqSpace - 1
      /\ s \in 0 .. SeqSpace - 1
  BY SeqSpaceAssumption DEF Quarter, uint32Max, Sequence
<1>2. Add(s, d) = IF s + d < SeqSpace THEN s + d ELSE s + d - SeqSpace
  BY <1>1 DEF Add
<1> QED BY <1>1, <1>2 DEF Difference, Wraps, uint32Max

-----------------------------------------------------------------------------
(* Positions and their sequence numbers.                                   *)

\* The positions a behaviour is about.
Positions == Init \/ (c = 0 /\ p = 0 /\ n = 0)

Inputs == Positions /\ flow \in Flow /\ b \in Seq(Bytes)

\* The quarter is smaller than a quarter of the numbers.
LEMMA SpaceFacts ==
  /\ SeqSpace \in Nat /\ SeqSpace >= 8
  /\ Quarter \in Nat /\ 4 * Quarter <= SeqSpace - 1 /\ uint32Max = SeqSpace - 1
BY SeqSpaceAssumption DEF Quarter, uint32Max

\* Division by the size of the space, which is not a number for the provers.
LEMMA Division ==
  ASSUME NEW x \in Nat
  PROVE  /\ x \div SeqSpace \in Nat
         /\ x % SeqSpace \in 0 .. SeqSpace - 1
         /\ x = SeqSpace * (x \div SeqSpace) + (x % SeqSpace)
BY SpaceFacts, Z3

\* Laps more are the same sequence number.
LEMMA SameLap ==
  ASSUME NEW x \in Nat, NEW m \in Nat
  PROVE  (x + SeqSpace * m) % SeqSpace = x % SeqSpace
<1> DEFINE y == x + SeqSpace * m
           k == (y \div SeqSpace) - (x \div SeqSpace) - m
<1>1. y \in Nat
  BY SpaceFacts
<1>2. k \in Int /\ SeqSpace * k = (x % SeqSpace) - (y % SeqSpace)
  <2>1. /\ y \div SeqSpace \in Nat /\ x \div SeqSpace \in Nat
        /\ y = SeqSpace * (y \div SeqSpace) + (y % SeqSpace)
        /\ x = SeqSpace * (x \div SeqSpace) + (x % SeqSpace)
        /\ y % SeqSpace \in Nat /\ x % SeqSpace \in Nat
    BY <1>1, Division, SpaceFacts
  <2> QED BY <2>1, SpaceFacts, SMTT(30)
<1> HIDE DEF k
<1>3. SeqSpace * k < SeqSpace /\ SeqSpace * k > - SeqSpace
  BY <1>1, <1>2, SpaceFacts, Division
<1>4. k = 0
  <2>1. ASSUME k >= 1 PROVE SeqSpace * k >= SeqSpace
    BY <1>2, <2>1, SpaceFacts
  <2>2. ASSUME k <= -1 PROVE SeqSpace * k <= - SeqSpace
    BY <1>2, <2>2, SpaceFacts
  <2> QED BY <1>2, <1>3, <2>1, <2>2, SpaceFacts
<1>5. x % SeqSpace = y % SeqSpace
  BY <1>1, <1>2, <1>4, SpaceFacts, Division
<1> QED BY <1>5

\* The sequence numbers of the first three laps.
LEMMA FirstLap ==
  ASSUME NEW x \in 0 .. SeqSpace - 1
  PROVE  seq(x) = x /\ seq(x + SeqSpace) = x /\ seq(x + SeqSpace + SeqSpace) = x
<1>1. seq(x) = x
  BY SpaceFacts DEF seq
<1>2. SeqSpace * 1 = SeqSpace /\ SeqSpace * 2 = SeqSpace + SeqSpace
  BY SpaceFacts
<1>3. seq(x + SeqSpace) = x /\ seq(x + (SeqSpace + SeqSpace)) = x
  BY <1>1, <1>2, SameLap DEF seq
<1> QED BY <1>1, <1>3, SpaceFacts

\* Bytes after a position move its sequence number by as many.
LEMMA AddToSeq ==
  ASSUME NEW x \in Nat, NEW y \in Nat
  PROVE  Add(seq(x), y) = seq(x + y)
<1> DEFINE r == x % SeqSpace
           q == x \div SeqSpace
<1>1. r \in Nat /\ q \in Nat /\ x = SeqSpace * q + r
  BY Division, SpaceFacts
<1> HIDE DEF r, q
<1>2. x + y = (r + y) + SeqSpace * q
  BY <1>1, SpaceFacts
<1>3. (x + y) % SeqSpace = (r + y) % SeqSpace
  BY <1>1, <1>2, SameLap
<1> QED BY <1>3 DEF Add, seq, r

\* Both are in the first lap, or the sequence numbers are those of a
\* connection in its second lap and of a segment a quarter away at most.
LEMMA Residues ==
  ASSUME Positions
  PROVE  /\ c \in Nat /\ p \in Nat /\ n \in Nat
         /\ p \in c - Quarter .. c + Quarter
         /\ \/ c = 0 /\ p = 0 /\ seq(c) = 0 /\ seq(p) = 0
            \/ /\ seq(c) = c - SeqSpace /\ c >= SeqSpace /\ c < 2 * SeqSpace
               /\ seq(p) = IF p < SeqSpace THEN p
                           ELSE IF p < 2 * SeqSpace THEN p - SeqSpace
                           ELSE p - SeqSpace - SeqSpace
<1>1. CASE Init
  <2>1. /\ c \in Nat /\ p \in Nat /\ n \in Nat
        /\ c >= SeqSpace /\ c < 2 * SeqSpace
        /\ p \in c - Quarter .. c + Quarter
        /\ p < SeqSpace + SeqSpace + SeqSpace
    BY <1>1, SpaceFacts, MaxLenAssumption DEF Init
  <2>2. seq(c) = c - SeqSpace
    <3>1. c - SeqSpace \in 0 .. SeqSpace - 1 /\ (c - SeqSpace) + SeqSpace = c
      BY <2>1, SpaceFacts
    <3> QED BY <3>1, FirstLap
  <2>3. p < SeqSpace => seq(p) = p
    BY <2>1, SpaceFacts, FirstLap
  <2>4. ASSUME p >= SeqSpace, p < 2 * SeqSpace
        PROVE  seq(p) = p - SeqSpace
    <3>1. p - SeqSpace \in 0 .. SeqSpace - 1 /\ (p - SeqSpace) + SeqSpace = p
      BY <2>1, <2>4, SpaceFacts
    <3> QED BY <3>1, FirstLap
  <2>5. ASSUME p >= 2 * SeqSpace
        PROVE  seq(p) = p - SeqSpace - SeqSpace
    <3>1. /\ p - SeqSpace - SeqSpace \in 0 .. SeqSpace - 1
          /\ (p - SeqSpace - SeqSpace) + SeqSpace + SeqSpace = p
      BY <2>1, <2>5, SpaceFacts
    <3> QED BY <3>1, FirstLap
  <2> QED BY <2>1, <2>2, <2>3, <2>4, <2>5, SpaceFacts
<1>2. CASE c = 0 /\ p = 0 /\ n = 0
  <2>1. seq(0) = 0
    BY SpaceFacts, FirstLap
  <2> QED BY <1>2, <2>1, SpaceFacts
<1> QED BY <1>1, <1>2 DEF Positions

\* Difference of the sequence numbers of two positions.
LEMMA Distance ==
  ASSUME Positions
  PROVE  DistanceButOne
BY Residues, SpaceFacts DEF DistanceButOne, Apart, Wraps, Difference

\* The same with the arguments exchanged, as byteSpan has them.
LEMMA DistanceBack ==
  ASSUME Positions
  PROVE  /\ ~Apart => Difference(seq(p), seq(c)) = c - p
         /\ p < c => Difference(seq(p), seq(c)) \in {c - p, c - p - 1}
         /\ p >= c => Difference(seq(p), seq(c)) <= 0
         /\ Difference(seq(p), seq(c)) \in Int
         /\ seq(c) # invalidSequence
BY Residues, SpaceFacts DEF Apart, Wraps, Difference, invalidSequence

\* The bytes of the segment from some position on.
LEMMA DueBytes ==
  ASSUME NEW x \in Int, NEW y \in Int, NEW z \in Int
  PROVE  {i \in x .. z : i >= y} = IF y > x THEN y .. z ELSE x .. z
OBVIOUS

\* byteSpan trims exactly what was received before, where the sequence numbers
\* do not wrap around.
LEMMA SpanExact ==
  ASSUME Positions
  PROVE  SpanSendsTheRest
<1>1. /\ c \in Nat /\ p \in Nat /\ n \in Nat
  BY Residues
<1> SUFFICES ASSUME ~Apart
             PROVE  LET span == byteSpan(seq(c), seq(p), n)
                        sent == {i \in p .. p + n - 1 : i >= c}
                    IN  /\ span.len = Cardinality(sent)
                        /\ sent = p + span.cut .. p + span.cut + span.len - 1
                        /\ span.next = seq(IF p + n > c THEN p + n ELSE c)
  BY DEF SpanSendsTheRest
<1> DEFINE sent == {i \in p .. p + n - 1 : i >= c}
           span == byteSpan(seq(c), seq(p), n)
<1>2. Difference(seq(p), seq(c)) = c - p /\ seq(c) # invalidSequence
  BY DistanceBack
<1>3. sent = IF c > p THEN c .. p + n - 1 ELSE p .. p + n - 1
  BY <1>1, DueBytes
<1> HIDE DEF sent
<1>4. CASE c <= p
  <2>1. span = [cut |-> 0, len |-> n, next |-> Add(seq(p), n)]
    BY <1>1, <1>2, <1>4 DEF byteSpan
  <2> HIDE DEF span
  <2>2. sent = p .. p + n - 1 /\ Cardinality(sent) = n
    BY <1>1, <1>3, <1>4, FS_Interval
  <2>3. Add(seq(p), n) = seq(p + n)
    BY <1>1, AddToSeq
  <2>4. (IF p + n > c THEN p + n ELSE c) = p + n
    BY <1>1, <1>4
  <2> QED BY <1>1, <2>1, <2>2, <2>3, <2>4 DEF sent, span
<1>5. CASE c > p /\ n < c - p
  <2>1. span = [cut |-> c - p, len |-> 0, next |-> seq(c)]
    BY <1>1, <1>2, <1>5 DEF byteSpan
  <2> HIDE DEF span
  <2>2. sent = {} /\ Cardinality(sent) = 0
    BY <1>1, <1>3, <1>5, FS_EmptySet
  <2> QED BY <1>1, <1>5, <2>1, <2>2 DEF sent, span
<1>6. CASE c > p /\ n >= c - p
  <2>1. span = [cut |-> c - p, len |-> n - (c - p), next |-> Add(seq(c), n - (c - p))]
    BY <1>1, <1>2, <1>6 DEF byteSpan
  <2> HIDE DEF span
  <2>2. sent = c .. p + n - 1 /\ Cardinality(sent) = n - (c - p)
    BY <1>1, <1>3, <1>6, FS_Interval
  <2>3. Add(seq(c), n - (c - p)) = seq(p + n)
    <3>1. n - (c - p) \in Nat /\ c + (n - (c - p)) = p + n
      BY <1>1, <1>6
    <3> QED BY <1>1, <3>1, AddToSeq
  <2>4. (IF p + n > c THEN p + n ELSE c) = p + n
    BY <1>1, <1>6
  <2> QED BY <1>1, <2>1, <2>2, <2>3, <2>4 DEF sent, span
<1> QED BY <1>1, <1>4, <1>5, <1>6

\* On either side of the wrap-around nothing that is due is trimmed, and of the
\* rest all but one byte at most.
LEMMA SpanNearlyExact ==
  ASSUME Positions
  PROVE  SpanButOne
<1>1. /\ c \in Nat /\ p \in Nat /\ n \in Nat
  BY Residues
<1> DEFINE span == byteSpan(seq(c), seq(p), n)
           D == Difference(seq(p), seq(c))
           next == IF p + n > c THEN p + n ELSE c
           Spans(cut, len, s) ==
             /\ {i \in p .. p + n - 1 : i >= c} \subseteq p + cut .. p + cut + len - 1
             /\ p + cut .. p + cut + len - 1 \subseteq {i \in p .. p + n - 1 : i >= c} \cup {c - 1}
             /\ s \in {seq(next - 1), seq(next), seq(next + 1)}
<1>2. /\ p < c => D = c - p \/ D = c - p - 1
      /\ p >= c => D <= 0
      /\ D \in Int /\ seq(c) # invalidSequence
  <2>1. /\ p < c => Difference(seq(p), seq(c)) \in {c - p, c - p - 1}
        /\ p >= c => Difference(seq(p), seq(c)) <= 0
        /\ Difference(seq(p), seq(c)) \in Int
        /\ seq(c) # invalidSequence
    BY DistanceBack
  <2> QED BY <2>1
<1>3. span = IF D <= 0 THEN [cut |-> 0, len |-> n, next |-> Add(seq(p), n)]
             ELSE IF n < D THEN [cut |-> D, len |-> 0, next |-> seq(c)]
             ELSE [cut |-> D, len |-> n - D, next |-> Add(seq(c), n - D)]
  BY <1>2 DEF byteSpan
<1> HIDE DEF D, span
<1>4. CASE D <= 0
  <2>1. p >= c \/ p = c - 1
    BY <1>1, <1>2, <1>4
  <2>2. p + n \in {next - 1, next}
    BY <1>1, <2>1
  <2>3. Add(seq(p), n) \in {seq(next - 1), seq(next)}
    <3>1. Add(seq(p), n) = seq(p + n)
      BY <1>1, AddToSeq
    <3> HIDE DEF next
    <3> QED BY <2>2, <3>1
  <2>4. Spans(0, n, Add(seq(p), n))
    BY <1>1, <2>1, <2>3
  <2> HIDE DEF Spans
  <2>5. span.cut = 0 /\ span.len = n /\ span.next = Add(seq(p), n)
    BY <1>3, <1>4
  <2>6. Spans(span.cut, span.len, span.next)
    BY <2>4, <2>5
  <2> QED BY <2>6 DEF Spans, SpanButOne, span
<1>5. CASE D > 0 /\ n < D
  <2>1. p < c /\ p + n < c /\ p + D <= c
    BY <1>1, <1>2, <1>5
  <2>2. Spans(D, 0, seq(c))
    BY <1>1, <1>2, <2>1
  <2> HIDE DEF Spans
  <2>3. span.cut = D /\ span.len = 0 /\ span.next = seq(c)
    BY <1>1, <1>2, <1>3, <1>5
  <2>4. Spans(span.cut, span.len, span.next)
    BY <2>2, <2>3
  <2> QED BY <2>4 DEF Spans, SpanButOne, span
<1>6. CASE D > 0 /\ n >= D
  <2>1. p < c /\ D \in {c - p, c - p - 1}
    BY <1>1, <1>2, <1>6
  <2>2. n - D \in Nat /\ c + (n - D) \in {next, next + 1}
    BY <1>1, <1>2, <1>6, <2>1
  <2>3. Add(seq(c), n - D) \in {seq(next), seq(next + 1)}
    <3>1. Add(seq(c), n - D) = seq(c + (n - D))
      BY <1>1, <2>2, AddToSeq
    <3> HIDE DEF next
    <3> QED BY <2>2, <3>1
  <2>4. Spans(D, n - D, Add(seq(c), n - D))
    BY <1>1, <1>2, <1>6, <2>1, <2>3
  <2> HIDE DEF Spans
  <2>5. span.cut = D /\ span.len = n - D /\ span.next = Add(seq(c), n - D)
    BY <1>1, <1>2, <1>3, <1>6
  <2>6. Spans(span.cut, span.len, span.next)
    BY <2>4, <2>5
  <2> QED BY <2>6 DEF Spans, SpanButOne, span
<1> QED BY <1>1, <1>2, <1>4, <1>5, <1>6

-----------------------------------------------------------------------------
(* The direction of a flow.                                                *)

\* There is a flow that no address is looked for in.
LEMMA AnyFlowType == AnyFlow \in Flow /\ AnyFlow.addrs = <<>>
<1>1. PICK a \in Addrs : TRUE
  BY AddrsAssumption
<1> DEFINE f == [src |-> a, dst |-> a, addrs |-> <<>>, within |-> [x \in Addrs |-> {x}]]
<1>2. <<>> \in [1 .. 0 -> Addrs]
  OBVIOUS
<1>3. f.addrs \in UNION {[1 .. k -> Addrs] : k \in 0 .. MaxAddrs}
  BY <1>2, AddrsAssumption
<1>4. f \in Flow
  BY <1>3 DEF Flow
<1> QED BY <1>4 DEF AnyFlow

\* The first address that is found in one of the ends is one of those found.
LEMMA FirstHitFound ==
  ASSUME NEW src, NEW dst, NEW m \in Nat, NEW S, NEW q \in [1 .. m -> S], NEW within
  PROVE  LET hits == {i \in DOMAIN q : q[i] \in within[src] \cup within[dst]}
         IN  /\ hits = {} => A!FirstHit(src, dst, q, within) = 0
             /\ hits # {} => A!FirstHit(src, dst, q, within) \in hits
<1> DEFINE hits == {i \in DOMAIN q : q[i] \in within[src] \cup within[dst]}
<1>1. hits \subseteq 1 .. m
  OBVIOUS
<1>2. A!FirstHit(src, dst, q, within) =
        IF hits = {} THEN 0 ELSE CHOOSE i \in hits : \A j \in hits : i <= j
  BY DEF A!FirstHit
<1>3. ASSUME hits # {} PROVE \E i \in hits : \A j \in hits : i <= j
  <2> HIDE DEF hits
  <2>1. hits \subseteq Nat
    BY <1>1
  <2>2. PICK i \in hits : \A j \in hits : ~ (<<j, i>> \in OpToRel(<, Nat))
    BY <1>3, <2>1, NatLessThanWellFounded, WFMin
  <2>3. ASSUME NEW j \in hits PROVE i <= j
    <3>1. i \in Nat /\ j \in Nat
      BY <2>1
    <3>2. ~ (j < i)
      BY <2>2, <3>1 DEF OpToRel
    <3> QED BY <3>1, <3>2
  <2> QED BY <2>3
<1> HIDE DEF hits
<1>4. hits # {} => A!FirstHit(src, dst, q, within) \in hits
  BY <1>2, <1>3
<1>5. hits = {} => A!FirstHit(src, dst, q, within) = 0
  BY <1>2
<1> QED BY <1>4, <1>5 DEF hits

\* Source and destination may be exchanged.
LEMMA FirstHitEither ==
  ASSUME NEW src, NEW dst, NEW q, NEW within
  PROVE  A!FirstHit(dst, src, q, within) = A!FirstHit(src, dst, q, within)
<1> DEFINE Hits(x, y) == {i \in DOMAIN q : q[i] \in within[x] \cup within[y]}
           First(H) == IF H = {} THEN 0 ELSE CHOOSE i \in H : \A j \in H : i <= j
<1>1. Hits(dst, src) = Hits(src, dst)
  OBVIOUS
<1>2. \A x, y : A!FirstHit(x, y, q, within) = First(Hits(x, y))
  BY DEF A!FirstHit
<1> HIDE DEF Hits, First
<1> QED BY <1>1, <1>2

\* Both ends are looked for in each address, so that the same one is found for
\* either flow; the end it is found in is the same unless it is found in both.
LEMMA Directions ==
  ASSUME flow \in Flow
  PROVE  DirectionsAgree
<1> DEFINE src == flow.src
           dst == flow.dst
           q == flow.addrs
           W == flow.within
           i == A!FirstHit(src, dst, q, W)
           hits == {j \in DOMAIN q : q[j] \in W[src] \cup W[dst]}
<1>1. PICK m \in 0 .. MaxAddrs : q \in [1 .. m -> Addrs]
  BY DEF Flow
<1>2. A!FirstHit(dst, src, q, W) = i
  BY FirstHitEither
<1>3. (hits = {} => i = 0) /\ (hits # {} => i \in hits)
  <2>1. m \in Nat
    BY AddrsAssumption
  <2> HIDE DEF src, dst, q, W
  <2> QED BY <1>1, <2>1, FirstHitFound
<1> SUFFICES ASSUME src # dst, \A j \in DOMAIN q : q[j] \notin W[src] \cap W[dst]
             PROVE  LET to == A!getInfo(src, dst, q, W)
                        from == A!getInfo(dst, src, q, W)
                    IN  to.conn = from.conn /\ (to.conn = A!NoEnds \/ to.type # from.type)
  BY DEF DirectionsAgree
<1>4. CASE i = 0
  <2>1. /\ A!distinguishStreamDrc(src, dst, q, W) = A!NoEnds
        /\ A!distinguishStreamDrc(dst, src, q, W) = A!NoEnds
    BY <1>2, <1>4 DEF A!distinguishStreamDrc
  <2> QED BY <2>1 DEF A!getInfo
<1>5. CASE i # 0
  <2>1. i \in DOMAIN q /\ (q[i] \in W[src] <=> q[i] \notin W[dst])
    BY <1>3, <1>5
  <2>2. A!distinguishStreamDrc(src, dst, q, W) =
          IF q[i] \in W[src] THEN [client |-> dst, server |-> src] ELSE [client |-> src, server |-> dst]
    BY <1>5 DEF A!distinguishStreamDrc
  <2>3. A!distinguishStreamDrc(dst, src, q, W) =
          IF q[i] \in W[dst] THEN [client |-> src, server |-> dst] ELSE [client |-> dst, server |-> src]
    BY <1>2, <1>5 DEF A!distinguishStreamDrc
  <2> HIDE DEF src, dst, q, W, i
  <2>4. A!distinguishStreamDrc(src, dst, q, W) = A!distinguishStreamDrc(dst, src, q, W)
    BY <2>1, <2>2, <2>3
  <2> DEFINE ends == A!distinguishStreamDrc(src, dst, q, W)
  <2>5. (ends.client = src \/ ends.client = dst)
    BY <2>2
  <2>6. (ends.client = src) # (ends.client = dst)
    BY <2>5 DEF src, dst
  <2> QED BY <2>4, <2>6 DEF A!getInfo
<1> QED BY <1>4, <1>5

-----------------------------------------------------------------------------
(* What the client's Locate method returns.  Its loop is a recursive       *)
(* function of the position, that is a fixed point; it has only one, so    *)
(* that it is enough to know one.                                          *)

\* One round of the loop at position i, f being what the rounds after it return.
Slice(q, delim, f, i) ==
  LET e   == ReadSlice(q, delim, i)
      len == e - i + 1
  IN  IF e = 0 THEN NotFound
      ELSE IF q[e] # "cr" THEN Counted(len + 1, f[e + 1])
      ELSE IF ~IsStart(q, i, e) THEN Counted(len + 2, f[e + 1])
      ELSE 0

Scans(q, delim, f) == f = [i \in 1 .. Len(q) + 1 |-> Slice(q, delim, f, i)]

\* The minimum of a set of natural numbers.
LEMMA MinFacts ==
  ASSUME NEW S \in SUBSET Nat, S # {}
  PROVE  Min(S) \in S /\ \A j \in S : Min(S) <= j
<1>1. \E i \in S : \A j \in S : i <= j
  <2>1. PICK i \in S : \A j \in S : ~ (<<j, i>> \in OpToRel(<, Nat))
    BY NatLessThanWellFounded, WFMin
  <2>2. ASSUME NEW j \in S PROVE i <= j
    <3>1. ~ (j < i)
      BY <2>1 DEF OpToRel
    <3> QED BY <3>1
  <2> QED BY <2>2
<1> QED BY <1>1 DEF Min

\* It is the only such number.
LEMMA MinIs ==
  ASSUME NEW S \in SUBSET Nat, NEW x \in S, \A j \in S : x <= j
  PROVE  Min(S) = x
<1>1. Min(S) \in S /\ Min(S) <= x
  BY MinFacts
<1>2. x <= Min(S) /\ Min(S) \in Nat /\ x \in Nat
  BY <1>1
<1> QED BY <1>1, <1>2

\* The maximum of a set, once it is known to have one.
LEMMA MaxIs ==
  ASSUME NEW S \in SUBSET Nat, NEW x \in S, \A j \in S : j <= x
  PROVE  Max(S) = x
<1>1. Max(S) \in S /\ Max(S) >= x
  <2>1. \E i \in S : \A j \in S : i >= j
    OBVIOUS
  <2>2. Max(S) \in S /\ \A j \in S : Max(S) >= j
    BY <2>1 DEF Max
  <2> QED BY <2>2
<1>2. Max(S) <= x /\ Max(S) \in Nat /\ x \in Nat
  BY <1>1
<1> QED BY <1>1, <1>2

\* A bounded set of natural numbers has a maximum.
LEMMA MaxFacts ==
  ASSUME NEW top \in Nat, NEW S \in SUBSET (0 .. top), S # {}
  PROVE  Max(S) \in S /\ \A j \in S : j <= Max(S)
<1> DEFINE T == {top - j : j \in S}
<1>1. T \in SUBSET Nat /\ T # {}
  OBVIOUS
<1>2. Min(T) \in T /\ \A t \in T : Min(T) <= t
  BY <1>1, MinFacts
<1>3. PICK x \in S : Min(T) = top - x
  BY <1>2
<1>4. ASSUME NEW j \in S PROVE j <= x
  <2>1. top - j \in T /\ top - x <= top - j
    BY <1>2, <1>3
  <2> QED BY <2>1
<1>5. Max(S) = x
  <2>1. S \in SUBSET Nat
    OBVIOUS
  <2> HIDE DEF T
  <2> QED BY <1>4, <2>1, MaxIs
<1> QED BY <1>4, <1>5

\* ReadSlice finds the first delimiter, if it is in the buffer.
LEMMA ReadSliceFacts ==
  ASSUME NEW q \in Seq(Bytes), NEW delim, NEW i \in 1 .. Len(q) + 1
  PROVE  LET e == ReadSlice(q, delim, i)
         IN  \/ e = 0 /\ \A j \in i .. Len(q) : j - i < BufferSize => q[j] # delim
             \/ /\ e \in i .. Len(q) /\ e - i < BufferSize /\ q[e] = delim
                /\ \A j \in i .. e - 1 : q[j] # delim
<1> DEFINE ends == {e \in i .. Len(q) : e - i < BufferSize /\ q[e] = delim}
           e == ReadSlice(q, delim, i)
<1>0. Len(q) \in Nat /\ BufferSize \in Nat
  BY LenProperties, BufferSizeAssumption
<1>1. ends \in SUBSET Nat
  BY <1>0
<1>2. e = IF ends = {} THEN 0 ELSE Min(ends)
  BY DEF ReadSlice, Min
<1> HIDE DEF e
<1>3. CASE ends = {}
  BY <1>2, <1>3 DEF e
<1>4. CASE ends # {}
  <2>1. e \in ends /\ \A j \in ends : e <= j
    <3> HIDE DEF ends
    <3> QED BY <1>1, <1>2, <1>4, MinFacts
  <2>2. ASSUME NEW j \in i .. e - 1 PROVE q[j] # delim
    <3>1. j \in i .. Len(q) /\ j - i < BufferSize /\ ~ (e <= j)
      BY <1>0, <2>1
    <3> QED BY <2>1, <3>1
  <2> QED BY <2>1, <2>2 DEF e
<1> QED BY <1>3, <1>4

\* The round at i depends on the rounds at later positions only.
LEMMA SliceDepends ==
  ASSUME NEW q \in Seq(Bytes), NEW delim, NEW i \in 1 .. Len(q) + 1, NEW f, NEW g,
         \A j \in i + 1 .. Len(q) + 1 : f[j] = g[j]
  PROVE  Slice(q, delim, f, i) = Slice(q, delim, g, i)
<1> DEFINE e == ReadSlice(q, delim, i)
<1>1. Len(q) \in Nat /\ (e = 0 \/ e \in i .. Len(q))
  BY LenProperties, ReadSliceFacts
<1> HIDE DEF e
<1>2. e = 0 \/ f[e + 1] = g[e + 1]
  BY <1>1
<1> QED BY <1>2 DEF Slice, e

\* The loop has one result only.
LEMMA OneScan ==
  ASSUME NEW q \in Seq(Bytes), NEW delim, NEW f, NEW g, Scans(q, delim, f), Scans(q, delim, g)
  PROVE  \A i \in 1 .. Len(q) + 1 : f[i] = g[i]
<1> DEFINE top == Len(q) + 1
           differ == {i \in 1 .. top : f[i] # g[i]}
<1>1. top \in Nat
  BY LenProperties
<1>2. \A i \in 1 .. top : f[i] = Slice(q, delim, f, i) /\ g[i] = Slice(q, delim, g, i)
  BY DEF Scans
<1>3. CASE differ = {}
  BY <1>3
<1>4. CASE differ # {}
  <2>1. differ \in SUBSET (0 .. top)
    BY <1>1
  <2>2. Max(differ) \in differ /\ \A j \in differ : j <= Max(differ)
    <3> HIDE DEF differ, top
    <3> QED BY <1>1, <1>4, <2>1, MaxFacts
  <2>3. PICK i \in differ : \A j \in differ : j <= i
    BY <2>2
  <2>4. ASSUME NEW j \in i + 1 .. top PROVE f[j] = g[j]
    <3>1. j \in 1 .. top /\ ~ (j <= i)
      BY <1>1, <2>3
    <3> QED BY <2>3, <3>1
  <2>5. Slice(q, delim, f, i) = Slice(q, delim, g, i)
    BY <2>4, SliceDepends
  <2> QED BY <1>2, <2>3, <2>5
<1> QED BY <1>3, <1>4

\* What Locate returns is the first value of its scan.
LEMMA LocateScans ==
  ASSUME NEW q \in Seq(Bytes), NEW delim, NEW g, Scans(q, delim, g)
  PROVE  Locate(q, delim) = g[1]
<1> DEFINE f == CHOOSE h : Scans(q, delim, h)
<1>1. Locate(q, delim) = f[1]
  <2>1. Locate(q, delim) =
          (CHOOSE h : h = [i \in 1 .. Len(q) + 1 |-> Slice(q, delim, h, i)])[1]
    BY SMT DEF Locate, Slice
  <2> QED BY <2>1 DEF Scans
<1>2. Scans(q, delim, f)
  OBVIOUS
<1> HIDE DEF f
<1>3. 1 \in 1 .. Len(q) + 1
  BY LenProperties
<1> QED BY <1>1, <1>2, <1>3, OneScan

\* The starts at or after i that a carriage return follows, and the carriage
\* returns between i and the first of them.
Starts(q, i) == {j \in i .. Len(q) : q[j] = "start" /\ \E e \in j .. Len(q) : q[e] = "cr"}

Skipped(q, i) == {e \in i .. Min(Starts(q, i)) - 1 : q[e] = "cr"}

\* The count the client's method returns from i on: the bytes up to the last
\* carriage return it skipped, and two for each.
Count(q, i) ==
  IF Starts(q, i) = {} THEN NotFound
  ELSE IF Skipped(q, i) = {} THEN 0
  ELSE (Max(Skipped(q, i)) - i + 1) + 2 * Cardinality(Skipped(q, i))

\* A start is found in the line that it is in.
LEMMA CountHere ==
  ASSUME NEW q \in Seq(Bytes), NEW i \in 1 .. Len(q) + 1, NEW e \in i .. Len(q), q[e] = "cr",
         \A j \in i .. e - 1 : q[j] # "cr", IsStart(q, i, e)
  PROVE  Count(q, i) = 0
<1>0. Len(q) \in Nat
  BY LenProperties
<1>1. PICK j \in i .. e - 1 : q[j] = "start"
  BY DEF IsStart
<1>2. j \in Starts(q, i)
  BY <1>0, <1>1 DEF Starts
<1>3. Starts(q, i) \in SUBSET Nat
  BY <1>0 DEF Starts
<1>4. Min(Starts(q, i)) \in Nat /\ Min(Starts(q, i)) <= j
  BY <1>2, <1>3, MinFacts
<1>5. Skipped(q, i) = {}
  BY <1>0, <1>4 DEF Skipped
<1> QED BY <1>2, <1>5 DEF Count

\* A line without a start is counted with the lines after it.
LEMMA CountNext ==
  ASSUME NEW q \in Seq(Bytes), NEW i \in 1 .. Len(q) + 1, NEW e \in i .. Len(q), q[e] = "cr",
         \A j \in i .. e - 1 : q[j] # "cr", ~ IsStart(q, i, e)
  PROVE  Count(q, i) = Counted((e - i + 1) + 2, Count(q, e + 1))
<1> DEFINE S == Starts(q, e + 1)
           P == Skipped(q, e + 1)
           R == Skipped(q, i)
           m == Min(S)
<1>0. Len(q) \in Nat /\ e \in Nat /\ i \in Nat /\ i <= e /\ NotFound = -1
  BY LenProperties DEF NotFound
<1>1. Starts(q, i) = S
  <2>1. \A j \in i .. e - 1 : q[j] # "start"
    BY DEF IsStart
  <2>2. ASSUME NEW j \in i .. Len(q), q[j] = "start" PROVE j \in e + 1 .. Len(q)
    <3>1. j # e
      BY <2>2
    <3>2. ~ (j \in i .. e - 1)
      BY <2>1, <2>2
    <3> QED BY <1>0, <3>1, <3>2
  <2> QED BY <1>0, <2>2 DEF Starts
<1>2. CASE S = {}
  BY <1>0, <1>1, <1>2 DEF Count, Counted
<1>3. CASE S # {}
  <2>1. S \in SUBSET Nat
    BY <1>0 DEF Starts
  <2>2. m \in e + 1 .. Len(q) /\ q[m] = "start"
    <3>1. m \in S
      BY <1>3, <2>1, MinFacts
    <3> QED BY <3>1 DEF Starts
  <2>3. R = {x \in i .. m - 1 : q[x] = "cr"} /\ P = {x \in e + 1 .. m - 1 : q[x] = "cr"}
    BY <1>1 DEF Skipped
  <2>4. R = P \cup {e} /\ e \notin P /\ P \in SUBSET (e + 1 .. m - 1)
    <3>1. \A x \in i .. m - 1 : q[x] = "cr" => x = e \/ x \in e + 1 .. m - 1
      BY <1>0, <2>2
    <3>2. e \in i .. m - 1
      BY <1>0, <2>2
    <3> HIDE DEF R, P, m
    <3> QED BY <1>0, <2>2, <2>3, <3>1, <3>2
  <2>5. IsFiniteSet(P) /\ Cardinality(P) \in Nat /\ Cardinality(R) = Cardinality(P) + 1
    <3> HIDE DEF P, R, m
    <3>1. IsFiniteSet(P)
      <4>1. IsFiniteSet(e + 1 .. m - 1)
        BY <1>0, <2>2, FS_Interval
      <4> QED BY <2>4, <4>1, FS_Subset
    <3> QED BY <2>4, <3>1, FS_CardinalityType, FS_AddElement
  <2>6. Count(q, i) = (Max(R) - i + 1) + 2 * Cardinality(R)
    <3>1. R # {}
      BY <2>4
    <3> QED BY <1>1, <1>3, <3>1 DEF Count
  <2>7. Count(q, e + 1) = IF P = {} THEN 0 ELSE (Max(P) - (e + 1) + 1) + 2 * Cardinality(P)
    BY <1>3 DEF Count
  <2> HIDE DEF S, P, R, m
  <2>8. R \in SUBSET Nat
    BY <1>0, <2>2, <2>4
  <2>9. CASE P = {}
    <3>1. R = {e} /\ Cardinality(P) = 0
      BY <2>4, <2>9, FS_EmptySet
    <3>2. Max(R) = e
      BY <2>8, <3>1, <1>0, MaxIs
    <3> QED BY <1>0, <2>5, <2>6, <2>7, <2>9, <3>1, <3>2 DEF Counted
  <2>10. CASE P # {}
    <3>1. Max(P) \in P /\ \A j \in P : j <= Max(P)
      <4>1. P \in SUBSET (0 .. Len(q))
        BY <1>0, <2>2, <2>4
      <4> QED BY <1>0, <2>10, <4>1, MaxFacts
    <3>2. Max(P) \in Nat /\ Max(P) > e
      <4>1. Max(P) \in e + 1 .. m - 1
        BY <2>4, <3>1
      <4> QED BY <1>0, <4>1
    <3>3. Max(R) = Max(P)
      <4>1. Max(P) \in R /\ \A j \in R : j <= Max(P)
        BY <1>0, <2>4, <3>1, <3>2
      <4> QED BY <2>8, <4>1, MaxIs
    <3>4. Count(q, e + 1) # NotFound
      BY <1>0, <2>5, <2>7, <2>10, <3>2
    <3>5. Counted((e - i + 1) + 2, Count(q, e + 1)) = (e - i + 1) + 2 + Count(q, e + 1)
      BY <3>4 DEF Counted
    <3>6. Count(q, e + 1) = (Max(P) - (e + 1) + 1) + 2 * Cardinality(P)
      BY <2>7, <2>10
    <3>7. Count(q, i) = (Max(P) - i + 1) + 2 * (Cardinality(P) + 1)
      BY <2>5, <2>6, <3>3
    <3>8. e \in Int /\ i \in Int /\ Max(P) \in Int /\ Cardinality(P) \in Int
      BY <1>0, <2>5, <3>2
    <3> DEFINE x == Max(P)
               k == Cardinality(P)
    <3>9. x \in Int /\ k \in Int
      BY <3>8
    <3> HIDE DEF x, k
    <3>10. (x - i + 1) + 2 * (k + 1) = (e - i + 1) + 2 + ((x - (e + 1) + 1) + 2 * k)
      BY <3>8, <3>9
    <3> USE DEF x, k
    <3> QED BY <3>5, <3>6, <3>7, <3>10, Zenon
  <2> QED BY <2>9, <2>10
<1> QED BY <1>2, <1>3

\* Position e ends a line in which a start is found by the rounds from i on.
Reaches(q, i, e) ==
  /\ \A k \in {i - 1} \cup {d \in i .. e - 1 : q[d] = "cr"} :
       \E f \in k + 1 .. k + BufferSize : f <= Len(q) /\ q[f] = "cr"
  /\ IsStart(q, i, e)

Found(q, i) == \E e \in i .. Len(q) : q[e] = "cr" /\ Reaches(q, i, e)

\* A line without a start is passed over.
LEMMA FoundNext ==
  ASSUME NEW q \in Seq(Bytes), NEW i \in 1 .. Len(q) + 1, NEW e \in i .. Len(q), q[e] = "cr",
         e - i < BufferSize, \A j \in i .. e - 1 : q[j] # "cr", ~ IsStart(q, i, e)
  PROVE  Found(q, i) <=> Found(q, e + 1)
<1>0. Len(q) \in Nat /\ e \in Nat /\ i \in Nat /\ i >= 1 /\ BufferSize \in Nat
  BY LenProperties, BufferSizeAssumption
<1>1. ASSUME NEW d \in i .. Len(q), q[d] = "cr", Reaches(q, i, d)
      PROVE  d \in e + 1 .. Len(q) /\ Reaches(q, e + 1, d)
  <2>1. d >= e
    BY <1>0, <1>1
  <2>2. d # e
    BY <1>1 DEF Reaches
  <2>3. PICK j \in i .. d - 1 : q[j] = "start"
    BY <1>1 DEF Reaches, IsStart
  <2>4. j \in e + 1 .. d - 1
    <3>1. j # e
      BY <2>3
    <3>2. ~ (j \in i .. e - 1)
      BY <2>3 DEF IsStart
    <3> QED BY <1>0, <2>3, <3>1, <3>2
  <2>5. IsStart(q, e + 1, d)
    BY <2>3, <2>4 DEF IsStart
  <2>6. ASSUME NEW k \in {e} \cup {x \in e + 1 .. d - 1 : q[x] = "cr"}
        PROVE  \E f \in k + 1 .. k + BufferSize : f <= Len(q) /\ q[f] = "cr"
    <3>1. k \in {x \in i .. d - 1 : q[x] = "cr"}
      BY <1>0, <2>1, <2>2
    <3> QED BY <1>1, <3>1 DEF Reaches
  <2>7. (e + 1) - 1 = e
    BY <1>0
  <2> QED BY <1>0, <2>1, <2>2, <2>5, <2>6, <2>7 DEF Reaches
<1>2. ASSUME NEW d \in e + 1 .. Len(q), q[d] = "cr", Reaches(q, e + 1, d)
      PROVE  d \in i .. Len(q) /\ Reaches(q, i, d)
  <2>1. PICK j \in e + 1 .. d - 1 : q[j] = "start"
    BY <1>2 DEF Reaches, IsStart
  <2>2. IsStart(q, i, d)
    <3>1. j \in i .. d - 1
      BY <1>0, <2>1
    <3> QED BY <2>1, <3>1 DEF IsStart
  <2>3. ASSUME NEW k \in {i - 1} \cup {x \in i .. d - 1 : q[x] = "cr"}
        PROVE  \E f \in k + 1 .. k + BufferSize : f <= Len(q) /\ q[f] = "cr"
    <3>1. CASE k = i - 1
      <4>1. e \in k + 1 .. k + BufferSize /\ e <= Len(q)
        BY <1>0, <3>1
      <4> QED BY <4>1
    <3>2. CASE k # i - 1
      <4>1. k \in i .. d - 1 /\ q[k] = "cr"
        BY <3>2
      <4>2. ~ (k \in i .. e - 1)
        BY <4>1
      <4>3. k \in {(e + 1) - 1} \cup {x \in e + 1 .. d - 1 : q[x] = "cr"}
        BY <1>0, <4>1, <4>2
      <4> QED BY <1>2, <4>3 DEF Reaches
    <3> QED BY <3>1, <3>2
  <2>4. d \in i .. Len(q)
    BY <1>0
  <2> QED BY <2>2, <2>3, <2>4 DEF Reaches
<1>3. Found(q, i) => Found(q, e + 1)
  BY <1>1 DEF Found
<1>4. Found(q, e + 1) => Found(q, i)
  BY <1>2 DEF Found
<1> QED BY <1>3, <1>4

\* A line with a start is found, one that is too long ends the search.
LEMMA FoundHere ==
  ASSUME NEW q \in Seq(Bytes), NEW i \in 1 .. Len(q) + 1
  PROVE  /\ \A e \in i .. Len(q) :
              q[e] = "cr" /\ e - i < BufferSize /\ (\A j \in i .. e - 1 : q[j] # "cr")
                /\ IsStart(q, i, e) => Found(q, i)
         /\ (\A j \in i .. Len(q) : j - i < BufferSize => q[j] # "cr") => ~ Found(q, i)
<1>0. Len(q) \in Nat /\ i \in Nat /\ i >= 1 /\ BufferSize \in Nat
  BY LenProperties, BufferSizeAssumption
<1>1. ASSUME NEW e \in i .. Len(q), q[e] = "cr", e - i < BufferSize,
             \A j \in i .. e - 1 : q[j] # "cr", IsStart(q, i, e)
      PROVE  Found(q, i)
  <2>1. e \in (i - 1) + 1 .. (i - 1) + BufferSize /\ e <= Len(q)
    BY <1>0, <1>1
  <2>2. {i - 1} \cup {d \in i .. e - 1 : q[d] = "cr"} = {i - 1}
    BY <1>1
  <2>3. Reaches(q, i, e)
    BY <1>1, <2>1, <2>2 DEF Reaches
  <2> QED BY <1>1, <2>3 DEF Found
<1>2. ASSUME \A j \in i .. Len(q) : j - i < BufferSize => q[j] # "cr", Found(q, i)
      PROVE  FALSE
  <2>1. PICK f \in (i - 1) + 1 .. (i - 1) + BufferSize : f <= Len(q) /\ q[f] = "cr"
    BY <1>2 DEF Found, Reaches
  <2>2. f \in i .. Len(q) /\ f - i < BufferSize
    BY <1>0, <2>1
  <2> QED BY <1>2, <2>1, <2>2
<1> QED BY <1>1, <1>2

\* What the client's method returns, for every stream, well-formed or not.
LEMMA LocateClient ==
  ASSUME NEW q \in Seq(Bytes)
  PROVE  LocateToValidStartInC2SStream(q) = IF Found(q, 1) THEN Count(q, 1) ELSE NotFound
<1> DEFINE Result(i) == IF Found(q, i) THEN Count(q, i) ELSE NotFound
           g == [i \in 1 .. Len(q) + 1 |-> Result(i)]
<1>0. Len(q) \in Nat
  BY LenProperties
<1>1. ASSUME NEW i \in 1 .. Len(q) + 1 PROVE Slice(q, "cr", g, i) = Result(i)
  <2> DEFINE e == ReadSlice(q, "cr", i)
  <2>1. \/ e = 0 /\ \A j \in i .. Len(q) : j - i < BufferSize => q[j] # "cr"
        \/ /\ e \in i .. Len(q) /\ e - i < BufferSize /\ q[e] = "cr"
           /\ \A j \in i .. e - 1 : q[j] # "cr"
    BY ReadSliceFacts
  <2>2. e = 0 \/ g[e + 1] = Result(e + 1)
    <3> HIDE DEF e
    <3>1. e = 0 \/ e + 1 \in 1 .. Len(q) + 1
      BY <1>0, <2>1
    <3> HIDE DEF Result
    <3> QED BY <3>1
  <2> HIDE DEF g
  <2>3. Slice(q, "cr", g, i) =
          IF e = 0 THEN NotFound
          ELSE IF q[e] # "cr" THEN Counted((e - i + 1) + 1, g[e + 1])
          ELSE IF ~IsStart(q, i, e) THEN Counted((e - i + 1) + 2, g[e + 1])
          ELSE 0
    BY DEF Slice
  <2> HIDE DEF e
  <2>4. CASE e = 0
    <3>1. ~ Found(q, i)
      BY <1>0, <2>1, <2>4, FoundHere
    <3> QED BY <2>3, <2>4, <3>1
  <2>5. CASE e # 0 /\ IsStart(q, i, e)
    <3>1. Found(q, i)
      BY <2>1, <2>5, FoundHere
    <3>2. Count(q, i) = 0
      BY <2>1, <2>5, CountHere
    <3> QED BY <2>1, <2>3, <2>5, <3>1, <3>2
  <2>6. CASE e # 0 /\ ~ IsStart(q, i, e)
    <3>1. Count(q, i) = Counted((e - i + 1) + 2, Count(q, e + 1))
      BY <2>1, <2>6, CountNext
    <3>2. Found(q, i) <=> Found(q, e + 1)
      BY <2>1, <2>6, FoundNext
    <3>3. Slice(q, "cr", g, i) = Counted((e - i + 1) + 2, Result(e + 1))
      BY <2>1, <2>2, <2>3, <2>6
    <3> QED BY <3>1, <3>2, <3>3 DEF Counted
  <2> QED BY <2>4, <2>5, <2>6
<1>2. g = [i \in 1 .. Len(q) + 1 |-> Slice(q, "cr", g, i)]
  BY <1>1
<1>3. Scans(q, "cr", g)
  BY <1>2, Zenon DEF Scans
<1>4. g[1] = Result(1)
  BY <1>0
<1> HIDE DEF g
<1> QED BY <1>3, <1>4, LocateScans DEF LocateToValidStartInC2SStream

\* A count is a number, unless there is no start.
LEMMA CountCounts ==
  ASSUME NEW q \in Seq(Bytes), Starts(q, 1) # {}
  PROVE  Count(q, 1) # NotFound
<1> DEFINE P == Skipped(q, 1)
<1>0. Len(q) \in Nat /\ NotFound = -1
  BY LenProperties DEF NotFound
<1>1. CASE P = {}
  BY <1>0, <1>1 DEF Count
<1>2. CASE P # {}
  <2>1. Min(Starts(q, 1)) \in 1 .. Len(q)
    <3>1. Starts(q, 1) \in SUBSET Nat
      BY <1>0 DEF Starts
    <3>2. Min(Starts(q, 1)) \in Starts(q, 1)
      BY <3>1, MinFacts
    <3> QED BY <3>2 DEF Starts
  <2>2. P \in SUBSET (0 .. Len(q)) /\ \A x \in P : x >= 1
    BY <1>0, <2>1 DEF Skipped
  <2>3. Max(P) \in P
    <3> HIDE DEF P
    <3> QED BY <1>0, <1>2, <2>2, MaxFacts
  <2>4. Cardinality(P) \in Nat
    <3>1. IsFiniteSet(0 .. Len(q))
      BY <1>0, FS_Interval
    <3> HIDE DEF P
    <3>2. IsFiniteSet(P)
      BY <2>2, <3>1, FS_Subset
    <3> QED BY <3>2, FS_CardinalityType
  <2>5. Count(q, 1) = (Max(P) - 1 + 1) + 2 * Cardinality(P)
    BY <1>2 DEF Count
  <2> DEFINE x == Max(P)
             k == Cardinality(P)
  <2>6. x \in Int /\ x >= 1 /\ k \in Nat
    BY <2>2, <2>3, <2>4
  <2> HIDE DEF P, x, k
  <2>7. (x - 1 + 1) + 2 * k >= 1
    BY <2>6
  <2> QED BY <1>0, <2>5, <2>7 DEF x, k
<1> QED BY <1>1, <1>2

\* What is found is what the property asks for.
LEMMA Located ==
  ASSUME b \in Seq(Bytes)
  PROVE  LocateFindsStart
<1>0. Len(b) \in Nat /\ DOMAIN b = 1 .. Len(b) /\ BufferSize \in Nat
  BY LenProperties, BufferSizeAssumption
<1>1. ASSUME NEW e \in LineEnds
      PROVE  AllFit(e) /\ (\E i \in 1 .. e - 1 : b[i] = "start") <=> Reaches(b, 1, e)
  <2>1. e \in 1 .. Len(b) /\ b[e] = "cr"
    BY <1>0 DEF LineEnds
  <2>2. {0} \cup {d \in LineEnds : d < e} = {1 - 1} \cup {d \in 1 .. e - 1 : b[d] = "cr"}
    BY <1>0, <2>1 DEF LineEnds
  <2>3. ASSUME NEW k \in {1 - 1} \cup {d \in 1 .. e - 1 : b[d] = "cr"}
        PROVE  (\E f \in LineEnds : f \in k + 1 .. k + BufferSize) <=>
               (\E f \in k + 1 .. k + BufferSize : f <= Len(b) /\ b[f] = "cr")
    <3>1. k \in Nat
      BY <2>1
    <3> QED BY <1>0, <3>1 DEF LineEnds
  <2> QED BY <2>2, <2>3 DEF AllFit, Reaches, IsStart
<1>2. (\E e \in LineEnds : AllFit(e) /\ \E i \in 1 .. e - 1 : b[i] = "start") <=> Found(b, 1)
  <2>1. \A e : e \in LineEnds <=> e \in 1 .. Len(b) /\ b[e] = "cr"
    BY <1>0 DEF LineEnds
  <2> QED BY <1>1, <2>1 DEF Found
<1>3. Found(b, 1) => Count(b, 1) # NotFound
  <2> SUFFICES ASSUME Found(b, 1) PROVE Starts(b, 1) # {}
    BY CountCounts
  <2>1. PICK e \in 1 .. Len(b) : b[e] = "cr" /\ IsStart(b, 1, e)
    BY DEF Found, Reaches
  <2>2. PICK j \in 1 .. e - 1 : b[j] = "start"
    BY <2>1 DEF IsStart
  <2>3. j \in 1 .. Len(b) /\ e \in j .. Len(b)
    BY <1>0, <2>1, <2>2
  <2> QED BY <2>1, <2>2, <2>3 DEF Starts
<1>4. LocateToValidStartInC2SStream(b) = IF Found(b, 1) THEN Count(b, 1) ELSE NotFound
  BY LocateClient
<1> QED BY <1>2, <1>3, <1>4 DEF LocateFindsStart

-----------------------------------------------------------------------------
(* For all inputs.                                                         *)

\* The behaviours do not change their inputs.
LEMMA InputsInvariant == OperatorsSpec => []Inputs
<1>1. OperatorsInit => Inputs
  <2> SUFFICES ASSUME OperatorsInit PROVE Inputs
    OBVIOUS
  <2>1. Positions /\ flow \in Flow
    BY AnyFlowType DEF OperatorsInit, Positions
  <2>2. b \in Seq(Bytes)
    <3>1. CASE b = <<>>
      BY <3>1
    <3>2. ASSUME NEW k \in 1 .. MaxBytes, b \in [1 .. k -> Bytes] PROVE b \in Seq(Bytes)
      BY <3>2, BytesAssumption
    <3> QED BY <3>1, <3>2 DEF OperatorsInit
  <2> QED BY <2>1, <2>2 DEF Inputs
<1>2. Inputs /\ UNCHANGED vars => Inputs'
  BY DEF Inputs, Positions, Init, vars
<1> QED BY <1>1, <1>2, PTL DEF OperatorsSpec

\* Difference is the distance in the stream of two positions at most a quarter
\* of the sequence space apart, one short of it across the wrap-around.
THEOREM DistanceIsButOne == OperatorsSpec => []DistanceButOne
<1>1. Inputs => DistanceButOne
  BY Distance DEF Inputs
<1> QED BY <1>1, InputsInvariant, PTL

\* byteSpan sends the bytes of a segment that were not received, in full and
\* no others, and moves the expected position behind them, unless the numbers
\* wrap around in between.
THEOREM SpanIsExact == OperatorsSpec => []SpanSendsTheRest
<1>1. Inputs => SpanSendsTheRest
  BY SpanExact DEF Inputs
<1> QED BY <1>1, InputsInvariant, PTL

\* byteSpan never cuts a byte that is due and never sends more than one byte again,
\* and the number it expects then is at most one off, with or without a wrap-around.
THEOREM SpanIsExactButOne == OperatorsSpec => []SpanButOne
<1>1. Inputs => SpanButOne
  BY SpanNearlyExact DEF Inputs
<1> QED BY <1>1, InputsInvariant, PTL

\* The two flows of a connection find the same client and server, whatever the
\* addresses and whichever contain which as strings.
THEOREM BothFlowsAgree == OperatorsSpec => []DirectionsAgree
<1>1. Inputs => DirectionsAgree
  BY Directions DEF Inputs
<1> QED BY <1>1, InputsInvariant, PTL

\* The client's Locate method finds a start if there is one, for streams, lines
\* and buffers of any length, and finds none if a line before it does not fit.
THEOREM LocateIsComplete == OperatorsSpec => []LocateFindsStart
<1>1. Inputs => LocateFindsStart
  BY Located DEF Inputs
<1> QED BY <1>1, InputsInvariant, PTL

=============================================================================
