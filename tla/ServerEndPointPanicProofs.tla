---------------------- MODULE ServerEndPointPanicProofs ----------------------
(***************************************************************************)
(* Proof that no step of a ServerEndPoint panics, for any connections,     *)
(* decoders, registries and numbers of bytes.  It rests on the invariants  *)
(* of ServerEndPointProofs: a decoder that has found its start was given   *)
(* the bytes it counts, so there is a reader; and nobody else has found    *)
(* that stream valid, so its cache still holds them when SeekTo cuts it.   *)
(***************************************************************************)
EXTENDS ServerEndPointProofs

-----------------------------------------------------------------------------
(* What was taken and given.                                               *)

\* No decoder was given more than was taken of a stream, and a stream that gave
\* it bytes has a reader.
Limited(x) ==
  /\ taken[x] <= arrived[x] /\ arrived[x] <= MaxBytes[x]
  /\ Len(cache[x]) <= taken[x]
  /\ \A g \in Decoders :
       /\ Len(given[g][x]) = index[x][g] /\ index[x][g] <= taken[x]
       /\ Writes(g, x) => Len(written[g]) <= taken[x]
       /\ given[g][x] # <<>> => ready[x]

AllLimited == \A x \in Streams : Limited(x)

LEMMA LimitedKept ==
  ASSUME NEW x \in Streams, Limited(x),
         arrived'[x] = arrived[x], cache'[x] = cache[x], taken'[x] = taken[x], ready[x] => ready'[x],
         \A g \in Decoders :
           /\ given'[g][x] = given[g][x] /\ index'[x][g] = index[x][g]
           /\ Writes(g, x)' => Writes(g, x) /\ written'[g] = written[g]
  PROVE  Limited(x)'
<1> HIDE DEF Writes
<1> QED BY DEF Limited

LEMMA Amounts ==
  ASSUME Typed, NEW x \in Streams, NEW h \in Decoders
  PROVE  /\ index[x][h] \in Nat /\ written[h] \in Seq(Nat) /\ given[h][x] \in Seq(Nat)
         /\ Len(written[h]) \in Nat /\ Len(given[h][x]) \in Nat
<1>1. h \in Goroutines
  BY Kinds
<1>2. index[x][h] \in Nat /\ written[h] \in Seq(Nat) /\ given[h][x] \in Seq(Nat)
  BY <1>1 DEF Typed, ReaderTypes
<1> QED BY <1>2

LEMMA Streamed ==
  ASSUME Typed, NEW x \in Streams
  PROVE  /\ cache[x] \in Seq(Nat) /\ Len(cache[x]) \in Nat
         /\ taken[x] \in Nat /\ arrived[x] \in Nat /\ MaxBytes[x] \in Nat
<1>1. cache[x] \in Seq(Nat) /\ taken[x] \in Nat /\ arrived[x] \in Nat /\ MaxBytes[x] \in Nat
  BY Kinds DEF Typed, ReaderTypes
<1> QED BY <1>1

LEMMA LimitedReadStep ==
  ASSUME Typed, Bounded, AllLimited, NEW g \in Goroutines, ReadStep(g), UNCHANGED ready,
         NEW x \in Streams
  PROVE  Limited(x)'
<1>0. /\ Limited(x)
      /\ pc \in [Goroutines -> Labels] /\ on \in [Goroutines -> Streams] /\ on[g] \in Streams
      /\ cache \in [Streams -> Seq(Nat)] /\ taken \in [Streams -> Nat] /\ arrived \in [Streams -> Nat]
      /\ written \in [Goroutines -> Seq(Nat)] /\ given \in [Goroutines -> [Streams -> Seq(Nat)]]
      /\ index \in [Streams -> [Goroutines -> Nat]] /\ MaxBytes \in [Streams -> Nat]
  BY Kinds DEF AllLimited, Typed, ControlTypes, ReaderTypes
<1>a. Decoders \subseteq Goroutines /\ Parsers = Conns /\ Decoders \cap Conns = {}
  BY Kinds
<1>c. UNCHANGED <<arrived, on>> /\ pc[g] \notin {"sought"} /\ pc'[g] \notin {"sought"}
  BY <1>0 DEF ReadStep, Lock, ConcurrentReadCache, ConcurrentReadTake, ConcurrentReadAppend, ReadCache,
     ReadTake, ReadEOF, AtEnd, InReader, ReceiveInterrupt, Returns, sourceVars, At, Goes
<1>d. \A h \in Goroutines : h # g => pc'[h] = pc[h] /\ written'[h] = written[h]
  BY <1>0 DEF ReadStep, Lock, ConcurrentReadCache, ConcurrentReadTake, ConcurrentReadAppend, ReadCache,
     ReadTake, ReadEOF, AtEnd, InReader, ReceiveInterrupt, Returns, Goes
<1>e. \A h \in Decoders : h # g => (Writes(h, x)' <=> Writes(h, x)) /\ written'[h] = written[h]
  BY <1>a, <1>c, <1>d DEF Writes, Appends, Seeks
<1>f. pc'[g] # "append" \/ on[g] # x => ~Writes(g, x)'
  BY <1>c DEF Writes, Appends, Seeks
<1>1. CASE Lock(g) \/ ReadEOF(g) \/ ReceiveInterrupt(g)
  <2>1. UNCHANGED <<cache, taken, index, given, written>> /\ pc'[g] # "append"
    BY <1>0, <1>1 DEF Lock, ReadEOF, AtEnd, InReader, ReceiveInterrupt, At, Goes
  <2> QED BY <1>0, <1>c, <1>e, <1>f, <2>1, LimitedKept
<1>2. CASE ConcurrentReadCache(g)
  <2>1. PICK n \in DOMAIN Unread(g) :
          /\ Gives(g, SubSeq(Unread(g), 1, n))
          /\ index' = [index EXCEPT ![on[g]][g] = @ + n]
    BY <1>2 DEF ConcurrentReadCache
  <2>2. /\ g \in Decoders /\ pc'[g] # "append" /\ UNCHANGED <<cache, taken, written>>
        /\ ready[on[g]]
    BY <1>0, <1>2 DEF ConcurrentReadCache, Returns, Goes, waitReaderReady
  <2> DEFINE s == SubSeq(Unread(g), 1, n)
             m == index[on[g]][g]
  <2>4. n \in Nat /\ n <= Len(Unread(g)) /\ s \in Seq(Nat) /\ Len(s) = n /\ n >= 1
    BY <1>0, FirstUnread, UnreadFacts
  <2>5. /\ given'[g][on[g]] = given[g][on[g]] \o s
        /\ \A h \in Goroutines, y \in Streams : h # g \/ y # on[g] => given'[h][y] = given[h][y]
    BY <1>0, <2>1, <2>4, GivesTypes
  <2>6. /\ index'[on[g]][g] = m + n
        /\ \A h \in Goroutines, y \in Streams : h # g \/ y # on[g] => index'[y][h] = index[y][h]
    BY <1>0, <2>1, <2>4, IndexTypes
  <2>7. CASE on[g] # x
    BY <1>0, <1>a, <1>c, <1>e, <1>f, <2>2, <2>5, <2>6, <2>7, LimitedKept
  <2>8. CASE on[g] = x
    <3>0. m = index[x][g]
      BY <2>8
    <3> HIDE DEF s, m
    <3>1. /\ m \in Nat /\ Len(cache[x]) \in Nat /\ Len(Unread(g)) \in Nat
          /\ Len(Unread(g)) = IF m <= Len(cache[x]) THEN Len(cache[x]) - m ELSE 0
      BY <1>0, <2>2, <2>8, <3>0, UnreadOfDecoder
    <3>2. m + n <= Len(cache[x])
      BY <2>4, <3>1
    <3>3. /\ Len(cache[x]) <= taken[x] /\ Len(given[g][x]) = m /\ given[g][x] \in Seq(Nat)
          /\ taken[x] \in Nat
      BY <1>0, <1>a, <2>2, <3>0 DEF Limited
    <3>4. Len(given'[g][x]) = m + n /\ index'[x][g] = m + n /\ m + n <= taken[x]
      <4>1. Len(given[g][x] \o s) = m + n
        BY <2>4, <3>3, Concats
      <4>2. given'[g][x] = given[g][x] \o s
        BY <2>5, <2>8
      <4>3. index'[x][g] = m + n
        BY <2>6, <2>8
      <4>4. m + n <= taken[x]
        BY <2>4, <3>1, <3>2, <3>3
      <4> QED BY <4>1, <4>2, <4>3, <4>4
    <3>5. \A h \in Decoders : h # g => given'[h][x] = given[h][x] /\ index'[x][h] = index[x][h]
      BY <1>a, <2>5, <2>6
    <3>6. ready'[x]
      BY <2>2, <2>8
    <3>7. ~Writes(g, x)'
      BY <1>f, <2>2
    <3> HIDE DEF Writes
    <3> QED BY <1>0, <1>c, <1>e, <2>2, <3>4, <3>5, <3>6, <3>7 DEF Limited
  <2> QED BY <2>7, <2>8
<1>3. CASE ReadCache(g) \/ ReadTake(g)
  <2>1. g \in Conns /\ g \notin Decoders /\ UNCHANGED <<index, written>>
    BY <1>3, <1>a DEF ReadCache, ReadTake
  <2>2. \A h \in Decoders : given'[h] = given[h]
    <3>1. PICK s : Gives(g, s)
      BY <1>3 DEF ReadCache, ReadTake
    <3> DEFINE f == [given[g] EXCEPT ![on[g]] = given[g][on[g]] \o s]
    <3>2. given' = [given EXCEPT ![g] = f]
      BY <3>1 DEF Gives
    <3> HIDE DEF f
    <3> QED BY <1>0, <1>a, <2>1, <3>2
  <2>3. /\ taken'[x] >= taken[x] /\ taken'[x] <= arrived[x] /\ Len(cache'[x]) <= Len(cache[x])
        /\ taken'[x] \in Nat /\ Len(cache'[x]) \in Nat
    <3>1. CASE ReadCache(g)
      <4>1. PICK n \in DOMAIN Unread(g) : cache' = [cache EXCEPT ![on[g]] = SubSeq(@, n + 1, Len(@))]
        BY <3>1 DEF ReadCache
      <4>2. UNCHANGED taken
        BY <3>1 DEF ReadCache
      <4>3. CASE on[g] # x
        BY <1>0, <4>1, <4>2, <4>3 DEF Limited
      <4>4. CASE on[g] = x
        <5>1. n \in Nat /\ cache[x] \in Seq(Nat) /\ Len(cache[x]) \in Nat
          BY <1>0, FirstUnread
        <5>2. cache'[x] = SubSeq(cache[x], n + 1, Len(cache[x]))
          BY <1>0, <4>1, <4>4
        <5>3. Len(cache'[x]) = IF n <= Len(cache[x]) THEN Len(cache[x]) - n ELSE 0
          BY <5>1, <5>2, Cuts
        <5> QED BY <1>0, <4>2, <5>1, <5>3 DEF Limited
      <4> QED BY <4>3, <4>4
    <3>2. CASE ReadTake(g)
      <4>1. PICK n \in 1 .. arrived[on[g]] - taken[on[g]] : taken' = [taken EXCEPT ![on[g]] = @ + n]
        BY <3>2 DEF ReadTake
      <4>2. UNCHANGED cache
        BY <3>2 DEF ReadTake
      <4> QED BY <1>0, <4>1, <4>2 DEF Limited
    <3> QED BY <1>3, <3>1, <3>2
  <2>4. ASSUME NEW h \in Decoders
        PROVE  /\ Len(given'[h][x]) = index'[x][h] /\ index'[x][h] <= taken'[x]
               /\ Writes(h, x)' => Len(written'[h]) <= taken'[x]
               /\ given'[h][x] # <<>> => ready'[x]
    <3>1. h # g /\ given'[h][x] = given[h][x] /\ index'[x][h] = index[x][h] /\ written'[h] = written[h]
          /\ index[x][h] \in Nat /\ Len(written[h]) \in Nat /\ taken[x] \in Nat
      BY <2>1, <2>2, Amounts, Streamed
    <3>2. Len(given[h][x]) = index[x][h] /\ index[x][h] <= taken[x] /\ (given[h][x] # <<>> => ready[x])
      BY <1>0 DEF Limited
    <3>3. Writes(h, x)' => Len(written[h]) <= taken[x]
      BY <1>0, <1>e, <3>1 DEF Limited
    <3> HIDE DEF Writes
    <3> QED BY <2>3, <3>1, <3>2, <3>3
  <2>5. Len(cache'[x]) <= taken'[x] /\ taken'[x] <= arrived'[x] /\ arrived'[x] <= MaxBytes[x]
    BY <1>0, <1>c, <2>3 DEF Limited
  <2> HIDE DEF Writes
  <2> QED BY <2>4, <2>5 DEF Limited
<1>4. CASE ConcurrentReadTake(g)
  <2>1. PICK n \in 1 .. arrived[on[g]] - taken[on[g]] :
          /\ taken' = [taken EXCEPT ![on[g]] = @ + n]
          /\ written' = [written EXCEPT ![g] = cache[on[g]] \o Taken(on[g], n)]
          /\ index' = [index EXCEPT ![on[g]][g] = @ + n]
          /\ Gives(g, Taken(on[g], n))
    BY <1>4 DEF ConcurrentReadTake
  <2>2. g \in Decoders /\ UNCHANGED cache /\ ready[on[g]]
    BY <1>4 DEF ConcurrentReadTake, InReader, waitReaderReady
  <2> DEFINE s == Taken(on[g], n)
             m == index[on[g]][g]
  <2>4. n \in Nat /\ s \in Seq(Nat) /\ Len(s) = n
    BY <1>0, TakenFacts DEF Typed
  <2>5. /\ given'[g][on[g]] = given[g][on[g]] \o s
        /\ \A h \in Goroutines, y \in Streams : h # g \/ y # on[g] => given'[h][y] = given[h][y]
    BY <1>0, <2>1, <2>4, GivesTypes
  <2>6. /\ index'[on[g]][g] = m + n
        /\ \A h \in Goroutines, y \in Streams : h # g \/ y # on[g] => index'[y][h] = index[y][h]
    BY <1>0, <2>1, <2>4, IndexTypes
  <2>7. CASE on[g] # x
    <3>1. taken'[x] = taken[x]
      BY <1>0, <2>1, <2>7
    <3> QED BY <1>0, <1>a, <1>c, <1>e, <1>f, <2>2, <2>5, <2>6, <2>7, <3>1, LimitedKept
  <2>8. CASE on[g] = x
    <3>1. taken'[x] = taken[x] + n /\ taken'[x] <= arrived[x] /\ taken[x] \in Nat
      BY <1>0, <2>1, <2>8
    <3>2. Len(written'[g]) = Len(cache[x]) + n
      <4>1. written'[g] = cache[x] \o s /\ cache[x] \in Seq(Nat)
        BY <1>0, <2>1, <2>8
      <4> HIDE DEF s
      <4> QED BY <2>4, <4>1, Concats
    <3>3. Len(given'[g][x]) = index[x][g] + n /\ index'[x][g] = index[x][g] + n
      <4>1. given'[g][x] = given[g][x] \o s /\ given[g][x] \in Seq(Nat) /\ Len(given[g][x]) = index[x][g]
        BY <1>0, <1>a, <2>2, <2>5, <2>8 DEF Limited
      <4>2. Len(given'[g][x]) = index[x][g] + n
        <5> HIDE DEF s
        <5> QED BY <2>4, <4>1, Concats
      <4> QED BY <2>6, <2>8, <4>2
    <3>4. ASSUME NEW h \in Decoders
          PROVE  /\ Len(given'[h][x]) = index'[x][h] /\ index'[x][h] <= taken'[x]
                 /\ Writes(h, x)' => Len(written'[h]) <= taken'[x]
                 /\ given'[h][x] # <<>> => ready'[x]
      <4>0. index[x][h] \in Nat /\ Len(written[h]) \in Nat /\ Len(cache[x]) \in Nat
            /\ index[x][h] <= taken[x] /\ Len(cache[x]) <= taken[x]
        BY <1>0, Amounts, Streamed DEF Limited
      <4>1. CASE h = g
        BY <2>2, <2>4, <2>8, <3>1, <3>2, <3>3, <4>0, <4>1
      <4>2. CASE h # g
        <5>1. given'[h][x] = given[h][x] /\ index'[x][h] = index[x][h]
          BY <1>a, <2>5, <2>6, <4>2
        <5> HIDE DEF Writes
        <5>2. Len(given[h][x]) = index[x][h] /\ (Writes(h, x) => Len(written[h]) <= taken[x])
          BY <1>0 DEF Limited
        <5>3. taken[x] <= taken'[x] /\ taken'[x] \in Nat
          BY <2>4, <3>1
        <5> QED BY <1>e, <2>2, <2>8, <3>1, <4>0, <4>2, <5>1, <5>2, <5>3
      <4> QED BY <4>1, <4>2
    <3>5. Len(cache'[x]) <= taken'[x] /\ arrived'[x] <= MaxBytes[x] /\ taken'[x] <= arrived'[x]
      BY <1>0, <1>c, <2>2, <2>4, <3>1 DEF Limited
    <3> HIDE DEF Writes
    <3> QED BY <3>4, <3>5 DEF Limited
  <2> QED BY <2>7, <2>8
<1>5. CASE ConcurrentReadAppend(g)
  <2>1. /\ pc[g] = "append" /\ pc'[g] # "append" /\ UNCHANGED <<taken, index, given>>
        /\ cache' = [cache EXCEPT ![on[g]] = written[g]]
    BY <1>0, <1>5 DEF ConcurrentReadAppend, At, Returns, Goes
  <2>2. g \in Decoders
    BY <2>1, Kinds DEF Bounded
  <2>3. Len(cache'[x]) <= taken[x]
    <3>1. CASE on[g] = x
      BY <1>0, <2>1, <2>2, <3>1 DEF Limited, Writes, Appends
    <3>2. CASE on[g] # x
      BY <1>0, <2>1, <3>2 DEF Limited
    <3> QED BY <3>1, <3>2
  <2>4. ~Writes(g, x)'
    BY <1>f, <2>1
  <2> HIDE DEF Writes
  <2> QED BY <1>0, <1>c, <1>e, <2>1, <2>3, <2>4 DEF Limited
<1> QED BY <1>1, <1>2, <1>3, <1>4, <1>5 DEF ReadStep

LEMMA LimitedDecoderStep ==
  ASSUME Typed, AllLimited, NEW g \in Decoders, DecoderStep(g),
         \A h \in Goroutines : h # g => pc'[h] = pc[h] /\ on'[h] = on[h] /\ written'[h] = written[h],
         NEW x \in Streams
  PROVE  Limited(x)'
<1>0. /\ Limited(x) /\ g \in Goroutines
      /\ pc \in [Goroutines -> Labels] /\ on \in [Goroutines -> Streams] /\ on[g] \in Streams
      /\ cache \in [Streams -> Seq(Nat)] /\ taken \in [Streams -> Nat]
      /\ written \in [Goroutines -> Seq(Nat)]
  BY Kinds DEF AllLimited, Typed, ControlTypes, ReaderTypes
<1>a. Decoders \subseteq Goroutines
  BY Kinds
<1>e. \A h \in Decoders : h # g => (Writes(h, x)' <=> Writes(h, x)) /\ written'[h] = written[h]
  BY <1>a DEF Writes, Appends, Seeks
<1>b. UNCHANGED <<arrived, taken, given, index, ready>>
  BY DEF DecoderStep, Start, LocateRead, CallRead, Locates, LocateFails, Validate,
     SetValidStatus, Seek, SeekTo, SeekEnds, Sought, Forbid, ForbiddenConcurrentRead,
     InterruptReading, Choose, KeepReader, sourceVars
<1>1. CASE Seek(g)
  <2>1. /\ UNCHANGED <<cache, on>> /\ pc'[g] = "sought"
        /\ written' = [written EXCEPT ![g] = SubSeq(cache[on[g]], Count(g) + 1, Len(cache[on[g]]))]
    BY <1>0, <1>1 DEF Seek, SeekTo, At, Goes
  <2>2. Writes(g, x)' => Len(written'[g]) <= taken[x]
    <3> SUFFICES ASSUME on[g] = x PROVE Len(written'[g]) <= taken[x]
      BY <2>1 DEF Writes, Appends, Seeks
    <3> DEFINE n == Count(g)
    <3>1. n \in Nat /\ cache[x] \in Seq(Nat) /\ Len(cache[x]) \in Nat /\ Len(cache[x]) <= taken[x]
          /\ taken[x] \in Nat
      BY <1>0, CountType DEF Limited
    <3>2. written'[g] = SubSeq(cache[x], n + 1, Len(cache[x]))
      BY <1>0, <2>1
    <3> HIDE DEF n
    <3>3. Len(written'[g]) = IF n <= Len(cache[x]) THEN Len(cache[x]) - n ELSE 0
      BY <3>1, <3>2, Cuts
    <3> QED BY <3>1, <3>3
  <2> HIDE DEF Writes
  <2> QED BY <1>0, <1>b, <1>e, <2>1, <2>2 DEF Limited
<1>2. CASE SeekEnds(g)
  <2>1. /\ pc[g] = "sought" /\ pc'[g] = "forbid" /\ cache' = [cache EXCEPT ![on[g]] = written[g]]
    BY <1>0, <1>2 DEF SeekEnds, Sought, At, Goes
  <2>2. Len(cache'[x]) <= taken[x]
    <3>1. CASE on[g] = x
      BY <1>0, <2>1, <3>1 DEF Limited, Writes, Seeks
    <3>2. CASE on[g] # x
      BY <1>0, <2>1, <3>2 DEF Limited
    <3> QED BY <3>1, <3>2
  <2>3. ~Writes(g, x)'
    BY <2>1 DEF Writes, Appends, Seeks
  <2> HIDE DEF Writes
  <2> QED BY <1>0, <1>b, <1>e, <2>2, <2>3 DEF Limited
<1>3. CASE ~Seek(g) /\ ~SeekEnds(g)
  <2>1. UNCHANGED cache /\ pc'[g] \notin {"append", "sought"}
    BY <1>0, <1>3 DEF DecoderStep, Start, LocateRead, CallRead, Locates, LocateFails, Validate,
     SetValidStatus, Forbid, ForbiddenConcurrentRead, InterruptReading, Choose, KeepReader, Goes
  <2>2. ~Writes(g, x)'
    BY <2>1 DEF Writes, Appends, Seeks
  <2> QED BY <1>0, <1>b, <1>e, <2>1, <2>2, LimitedKept
<1> QED BY <1>1, <1>2, <1>3

LEMMA AllLimitedNext == Typed /\ Unstarted /\ Bounded /\ AllLimited /\ [Next]_vars => AllLimited'
<1> SUFFICES ASSUME Typed, Unstarted, Bounded, AllLimited, [Next]_vars, NEW x \in Streams
             PROVE  Limited(x)'
  BY DEF AllLimited
<1>0. /\ Limited(x) /\ Decoders \subseteq Goroutines /\ Goroutines = Decoders \cup Conns
      /\ pc \in [Goroutines -> Labels] /\ arrived \in [Streams -> Nat] /\ ready \in [Streams -> BOOLEAN]
      /\ taken \in [Streams -> Nat]
  BY Kinds DEF AllLimited, Typed, ControlTypes, ReaderTypes, EndPointTypes
<1>b. ASSUME UNCHANGED <<arrived, cache, taken, given, index, on, written>>, ready[x] => ready'[x],
             \A g \in Goroutines : pc'[g] \in {"append", "sought"} => pc'[g] = pc[g]
      PROVE  Limited(x)'
  <2>1. \A g \in Decoders : Writes(g, x)' => Writes(g, x)
    BY <1>0, <1>b DEF Writes, Appends, Seeks
  <2> QED BY <1>0, <1>b, <2>1, LimitedKept
<1>1. ASSUME NEW c \in Conns, NEW d \in Directions, addStream(c, d) PROVE Limited(x)'
  <2>1. UNCHANGED <<arrived, cache, taken, given, index, on, written>>
    BY <1>1 DEF addStream
  <2>2. ready[x] => ready'[x]
    BY <1>0, <1>1 DEF addStream, SetStream, SetReaderReady
  <2>3. \A g \in Goroutines : pc'[g] = pc[g] \/ pc'[g] \in {"wait", "start"}
    BY <1>0, <1>1 DEF addStream
  <2> QED BY <1>b, <2>1, <2>2, <2>3
<1>2. ASSUME NEW y \in Streams, Assembles(y) PROVE Limited(x)'
  <2>1. CASE Arrive(y)
    <3>1. /\ arrived' = [arrived EXCEPT ![y] = @ + 1] /\ arrived[y] < MaxBytes[y]
          /\ UNCHANGED <<ready, cache, taken, given, index, on, written, pc>>
      BY <2>1 DEF Arrive
    <3>2. arrived[x] <= arrived'[x] /\ arrived'[x] <= MaxBytes[x] /\ arrived'[x] \in Nat
      <4>1. MaxBytes[x] \in Nat /\ MaxBytes[y] \in Nat /\ arrived[x] \in Nat /\ arrived[y] \in Nat
            /\ arrived[x] <= MaxBytes[x]
        BY <1>0, Streamed DEF Limited
      <4>2. arrived'[y] = arrived[y] + 1 /\ (x # y => arrived'[x] = arrived[x])
        BY <1>0, <3>1
      <4> QED BY <3>1, <4>1, <4>2
    <3>3. taken[x] <= arrived'[x]
      BY <1>0, <3>2 DEF Limited
    <3> QED BY <1>0, <3>1, <3>2, <3>3 DEF Limited, Writes, Appends, Seeks
  <2>2. CASE End(y)
    BY <1>b, <2>2 DEF End
  <2> QED BY <1>2, <2>1, <2>2 DEF Assembles
<1>3. CASE ChooseReady \/ UNCHANGED vars
  <2>1. UNCHANGED <<arrived, ready, cache, taken, given, index, on, written, pc>>
    BY <1>3 DEF ChooseReady, readerVars, vars
  <2> QED BY <1>b, <2>1
<1>4. ASSUME NEW g \in Goroutines, GoroutineStep(g) PROVE Limited(x)'
  <2>0. \A h \in Goroutines : h # g => pc'[h] = pc[h] /\ on'[h] = on[h] /\ written'[h] = written[h]
    BY <1>4, Stepped
  <2>1. CASE ReadStep(g)
    <3>1. UNCHANGED ready
      BY <2>1 DEF ReadStep, Lock, ConcurrentReadCache, ConcurrentReadTake, ConcurrentReadAppend,
         ReadCache, ReadTake, ReadEOF, ReceiveInterrupt, sourceVars
    <3> QED BY <2>1, <3>1, LimitedReadStep
  <2>2. CASE g \in Decoders /\ DecoderStep(g)
    BY <2>0, <2>2, LimitedDecoderStep
  <2>3. CASE g \in Conns /\ ParserStep(g)
    <3>1. UNCHANGED <<arrived, ready, cache, taken, given, index, written>>
      BY <2>3 DEF ParserStep, StartParse, ParseRead, CallRead, DefaultNext, ParseNext, ParseFails,
         KeepReader, sourceVars
    <3>2. \A h \in Decoders : h # g
      BY <2>3, Kinds
    <3>3. \A h \in Decoders : Writes(h, x)' => Writes(h, x)
      BY <1>0, <2>0, <3>2 DEF Writes, Appends, Seeks
    <3> QED BY <1>0, <3>1, <3>3, LimitedKept
  <2> QED BY <1>4, <2>1, <2>2, <2>3 DEF GoroutineStep
<1> QED BY <1>1, <1>2, <1>3, <1>4 DEF Next, Environment, ChooserStep, startParseStream

LEMMA LimitedInit == Init => AllLimited
<1> SUFFICES ASSUME Init, NEW x \in Streams PROVE Limited(x)
  BY DEF AllLimited
<1>1. MaxBytes[x] \in Nat /\ Decoders \subseteq Goroutines
  BY Kinds
<1>2. \A g \in Decoders : ~Writes(g, x)
  BY <1>1 DEF Init, ReadersInit, Writes, Appends, Seeks
<1> QED BY <1>1, <1>2 DEF Init, ReadersInit, Limited

\* What a step of the endpoint does to one goroutine.
LEMMA Moves ==
  ASSUME Typed, Unstarted, [Next]_vars, NEW h \in Goroutines
  PROVE  \/ GoroutineStep(h)
         \/ pc'[h] = pc[h] /\ on'[h] = on[h]
         \/ pc[h] = "none" /\ pc'[h] \in {"start", "wait"}
<1>0. pc \in [Goroutines -> Labels] /\ Goroutines = Decoders \cup Conns
  BY Kinds DEF Typed, ControlTypes
<1>1. ASSUME NEW c \in Conns, NEW d \in Directions, addStream(c, d)
      PROVE  UNCHANGED on /\ (pc'[h] = pc[h] \/ (pc[h] = "none" /\ pc'[h] \in {"start", "wait"}))
  BY <1>0, <1>1 DEF addStream, Unstarted
<1>2. CASE ChooserStep \/ (\E x \in Streams : Assembles(x)) \/ UNCHANGED vars
  <2>1. UNCHANGED <<pc, on>>
    BY <1>2 DEF ChooserStep, ChooseReady, readerVars, vars, Assembles, Arrive, End
  <2> QED BY <2>1
<1>3. ASSUME NEW g \in Goroutines, GoroutineStep(g), g # h
      PROVE  pc'[h] = pc[h] /\ on'[h] = on[h]
  BY <1>3, Stepped
<1> QED BY <1>1, <1>2, <1>3 DEF Next, Environment, startParseStream

LEMMA GivenGrows ==
  ASSUME Typed, [Next]_vars, NEW h \in Decoders, NEW x \in Streams
  PROVE  Len(given[h][x]) <= Len(given'[h][x])
<1>0. Len(given[h][x]) \in Nat /\ given[h][x] \in Seq(Nat) /\ h \in Goroutines
  BY Amounts, Kinds
<1>1. ASSUME NEW g \in Goroutines, NEW s \in Seq(Nat), Gives(g, s)
      PROVE  Len(given[h][x]) <= Len(given'[h][x])
  <2>1. /\ given'[g][on[g]] = given[g][on[g]] \o s
        /\ \A k \in Goroutines, y \in Streams : k # g \/ y # on[g] => given'[k][y] = given[k][y]
    BY <1>1, GivesTypes
  <2>2. CASE h = g /\ x = on[g]
    <3>1. given'[h][x] = given[h][x] \o s
      BY <2>1, <2>2
    <3>2. Len(given[h][x] \o s) = Len(given[h][x]) + Len(s) /\ Len(s) \in Nat
      BY <1>0, Concats
    <3> QED BY <1>0, <3>1, <3>2
  <2>3. CASE ~ (h = g /\ x = on[g])
    BY <1>0, <2>1, <2>3
  <2> QED BY <2>2, <2>3
<1>2. ASSUME NEW g \in Goroutines, GoroutineStep(g)
      PROVE  (\E s \in Seq(Nat) : Gives(g, s)) \/ UNCHANGED given
  <2>1. CASE ConcurrentReadCache(g) \/ ReadCache(g)
    <3>1. PICK n \in DOMAIN Unread(g) : Gives(g, SubSeq(Unread(g), 1, n))
      BY <2>1 DEF ConcurrentReadCache, ReadCache
    <3>2. SubSeq(Unread(g), 1, n) \in Seq(Nat)
      BY FirstUnread
    <3> QED BY <3>1, <3>2
  <2>2. CASE ConcurrentReadTake(g) \/ ReadTake(g)
    <3>1. PICK n \in 1 .. arrived[on[g]] - taken[on[g]] : Gives(g, Taken(on[g], n))
      BY <2>2 DEF ConcurrentReadTake, ReadTake
    <3>2. n \in Nat /\ on[g] \in Streams
      <4>1. on[g] \in Streams
        BY DEF Typed, ControlTypes
      <4>2. arrived[on[g]] - taken[on[g]] \in Int
        BY <4>1 DEF Typed, ReaderTypes
      <4> QED BY <4>1, <4>2
    <3>3. Taken(on[g], n) \in Seq(Nat)
      BY <3>2, TakenFacts DEF Typed
    <3> QED BY <3>1, <3>3
  <2>3. CASE Lock(g) \/ ConcurrentReadAppend(g) \/ ReadEOF(g) \/ ReceiveInterrupt(g)
    BY <2>3 DEF Lock, ConcurrentReadAppend, ReadEOF, ReceiveInterrupt
  <2>4. CASE ~ReadStep(g)
    BY <1>2, <2>4 DEF GoroutineStep, DecoderStep, Start, LocateRead, CallRead, Locates, LocateFails, Validate,
     SetValidStatus, Seek, SeekTo, SeekEnds, Sought, Forbid, ForbiddenConcurrentRead, InterruptReading,
     Choose, KeepReader, ParserStep, StartParse, ParseRead, DefaultNext, ParseNext, ParseFails
  <2> QED BY <2>1, <2>2, <2>3, <2>4 DEF ReadStep
<1>3. CASE Environment \/ ChooserStep \/ UNCHANGED vars
  <2>1. UNCHANGED given
    BY <1>3 DEF Environment, startParseStream, addStream, Assembles, Arrive, End, ChooserStep, ChooseReady,
       readerVars, vars
  <2> QED BY <1>0, <2>1
<1>4. CASE UNCHANGED given
  BY <1>0, <1>4
<1> QED BY <1>1, <1>2, <1>3, <1>4 DEF Next

-----------------------------------------------------------------------------
(* What a decoder has found.                                               *)

\* g has found its start, in all the streams that it reads.
Finding == {"valid", "seek", "sought", "forbid", "interrupt"}

\* g has found what it wants in x.
Located(g, x) ==
  /\ Reads(g, x)
  /\ pc[g] \in Finding \/ (Type(g) = 3 /\ on[g][2] = "s2c" /\ x[2] = "c2s")

\* It was given what it wants.
AllLocated ==
  \A g \in Decoders, x \in Streams : Located(g, x) => registry[g].after[x[2]] <= Len(given[g][x])

LEMMA RegistryTypes ==
  ASSUME Typed, NEW g \in Decoders, NEW d \in Directions
  PROVE  registry[g].after[d] \in Nat /\ registry[g].count[d] \in Nat
<1>1. registry \in [Decoders -> Decoder]
  BY EndPointAssumption DEF Typed, EndPointTypes
<1> QED BY <1>1 DEF Decoder

LEMMA ReadsOne ==
  ASSUME Typed, NEW g \in Decoders, NEW x \in Streams, NEW y \in Streams, Reads(g, x), Reads(g, y),
         Type(g) # 3
  PROVE  x = y
<1>1. x = <<x[1], x[2]>> /\ y = <<y[1], y[2]>>
  BY Kinds
<1> QED BY <1>1 DEF Reads

\* What g finds it finds where it reads.
LEMMA LocatesHere ==
  ASSUME Typed, Unstarted, Ordered, [Next]_vars, NEW h \in Decoders, NEW x \in Streams, Located(h, x)'
  PROVE  Located(h, x) \/ (x = on[h] /\ Seen(h) >= After(h))
<1>0. /\ pc \in [Goroutines -> Labels] /\ on \in [Goroutines -> Streams] /\ h \in Goroutines
      /\ h \notin Conns /\ on[h] \in Streams /\ on[h][2] \in Directions /\ x[2] \in Directions
      /\ on[h][1] = FirstConn
  BY Kinds DEF Typed, ControlTypes, Ordered
<1>1. UNCHANGED registry
  BY RegistryKept
<1>2. Reads(h, x)
  BY <1>1 DEF Located, Reads, Type
<1>a. Type(h)' = Type(h)
  BY <1>1 DEF Type
<1>3. CASE ReadStep(h)
  <2>1. UNCHANGED on /\ pc'[h] \notin Finding
    BY <1>0, <1>3 DEF ReadStep, Lock, ConcurrentReadCache, ConcurrentReadTake, ConcurrentReadAppend,
       ReadCache, ReadTake, ReadEOF, AtEnd, InReader, ReceiveInterrupt, At, Goes, Returns, Finding
  <2> QED BY <1>2, <1>a, <2>1 DEF Located
<1>4. CASE Start(h)
  <2>1. pc'[h] \notin Finding /\ (Type(h) = 3 => on'[h][2] = "c2s")
    BY <1>0, <1>4 DEF Start, Goes, Finding
  <2> QED BY <1>a, <2>1 DEF Located
<1>5. CASE Locates(h)
  <2>1. /\ pc[h] = "running" /\ Seen(h) >= After(h)
        /\ on'[h] = IF Type(h) = 3 THEN Other(on[h]) ELSE on[h]
        /\ pc'[h] = IF Type(h) = 3 /\ on[h][2] = "c2s" THEN "running" ELSE "valid"
    BY <1>0, <1>5 DEF Locates, At, Goes
  <2>2. Reads(h, on[h])
    BY <2>1 DEF Ordered
  <2>3. CASE x = on[h]
    BY <2>1, <2>3
  <2>4. CASE x # on[h]
    <3>1. Type(h) = 3
      BY <1>0, <1>2, <2>2, <2>4, ReadsOne
    <3>2. x[1] = FirstConn /\ x = <<x[1], x[2]>> /\ on[h] = <<on[h][1], on[h][2]>>
      BY <1>0, <1>2, Kinds DEF Reads
    <3>3. x[2] # on[h][2]
      BY <1>0, <2>4, <3>2
    <3>4. CASE on[h][2] = "c2s"
      <4>1. pc'[h] = "running" /\ x[2] = "s2c"
        BY <1>0, <2>1, <3>1, <3>3, <3>4 DEF Directions
      <4> QED BY <4>1 DEF Located, Finding
    <3>5. CASE on[h][2] = "s2c"
      <4>1. x[2] = "c2s"
        BY <1>0, <3>3, <3>5 DEF Directions
      <4> QED BY <1>2, <3>1, <3>5, <4>1 DEF Located
    <3> QED BY <1>0, <3>4, <3>5 DEF Directions
  <2> QED BY <2>3, <2>4
<1>6. CASE DecoderStep(h) /\ pc[h] \in Finding
  BY <1>2, <1>6 DEF Located
<1>7. CASE LocateRead(h) \/ LocateFails(h) \/ Choose(h)
  <2>1. UNCHANGED on /\ pc'[h] \notin Finding
    BY <1>0, <1>7 DEF LocateRead, CallRead, LocateFails, Choose, KeepReader, Goes, Finding
  <2> QED BY <1>2, <1>a, <2>1 DEF Located
<1>8. CASE GoroutineStep(h)
  <2>1. DecoderStep(h) => Start(h) \/ Locates(h) \/ LocateRead(h) \/ LocateFails(h) \/ Choose(h) \/ pc[h] \in Finding
    BY DEF DecoderStep, Validate, SetValidStatus, Seek, SeekTo, SeekEnds, Sought, Forbid,
       ForbiddenConcurrentRead, InterruptReading, At, Finding
  <2> QED BY <1>0, <1>3, <1>4, <1>5, <1>6, <1>7, <1>8, <2>1 DEF GoroutineStep
<1>9. CASE pc'[h] = pc[h] /\ on'[h] = on[h]
  BY <1>2, <1>9, <1>a DEF Located
<1>10. CASE pc[h] = "none" /\ pc'[h] \in {"start", "wait"} /\ ~GoroutineStep(h)
  <2>1. on'[h] = on[h]
    <3>1. \A g \in Goroutines : GoroutineStep(g) => on'[h] = on[h]
      BY <1>0, <1>10, Stepped
    <3>2. Environment \/ ChooserStep \/ UNCHANGED vars => UNCHANGED on
      BY DEF Environment, startParseStream, addStream, Assembles, Arrive, End, ChooserStep, ChooseReady,
         readerVars, vars
    <3> QED BY <3>1, <3>2 DEF Next
  <2>2. pc'[h] \notin Finding
    BY <1>10 DEF Finding
  <2> QED BY <1>2, <1>a, <2>1, <2>2 DEF Located
<1> QED BY <1>0, <1>8, <1>9, <1>10, Moves

LEMMA AllLocatedNext ==
  Typed /\ Unstarted /\ Ordered /\ AllLocated /\ [Next]_vars => AllLocated'
<1> SUFFICES ASSUME Typed, Unstarted, Ordered, AllLocated, [Next]_vars,
                    NEW h \in Decoders, NEW x \in Streams, Located(h, x)'
             PROVE  registry'[h].after[x[2]] <= Len(given'[h][x])
  BY DEF AllLocated
<1>1. UNCHANGED registry
  BY RegistryKept
<1>2. x[2] \in Directions
  BY Kinds
<1>3. registry[h].after[x[2]] \in Nat /\ Len(given[h][x]) \in Nat
  BY <1>2, RegistryTypes, Amounts
<1>4. Len(given[h][x]) <= Len(given'[h][x]) /\ Len(given'[h][x]) \in Nat
  <2>1. Typed'
    BY TypedNext
  <2>2. given' \in [Goroutines -> [Streams -> Seq(Nat)]]
    BY <2>1 DEF Typed, ReaderTypes
  <2> QED BY <2>2, GivenGrows, Kinds
<1>5. registry[h].after[x[2]] <= Len(given[h][x])
  <2>1. CASE Located(h, x)
    BY <2>1 DEF AllLocated
  <2>2. CASE x = on[h] /\ Seen(h) >= After(h)
    BY <1>3, <2>2 DEF Seen, After
  <2> QED BY <2>1, <2>2, LocatesHere
<1> QED BY <1>1, <1>3, <1>4, <1>5

\* A decoder that found its start is one that may.
LEMMA Succeeds ==
  ASSUME Typed, AllLimited, AllLocated, NEW g \in Decoders, pc[g] \in Finding
  PROVE  MaySucceed(g)
<1>1. ASSUME NEW x \in Streams, Reads(g, x) PROVE registry[g].after[x[2]] <= MaxBytes[x]
  <2>1. registry[g].after[x[2]] <= Len(given[g][x])
    BY <1>1 DEF AllLocated, Located
  <2>2. /\ Len(given[g][x]) = index[x][g] /\ index[x][g] <= taken[x]
        /\ taken[x] <= arrived[x] /\ arrived[x] <= MaxBytes[x]
    BY DEF AllLimited, Limited
  <2>3. x[2] \in Directions
    BY Kinds
  <2>4. registry[g].after[x[2]] \in Nat
    BY <2>3, RegistryTypes
  <2> QED BY <2>1, <2>2, <2>4, Streamed, Amounts
<1>2. Type(g) \in {1, 3} => registry[g].after["c2s"] <= MaxBytes[<<FirstConn, "c2s">>]
  <2> DEFINE x == <<FirstConn, "c2s">>
  <2>1. x \in Streams /\ x[1] = FirstConn /\ x[2] = "c2s"
    BY Kinds DEF Directions
  <2> QED BY <1>1, <2>1 DEF Reads
<1>3. Type(g) \in {2, 3} => registry[g].after["s2c"] <= MaxBytes[<<FirstConn, "s2c">>]
  <2> DEFINE x == <<FirstConn, "s2c">>
  <2>1. x \in Streams /\ x[1] = FirstConn /\ x[2] = "s2c"
    BY Kinds DEF Directions
  <2> QED BY <1>1, <2>1 DEF Reads
<1> QED BY <1>2, <1>3 DEF MaySucceed

LEMMA OnlyOne ==
  ASSUME Typed, ~Rivals, NEW g \in Decoders, NEW h \in Decoders, NEW x, Reads(g, x), Reads(h, x),
         MaySucceed(g), MaySucceed(h)
  PROVE  g = h
<1> SUFFICES ASSUME g # h PROVE FALSE
  OBVIOUS
<1>1. {Type(g), Type(h)} \in {{1}, {2}, {3}, {1, 3}, {2, 3}}
  BY DEF Reads
<1> QED BY <1>1 DEF Rivals, Share

-----------------------------------------------------------------------------
(* Who found a stream valid.                                               *)

\* h has found x valid.
Passed(h, x) == ~Ahead(h, x) \/ (pc[h] = "seek" /\ on[h] = x)

LEMMA PassedKept ==
  ASSUME Typed, Unstarted, [Next]_vars, NEW h \in Decoders, NEW x \in Streams, Passed(h, x)
  PROVE  Passed(h, x)'
<1>0. pc \in [Goroutines -> Labels] /\ on \in [Goroutines -> Streams] /\ h \in Goroutines /\ h \notin Conns
  BY Kinds DEF Typed, ControlTypes
<1>1. CASE ~Ahead(h, x)
  BY <1>1, AheadKept DEF Passed
<1>2. CASE pc[h] = "seek" /\ on[h] = x
  <2>1. CASE GoroutineStep(h)
    <3>1. pc'[h] = "sought" /\ on'[h] = on[h]
      BY <1>0, <1>2, <2>1 DEF GoroutineStep, ReadStep, Lock, ConcurrentReadCache, ConcurrentReadTake,
         ConcurrentReadAppend, ReadCache, ReadTake, ReadEOF, AtEnd, InReader, ReceiveInterrupt,
         DecoderStep, Start, LocateRead, CallRead, Locates, LocateFails, Validate, SetValidStatus, Seek,
         SeekTo, SeekEnds, Sought, Forbid, ForbiddenConcurrentRead, InterruptReading, Choose, At, Goes
    <3> QED BY <1>2, <3>1 DEF Passed, Ahead
  <2>2. CASE pc'[h] = pc[h] /\ on'[h] = on[h]
    BY <1>2, <2>2 DEF Passed
  <2> QED BY <1>0, <1>2, <2>1, <2>2, Moves
<1> QED BY <1>1, <1>2 DEF Passed

\* Until the endpoint is ready, a stream that is valid was found so by a decoder.
AllFound ==
  \A x \in Streams : x[1] = FirstConn /\ validated[x] =>
    decoderReady \/ \E h \in Decoders : Reads(h, x) /\ MaySucceed(h) /\ Passed(h, x)

LEMMA AllFoundNext ==
  Typed /\ Unstarted /\ Ordered /\ AllLimited /\ AllLocated /\ AllFound /\ [Next]_vars => AllFound'
<1> SUFFICES ASSUME Typed, Unstarted, Ordered, AllLimited, AllLocated, AllFound, [Next]_vars,
                    NEW x \in Streams, x[1] = FirstConn, validated'[x], ~decoderReady'
             PROVE  \E h \in Decoders : Reads(h, x)' /\ MaySucceed(h)' /\ Passed(h, x)'
  BY DEF AllFound
<1>0. pc \in [Goroutines -> Labels] /\ validated \in [Streams -> BOOLEAN] /\ on \in [Goroutines -> Streams]
      /\ Decoders \subseteq Goroutines
  BY Kinds DEF Typed, ControlTypes, EndPointTypes
<1>1. UNCHANGED registry
  BY RegistryKept
<1>2. \A h \in Decoders : (Reads(h, x)' <=> Reads(h, x)) /\ (MaySucceed(h)' <=> MaySucceed(h))
  BY <1>1 DEF Reads, MaySucceed, Type
<1>3. ~decoderReady
  BY DEF Next, Environment, startParseStream, addStream, Assembles, ChooserStep, ChooseReady,
     GoroutineStep, DecoderStep, Start, LocateRead, Locates, LocateFails, Validate, Seek, SeekEnds, Forbid,
     InterruptReading, Choose, ParserStep, StartParse, ParseRead, DefaultNext, ParseNext, ParseFails,
     endpointVars, vars
<1>4. CASE validated[x]
  <2>1. PICK h \in Decoders : Reads(h, x) /\ MaySucceed(h) /\ Passed(h, x)
    BY <1>3, <1>4 DEF AllFound
  <2>2. Passed(h, x)'
    BY <2>1, PassedKept
  <2> QED BY <1>2, <2>1, <2>2
<1>5. ASSUME NEW g \in Decoders, Validate(g), ~validated[x]
      PROVE  \E h \in Decoders : Reads(h, x)' /\ MaySucceed(h)' /\ Passed(h, x)'
  <2>1. /\ pc[g] = "valid" /\ pc'[g] = "seek" /\ on'[g] = on[g]
        /\ validated' = [validated EXCEPT ![on[g]] = TRUE]
    BY <1>0, <1>5 DEF Validate, SetValidStatus, At, Goes
  <2>2. on[g] = x
    BY <1>0, <1>5, <2>1
  <2>3. Reads(g, x)
    BY <2>1, <2>2 DEF Ordered
  <2>4. MaySucceed(g)
    BY <2>1, Succeeds DEF Finding
  <2>5. Passed(g, x)'
    BY <2>1, <2>2 DEF Passed
  <2> QED BY <1>2, <2>3, <2>4, <2>5
<1>6. CASE ~validated[x] /\ \A g \in Decoders : ~Validate(g)
  <2>1. \A c \in Conns : ~StartParse(c)
    BY <1>3 DEF StartParse
  <2>2. UNCHANGED validated
    <3>1. ASSUME NEW g \in Goroutines, GoroutineStep(g) PROVE UNCHANGED validated
      <4>1. CASE ReadStep(g)
        BY <4>1 DEF ReadStep, Lock, ConcurrentReadCache, ConcurrentReadTake, ConcurrentReadAppend,
           ReadCache, ReadTake, ReadEOF, ReceiveInterrupt, statusVars
      <4>2. CASE g \in Decoders /\ DecoderStep(g)
        BY <1>6, <4>2 DEF DecoderStep, Start, LocateRead, CallRead, Locates, LocateFails, Seek, SeekTo,
           SeekEnds, Sought, Forbid, ForbiddenConcurrentRead, InterruptReading, Choose, KeepReader, statusVars
      <4>3. CASE g \in Conns /\ ParserStep(g)
        BY <2>1, <4>3 DEF ParserStep, ParseRead, CallRead, DefaultNext, ParseNext, ParseFails, KeepReader,
           statusVars
      <4> QED BY <3>1, <4>1, <4>2, <4>3 DEF GoroutineStep
    <3>2. CASE Environment \/ ChooserStep \/ UNCHANGED vars
      BY <3>2 DEF Environment, startParseStream, addStream, Assembles, Arrive, End, ChooserStep, ChooseReady,
         readerVars, vars, statusVars
    <3> QED BY <3>1, <3>2 DEF Next
  <2> QED BY <1>6, <2>2
<1> QED BY <1>4, <1>5, <1>6

-----------------------------------------------------------------------------
(* The cuts and the panics.                                                *)

\* A decoder that is about to cut a cache has it all there.
Seekable ==
  \A g \in Decoders, x \in Streams : pc[g] = "seek" /\ on[g] = x =>
    /\ Len(given[g][x]) <= Len(cache[x])
    /\ \A h \in Decoders : Appends(h, x) => Len(given[g][x]) <= Len(written[h])

\* The inductive invariant behind NeverPanics.
CalmInv ==
  /\ SeenInv /\ Ordered /\ AllLimited /\ AllLocated /\ AllFound
  /\ Rivals \/ Hasty \/ (Seekable /\ ~crashed)

\* What nobody else has found valid was not cut.
LEMMA SeekableFirst ==
  ASSUME SeenInv, Ordered, AllLimited, AllLocated, AllFound, ~Rivals, NEW g \in Decoders, Validate(g),
         NEW x \in Streams, on[g] = x
  PROVE  /\ Len(given'[g][x]) <= Len(cache'[x])
         /\ \A h \in Decoders : Appends(h, x)' => Len(given'[g][x]) <= Len(written'[h])
<1>0. /\ Typed /\ pc \in [Goroutines -> Labels] /\ Decoders \subseteq Goroutines
      /\ x \in Streams /\ x[1] = FirstConn
  BY Kinds DEF SeenInv, Typed, ControlTypes, Ordered
<1>1. pc[g] = "valid" /\ pc' = [pc EXCEPT ![g] = "seek"] /\ UNCHANGED <<on, given, cache, written>>
  BY DEF Validate, SetValidStatus, At, Goes
<1>2. Reads(g, x) /\ MaySucceed(g) /\ ~decoderReady
  BY <1>0, <1>1, Succeeds DEF Ordered, Finding
<1>3. ~validated[x]
  <2> SUFFICES ASSUME validated[x] PROVE FALSE
    OBVIOUS
  <2>1. PICK h \in Decoders : Reads(h, x) /\ MaySucceed(h) /\ Passed(h, x)
    BY <1>0, <1>2 DEF AllFound
  <2>2. h = g
    BY <1>0, <1>2, <2>1, OnlyOne
  <2>3. ~Passed(g, x)
    BY <1>1 DEF Passed, Ahead
  <2> QED BY <2>1, <2>2, <2>3
<1>4. StreamSeen(x)
  BY <1>0, <1>3 DEF SeenInv, AllSeen
<1>5. ~Appends(g, x)
  BY <1>1 DEF Appends
<1>6. Len(given[g][x]) = index[x][g] /\ index[x][g] <= Len(cache[x]) /\ Len(cache[x]) <= taken[x]
  BY <1>4, <1>5 DEF StreamSeen
<1>7. ASSUME NEW h \in Decoders, Appends(h, x)' PROVE Len(given[g][x]) <= Len(written[h])
  <2>1. Appends(h, x)
    BY <1>0, <1>1, <1>7 DEF Appends
  <2>2. Len(written[h]) = taken[x]
    BY <1>4, <2>1 DEF StreamSeen
  <2>3. Len(given[g][x]) \in Nat /\ Len(cache[x]) \in Nat /\ taken[x] \in Nat
    BY <1>0, Amounts, Streamed
  <2> QED BY <1>6, <2>2, <2>3
<1>8. Len(given[g][x]) \in Nat /\ Len(cache[x]) \in Nat
  BY <1>0, Amounts, Streamed
<1> QED BY <1>1, <1>6, <1>7, <1>8

\* Nobody else shortens the cache that g is about to cut.
LEMMA SeekableKept ==
  ASSUME SeenInv, Ordered, AllLimited, AllLocated, ~Rivals, Seekable, NEW g \in Decoders,
         NEW x \in Streams, pc[g] = "seek", on[g] = x, [Next]_vars, ~GoroutineStep(g),
         NEW n, n = Len(given[g][x])
  PROVE  /\ given'[g][x] = given[g][x] /\ n <= Len(cache'[x])
         /\ \A h \in Decoders : Appends(h, x)' => n <= Len(written'[h])
<1>0. /\ Typed /\ Unstarted /\ Bounded /\ x \in Streams /\ x[1] = FirstConn
      /\ pc \in [Goroutines -> Labels] /\ on \in [Goroutines -> Streams]
      /\ written \in [Goroutines -> Seq(Nat)] /\ cache \in [Streams -> Seq(Nat)]
      /\ Decoders \subseteq Goroutines /\ Goroutines = Decoders \cup Conns /\ Decoders \cap Conns = {}
  BY Kinds DEF SeenInv, Typed, ControlTypes, ReaderTypes, Ordered
<1>1. /\ n \in Nat /\ n <= Len(cache[x]) /\ Len(cache[x]) \in Nat /\ cache[x] \in Seq(Nat)
      /\ \A h \in Decoders : Appends(h, x) => n <= Len(written[h])
  BY <1>0, Amounts, Streamed DEF Seekable
<1>2. Reads(g, x) /\ MaySucceed(g) /\ ~decoderReady
  BY <1>0, Succeeds DEF Ordered, Finding
<1>a. ASSUME given'[g][x] = given[g][x], cache'[x] = cache[x],
             \A h \in Decoders : Appends(h, x)' => Appends(h, x) /\ written'[h] = written[h]
      PROVE  /\ given'[g][x] = given[g][x] /\ n <= Len(cache'[x])
             /\ \A h \in Decoders : Appends(h, x)' => n <= Len(written'[h])
  BY <1>1, <1>a
<1>3. ASSUME NEW c \in Conns, NEW d \in Directions, addStream(c, d)
      PROVE  /\ given'[g][x] = given[g][x] /\ n <= Len(cache'[x])
             /\ \A h \in Decoders : Appends(h, x)' => n <= Len(written'[h])
  <2>1. UNCHANGED <<given, cache, written, on>>
    BY <1>3 DEF addStream
  <2>2. \A h \in Goroutines : pc'[h] = pc[h] \/ pc'[h] \in {"start", "wait"}
    BY <1>0, <1>3 DEF addStream
  <2> QED BY <1>0, <1>a, <2>1, <2>2 DEF Appends
<1>4. CASE ChooserStep \/ (\E y \in Streams : Assembles(y)) \/ UNCHANGED vars
  <2>1. UNCHANGED <<given, cache, written, on, pc>>
    BY <1>4 DEF ChooserStep, ChooseReady, readerVars, vars, Assembles, Arrive, End
  <2>2. \A h \in Decoders : Appends(h, x)' => Appends(h, x)
    BY <2>1 DEF Appends
  <2> QED BY <1>a, <2>1, <2>2
<1>5. ASSUME NEW k \in Goroutines, GoroutineStep(k), k # g
      PROVE  /\ given'[g][x] = given[g][x] /\ n <= Len(cache'[x])
             /\ \A h \in Decoders : Appends(h, x)' => n <= Len(written'[h])
  <2>0. /\ \A h \in Goroutines : h # k => pc'[h] = pc[h] /\ on'[h] = on[h] /\ written'[h] = written[h]
        /\ given'[g] = given[g]
    BY <1>0, <1>5, Stepped, GivenStep
  <2>a. ASSUME ~Appends(k, x)', cache'[x] = cache[x]
        PROVE  /\ given'[g][x] = given[g][x] /\ n <= Len(cache'[x])
               /\ \A h \in Decoders : Appends(h, x)' => n <= Len(written'[h])
    <3>1. \A h \in Decoders : Appends(h, x)' => Appends(h, x) /\ written'[h] = written[h]
      BY <1>0, <2>0, <2>a DEF Appends
    <3> QED BY <1>a, <2>0, <2>a, <3>1
  <2>1. CASE k \in Conns
    <3>1. ~ReadStep(k)
      <4>1. ReadStep(k) => pc[k] \notin {"none", "wait"}
        BY DEF ReadStep, Lock, ConcurrentReadCache, ConcurrentReadTake, ConcurrentReadAppend, ReadCache,
           ReadTake, ReadEOF, AtEnd, InReader, ReceiveInterrupt, At
      <4> QED BY <1>2, <2>1, <4>1 DEF Ordered
    <3>2. ParserStep(k)
      BY <1>0, <1>5, <2>1, <3>1 DEF GoroutineStep
    <3>3. UNCHANGED cache /\ pc'[k] # "append"
      BY <1>0, <3>2 DEF ParserStep, StartParse, ParseRead, CallRead, DefaultNext, ParseNext, ParseFails,
         KeepReader, At, Goes
    <3> QED BY <2>a, <3>3 DEF Appends
  <2>2. CASE k \in Decoders /\ ReadStep(k)
    <3>1. UNCHANGED on
      BY <2>2 DEF ReadStep, Lock, ConcurrentReadCache, ConcurrentReadTake, ConcurrentReadAppend, ReadCache,
         ReadTake, ReadEOF, AtEnd, InReader, ReceiveInterrupt
    <3>2. CASE on[k] # x
      <4>1. cache'[x] = cache[x]
        BY <1>0, <2>2, <3>2 DEF ReadStep, Lock, ConcurrentReadCache, ConcurrentReadTake,
           ConcurrentReadAppend, ReadCache, ReadTake, ReadEOF, AtEnd, InReader, ReceiveInterrupt
      <4> QED BY <2>a, <3>1, <3>2, <4>1 DEF Appends
    <3>3. CASE on[k] = x /\ ConcurrentReadTake(k)
      <4>1. PICK m \in 1 .. arrived[x] - taken[x] : written' = [written EXCEPT ![k] = cache[x] \o Taken(x, m)]
        BY <3>3 DEF ConcurrentReadTake
      <4>2. m \in Nat
        BY <1>0, Streamed
      <4> DEFINE s == Taken(x, m)
      <4>3. s \in Seq(Nat) /\ Len(s) = m
        BY <1>0, <4>2, TakenFacts DEF Typed
      <4>4. UNCHANGED cache
        BY <3>3 DEF ConcurrentReadTake
      <4>5. n <= Len(written'[k])
        <5>1. written'[k] = cache[x] \o s
          BY <1>0, <4>1
        <5> HIDE DEF s
        <5>2. Len(cache[x] \o s) = Len(cache[x]) + m
          BY <1>1, <4>3, Concats
        <5> QED BY <1>1, <4>2, <5>1, <5>2
      <4>6. \A h \in Decoders : h # k /\ Appends(h, x)' => n <= Len(written'[h])
        BY <1>0, <1>1, <2>0 DEF Appends
      <4> QED BY <1>1, <2>0, <4>4, <4>5, <4>6
    <3>4. CASE on[k] = x /\ ConcurrentReadAppend(k)
      <4>1. pc[k] = "append" /\ pc'[k] = "running" /\ cache' = [cache EXCEPT ![x] = written[k]]
        BY <1>0, <3>4 DEF ConcurrentReadAppend, Returns, At, Goes
      <4>2. n <= Len(cache'[x])
        BY <1>0, <1>1, <2>2, <3>4, <4>1 DEF Appends
      <4>3. \A h \in Decoders : Appends(h, x)' => n <= Len(written'[h])
        BY <1>0, <1>1, <2>0, <4>1 DEF Appends
      <4> QED BY <2>0, <4>2, <4>3
    <3>5. CASE ~ConcurrentReadTake(k) /\ ~ConcurrentReadAppend(k)
      <4>1. UNCHANGED cache /\ pc'[k] # "append"
        BY <1>0, <2>2, <3>5, EndPointAssumption DEF ReadStep, Lock, ConcurrentReadCache, ReadCache,
           ReadTake, ReadEOF, AtEnd, InReader, ReceiveInterrupt, Returns, At, Goes
      <4> QED BY <2>a, <4>1 DEF Appends
    <3> QED BY <3>2, <3>3, <3>4, <3>5
  <2>3. CASE k \in Decoders /\ DecoderStep(k)
    <3>1. pc'[k] # "append"
      BY <1>0, <2>3 DEF DecoderStep, Start, LocateRead, CallRead, Locates, LocateFails, Validate,
         SetValidStatus, Seek, SeekTo, SeekEnds, Sought, Forbid, ForbiddenConcurrentRead,
         InterruptReading, Choose, At, Goes
    <3>2. cache'[x] = cache[x]
      <4>1. CASE SeekEnds(k)
        <5>1. pc[k] = "sought" /\ cache' = [cache EXCEPT ![on[k]] = written[k]]
          BY <4>1 DEF SeekEnds, Sought, At
        <5>2. on[k] # x
          <6>1. Reads(k, on[k]) /\ MaySucceed(k)
            BY <1>0, <2>3, <5>1, Succeeds DEF Ordered, Finding
          <6> QED BY <1>0, <1>2, <1>5, <2>3, <6>1, OnlyOne
        <5> QED BY <1>0, <5>1, <5>2
      <4>2. CASE ~SeekEnds(k)
        BY <2>3, <4>2 DEF DecoderStep, Start, LocateRead, CallRead, Locates, LocateFails, Validate,
           SetValidStatus, Seek, SeekTo, Forbid, ForbiddenConcurrentRead, InterruptReading, Choose, KeepReader
      <4> QED BY <4>1, <4>2
    <3> QED BY <2>a, <3>1, <3>2 DEF Appends
  <2> QED BY <1>5, <2>1, <2>2, <2>3, <1>0 DEF GoroutineStep
<1>6. /\ given'[g][x] = given[g][x] /\ n <= Len(cache'[x])
      /\ \A h \in Decoders : Appends(h, x)' => n <= Len(written'[h])
  BY <1>3, <1>4, <1>5 DEF Next, Environment, startParseStream
<1> QED BY <1>6

LEMMA SeekableNext ==
  ASSUME SeenInv, Ordered, AllLimited, AllLocated, AllFound, ~Rivals, Seekable, [Next]_vars
  PROVE  Seekable'
<1> SUFFICES ASSUME NEW g \in Decoders, NEW x \in Streams, pc'[g] = "seek", on'[g] = x
             PROVE  /\ Len(given'[g][x]) <= Len(cache'[x])
                    /\ \A h \in Decoders : Appends(h, x)' => Len(given'[g][x]) <= Len(written'[h])
  BY DEF Seekable
<1>0. Typed /\ Unstarted /\ g \in Goroutines /\ g \notin Conns /\ pc \in [Goroutines -> Labels]
  BY Kinds DEF SeenInv, Typed, ControlTypes
<1>1. CASE GoroutineStep(g)
  <2>1. Validate(g)
    BY <1>0, <1>1 DEF GoroutineStep, ReadStep, Lock, ConcurrentReadCache, ConcurrentReadTake,
       ConcurrentReadAppend, ReadCache, ReadTake, ReadEOF, AtEnd, InReader, ReceiveInterrupt, Returns,
       DecoderStep, Start, LocateRead, CallRead, Locates, LocateFails, Seek, SeekTo, SeekEnds, Sought,
       Forbid, ForbiddenConcurrentRead, InterruptReading, Choose, At, Goes
  <2>2. on[g] = x
    BY <2>1 DEF Validate, SetValidStatus
  <2> QED BY <2>1, <2>2, SeekableFirst
<1>2. CASE ~GoroutineStep(g)
  <2>1. pc[g] = "seek" /\ on[g] = x
    BY <1>0, <1>2, Moves
  <2> DEFINE n == Len(given[g][x])
  <2>2. /\ given'[g][x] = given[g][x] /\ n <= Len(cache'[x])
        /\ \A h \in Decoders : Appends(h, x)' => n <= Len(written'[h])
    BY <1>2, <2>1, SeekableKept
  <2> QED BY <2>2
<1> QED BY <1>1, <1>2

LEMMA CalmNext ==
  ASSUME SeenInv, Ordered, AllLimited, AllLocated, ~Hasty, Seekable, ~crashed, [Next]_vars
  PROVE  ~crashed'
<1>0. Typed /\ Bounded
  BY DEF SeenInv
<1>1. ASSUME NEW g \in Decoders, pc[g] \in Finding
      PROVE  /\ After(g) <= Len(given[g][on[g]]) /\ After(g) \in Nat /\ After(g) # 0
             /\ Count(g) <= After(g) /\ Count(g) \in Nat /\ on[g] \in Streams
  <2>0. on[g] \in Streams /\ on[g][2] \in Directions
    BY <1>0, Kinds DEF Typed, ControlTypes
  <2>1. Reads(g, on[g])
    BY <1>1 DEF Ordered, Finding
  <2>2. After(g) <= Len(given[g][on[g]])
    BY <1>1, <2>0, <2>1 DEF AllLocated, Located, After
  <2>3. After(g) \in Nat /\ Count(g) \in Nat
    BY <1>0, <2>0, RegistryTypes DEF After, Count
  <2>4. After(g) # 0 /\ ~ (Count(g) > After(g))
    BY <2>0 DEF Hasty, After, Count
  <2> QED BY <2>0, <2>2, <2>3, <2>4
<1>2. ASSUME NEW g \in Decoders, Seek(g) PROVE ~crashed'
  <2>1. pc[g] = "seek" /\ crashed' = (Count(g) > Len(cache[on[g]]))
    BY <1>2 DEF Seek, SeekTo, At
  <2>2. on[g] \in Streams /\ Len(given[g][on[g]]) <= Len(cache[on[g]])
    <3>1. on[g] \in Streams
      BY <1>1, <2>1 DEF Finding
    <3> QED BY <2>1, <3>1 DEF Seekable
  <2>3. After(g) <= Len(given[g][on[g]]) /\ Count(g) <= After(g) /\ Count(g) \in Nat /\ After(g) \in Nat
        /\ on[g] \in Streams
    BY <1>1, <2>1 DEF Finding
  <2>4. Len(given[g][on[g]]) \in Nat /\ Len(cache[on[g]]) \in Nat
    BY <1>0, <2>3, Amounts, Streamed
  <2>5. ~ (Count(g) > Len(cache[on[g]]))
    BY <2>2, <2>3, <2>4
  <2> QED BY <2>1, <2>5
<1>3. ASSUME NEW g \in Decoders, InterruptReading(g) PROVE ~crashed'
  <2>1. pc[g] = "interrupt" /\ crashed' = ~ready[on[g]]
    BY <1>3 DEF InterruptReading, At
  <2>2. After(g) <= Len(given[g][on[g]]) /\ After(g) \in Nat /\ After(g) # 0 /\ on[g] \in Streams
    BY <1>1, <2>1 DEF Finding
  <2>3. given[g][on[g]] # <<>>
    BY <2>2
  <2>4. ready[on[g]]
    BY <2>2, <2>3 DEF AllLimited, Limited
  <2> QED BY <2>1, <2>4
<1>4. CASE \A g \in Decoders : ~Seek(g) /\ ~InterruptReading(g)
  BY <1>4 DEF Next, Environment, startParseStream, addStream, SetStream, Assembles, ChooserStep,
     ChooseReady, GoroutineStep, DecoderStep, Start, LocateRead, Locates, LocateFails, Validate, SeekEnds,
     Forbid, Choose, ParserStep, StartParse, ParseRead, DefaultNext, ParseNext, ParseFails, vars
<1> QED BY <1>2, <1>3, <1>4

LEMMA CalmStep == CalmInv /\ [Next]_vars => CalmInv'
<1> SUFFICES ASSUME CalmInv, [Next]_vars PROVE CalmInv'
  OBVIOUS
<1>1. SeenInv /\ Ordered /\ AllLimited /\ AllLocated /\ AllFound
  BY DEF CalmInv
<1>2. Typed /\ Unstarted /\ Bounded
  BY <1>1 DEF SeenInv
<1>3. SeenInv' /\ Ordered' /\ AllLimited' /\ AllLocated' /\ AllFound'
  BY <1>1, <1>2, SeenNext, OrderedNext, AllLimitedNext, AllLocatedNext, AllFoundNext
<1>4. CASE Rivals \/ Hasty
  <2>1. UNCHANGED registry
    BY <1>2, RegistryKept
  <2>2. Rivals' \/ Hasty'
    BY <1>4, <2>1 DEF Rivals, Hasty, Share, MaySucceed, Type
  <2> QED BY <1>3, <2>2 DEF CalmInv
<1>5. CASE ~Rivals /\ ~Hasty
  <2>1. Seekable /\ ~crashed
    BY <1>5 DEF CalmInv
  <2>2. Seekable'
    BY <1>1, <1>5, <2>1, SeekableNext
  <2>3. ~crashed'
    BY <1>1, <1>5, <2>1, CalmNext
  <2> QED BY <1>3, <2>2, <2>3 DEF CalmInv
<1> QED BY <1>4, <1>5

LEMMA CalmInit == Init => CalmInv
<1> SUFFICES ASSUME Init PROVE CalmInv
  OBVIOUS
<1>0. Decoders \subseteq Goroutines
  BY Kinds
<1>1. SeenInv /\ AllLimited
  BY SeenInit, LimitedInit
<1>2. Ordered
  BY KeptInit DEF KeptInv
<1>3. AllLocated
  <2>1. \A g \in Decoders : pc[g] = "none" /\ on[g] = <<FirstConn, "c2s">>
    BY <1>0, Kinds DEF Init, ReadersInit
  <2>2. \A g \in Decoders, x \in Streams : ~Located(g, x)
    BY <2>1 DEF Located, Finding
  <2> QED BY <2>2 DEF AllLocated
<1>4. AllFound
  BY DEF Init, ReadersInit, AllFound
<1>5. Seekable /\ ~crashed
  BY <1>0 DEF Init, ReadersInit, Seekable
<1> QED BY <1>1, <1>2, <1>3, <1>4, <1>5 DEF CalmInv

\* Nothing panics, however many decoders and connections there are: a SeekTo
\* cuts bytes that the cache has and an interrupt is for a reader that is
\* there, unless two decoders may find one stream valid, or one counts bytes
\* that it has not seen or wants none.
THEOREM NothingPanics == Spec => []NeverPanics
<1>1. CalmInv => NeverPanics
  BY DEF CalmInv, NeverPanics
<1> QED BY <1>1, CalmInit, CalmStep, PTL DEF Spec
=============================================================================
