------------------------ MODULE ServerEndPointProofs ------------------------
(***************************************************************************)
(* Proofs about ServerEndPoint, for any connections, decoders, registries  *)
(* and numbers of bytes: types and the mutex, what decoders see of a       *)
(* stream, and that Parse is given what ValidStream promises.              *)
(***************************************************************************)
EXTENDS ServerEndPoint, SequenceTheorems, TLAPS

\* g is in a Read or ConcurrentRead and has the mutex.
Inside == {"locked", "append"}

\* The mutex of a stream belongs to the goroutine that is in a Read of it.
Holders == \A g \in Goroutines : pc[g] \in Inside => mutex[on[g]] = g

Mutexes ==
  /\ \A x \in Streams : mutex[x] # Nobody => pc[mutex[x]] \in Inside /\ on[mutex[x]] = x
  /\ Holders

\* The types of what a goroutine changes, and of what the endpoint does.
ReaderTypes ==
  /\ arrived \in [Streams -> Nat]
  /\ ended \in [Streams -> BOOLEAN]
  /\ taken \in [Streams -> Nat]
  /\ interrupt \in [Streams -> BOOLEAN]
  /\ cache \in [Streams -> Seq(Nat)]
  /\ index \in [Streams -> [Goroutines -> Nat]]
  /\ written \in [Goroutines -> Seq(Nat)]
  /\ given \in [Goroutines -> [Streams -> Seq(Nat)]]

EndPointTypes ==
  /\ registry \in Registries
  /\ conns \in SUBSET Conns
  /\ decoderReady \in BOOLEAN
  /\ decoderName \in Decoders \cup {DefaultDecoderName}
  /\ turns \in [Conns -> Nat]
  /\ start \in [Streams -> Nat]
  /\ ready \in [Streams -> BOOLEAN]
  /\ crashed \in BOOLEAN
  /\ validated \in [Streams -> BOOLEAN]
  /\ forbidden \in [Streams -> BOOLEAN]

ControlTypes ==
  /\ pc \in [Goroutines -> Labels]
  /\ on \in [Goroutines -> Streams]
  /\ mutex \in [Streams -> Goroutines \cup {Nobody}]

Typed == ReaderTypes /\ EndPointTypes /\ ControlTypes /\ Mutexes

LEMMA TypedIsTypeOK == Typed => TypeOK
BY DEF Typed, ReaderTypes, EndPointTypes, ControlTypes, Mutexes, Inside, TypeOK

LEMMA Kinds ==
  /\ Goroutines = Decoders \cup Conns /\ Parsers = Conns
  /\ Decoders \cap Conns = {} /\ Nobody \notin Goroutines
  /\ Streams = Conns \X Directions /\ FirstConn \in Conns
  /\ \A c \in Conns, d \in Directions : <<c, d>> \in Streams
  /\ \A x \in Streams : x[1] \in Conns /\ x[2] \in Directions /\ Other(x) \in Streams
  /\ MaxBytes \in [Streams -> Nat]
BY EndPointAssumption DEF Goroutines, Directions, Other

-----------------------------------------------------------------------------
(* The mutexes.                                                            *)

\* g goes on outside of a Read.
LEMMA MutexOutside ==
  ASSUME ControlTypes, Mutexes, NEW g \in Goroutines,
         pc[g] \notin Inside, NEW l \in Labels \ Inside, Goes(g, l),
         NEW y \in Streams, on' = [on EXCEPT ![g] = y], UNCHANGED mutex
  PROVE  ControlTypes' /\ Mutexes'
<1>1. pc'[g] = l /\ \A h \in Goroutines : h # g => pc'[h] = pc[h] /\ on'[h] = on[h]
  BY DEF Goes, ControlTypes
<1>2. ControlTypes'
  BY DEF ControlTypes, Goes
<1>3. \A x \in Streams : mutex[x] # g
  BY Kinds DEF Mutexes
<1>4. \A x \in Streams : mutex[x] # Nobody => mutex[x] \in Goroutines
  BY DEF ControlTypes
<1>5. \A x \in Streams : mutex[x] # Nobody => pc'[mutex[x]] \in Inside /\ on'[mutex[x]] = x
  BY <1>1, <1>3, <1>4 DEF Mutexes
<1>6. Holders'
  BY <1>1 DEF Mutexes, Holders
<1> QED BY <1>2, <1>5, <1>6 DEF Mutexes

LEMMA OnItself == ControlTypes => \A g \in Goroutines : on = [on EXCEPT ![g] = on[g]]
BY DEF ControlTypes

LEMMA MutexGoes ==
  ASSUME ControlTypes, Mutexes, NEW g \in Goroutines,
         pc[g] \notin Inside, NEW l \in Labels \ Inside, Goes(g, l), UNCHANGED <<on, mutex>>
  PROVE  ControlTypes' /\ Mutexes'
<1>1. on[g] \in Streams /\ on' = [on EXCEPT ![g] = on[g]]
  BY OnItself DEF ControlTypes
<1> QED BY <1>1, MutexOutside

LEMMA MutexLock ==
  ASSUME ControlTypes, Mutexes, NEW g \in Goroutines, Lock(g)
  PROVE  ControlTypes' /\ Mutexes'
<1>1. /\ pc' = [pc EXCEPT ![g] = "locked"] /\ pc[g] = "lock" /\ UNCHANGED on
      /\ mutex[on[g]] = Nobody /\ mutex' = [mutex EXCEPT ![on[g]] = g] /\ on[g] \in Streams
  BY DEF Lock, At, Goes, ControlTypes
<1>2. ControlTypes'
  BY <1>1 DEF ControlTypes, Labels
<1>3. g # Nobody
  BY Kinds
<1>4. Holders'
  <2> SUFFICES ASSUME NEW h \in Goroutines, pc'[h] \in Inside PROVE mutex'[on[h]] = h
    BY <1>1 DEF Holders
  <2>1. CASE h = g
    BY <1>1, <2>1 DEF ControlTypes
  <2>2. CASE h # g
    <3>1. pc[h] \in Inside
      BY <1>1, <2>2 DEF ControlTypes
    <3>2. mutex[on[h]] = h /\ h # Nobody /\ on[h] \in Streams
      BY <3>1, Kinds DEF Mutexes, Holders, ControlTypes
    <3> QED BY <1>1, <3>2 DEF ControlTypes
  <2> QED BY <2>1, <2>2
<1>5. ASSUME NEW x \in Streams, mutex'[x] # Nobody
      PROVE  pc'[mutex'[x]] \in Inside /\ on'[mutex'[x]] = x
  <2>1. CASE x = on[g]
    BY <1>1, <2>1 DEF ControlTypes, Inside
  <2>2. CASE x # on[g]
    <3>1. mutex'[x] = mutex[x]
      BY <1>1, <2>2 DEF ControlTypes
    <3>2. pc[mutex[x]] \in Inside /\ on[mutex[x]] = x /\ mutex[x] \in Goroutines
      BY <1>5, <3>1 DEF Mutexes, ControlTypes
    <3>3. mutex[x] # g
      BY <1>1, <3>2 DEF Inside
    <3>4. pc'[mutex[x]] = pc[mutex[x]]
      BY <1>1, <3>2, <3>3 DEF ControlTypes
    <3> QED BY <1>1, <3>1, <3>2, <3>4
  <2> QED BY <2>1, <2>2
<1> QED BY <1>2, <1>4, <1>5 DEF Mutexes

\* g unlocks the mutex and goes on outside.
LEMMA MutexUnlock ==
  ASSUME ControlTypes, Mutexes, NEW g \in Goroutines, pc[g] \in Inside,
         NEW l \in Labels \ Inside, Goes(g, l), mutex' = [mutex EXCEPT ![on[g]] = Nobody],
         UNCHANGED on
  PROVE  ControlTypes' /\ Mutexes'
<1>1. pc' = [pc EXCEPT ![g] = l] /\ on[g] \in Streams /\ mutex[on[g]] = g
  BY DEF Goes, ControlTypes, Mutexes, Holders
<1>2. ControlTypes'
  BY <1>1 DEF ControlTypes
<1>3. Holders'
  <2> SUFFICES ASSUME NEW h \in Goroutines, pc'[h] \in Inside PROVE mutex'[on[h]] = h
    BY DEF Holders
  <2>1. h # g /\ pc[h] \in Inside
    BY <1>1 DEF ControlTypes
  <2>2. mutex[on[h]] = h /\ on[h] # on[g] /\ on[h] \in Streams
    BY <1>1, <2>1 DEF Mutexes, Holders, ControlTypes
  <2> QED BY <2>2 DEF ControlTypes
<1>4. ASSUME NEW x \in Streams, mutex'[x] # Nobody
      PROVE  pc'[mutex'[x]] \in Inside /\ on'[mutex'[x]] = x
  <2>1. x # on[g] /\ mutex'[x] = mutex[x]
    BY <1>1, <1>4 DEF ControlTypes
  <2>2. pc[mutex[x]] \in Inside /\ on[mutex[x]] = x /\ mutex[x] \in Goroutines
    BY <1>4, <2>1 DEF Mutexes, ControlTypes
  <2>3. mutex[x] # g
    BY <2>1, <2>2
  <2> QED BY <1>1, <2>1, <2>2, <2>3 DEF ControlTypes
<1> QED BY <1>2, <1>3, <1>4 DEF Mutexes

\* g stays inside.
LEMMA MutexInside ==
  ASSUME ControlTypes, Mutexes, NEW g \in Goroutines, pc[g] \in Inside,
         Goes(g, "append"), UNCHANGED <<on, mutex>>
  PROVE  ControlTypes' /\ Mutexes'
<1>1. \A h \in Goroutines : pc'[h] \in Inside <=> pc[h] \in Inside
  BY DEF Goes, ControlTypes, Inside
<1>2. ControlTypes'
  BY DEF Goes, ControlTypes, Labels
<1>3. \A x \in Streams : mutex[x] # Nobody => mutex[x] \in Goroutines
  BY DEF ControlTypes
<1> QED BY <1>1, <1>2, <1>3 DEF Mutexes, Holders

-----------------------------------------------------------------------------
(* Types.                                                                  *)

\* Sequences of bytes cut and put together.
LEMMA Cuts ==
  ASSUME NEW s \in Seq(Nat), NEW m \in Nat, NEW n \in Nat, n <= Len(s)
  PROVE  /\ SubSeq(s, m + 1, n) \in Seq(Nat)
         /\ Len(SubSeq(s, m + 1, n)) = IF m <= n THEN n - m ELSE 0
         /\ \A i \in 1 .. Len(SubSeq(s, m + 1, n)) : SubSeq(s, m + 1, n)[i] = s[m + i]
<1>1. Len(s) \in Nat
  OBVIOUS
<1>2. CASE m + 1 <= n
  <2>1. \A i \in m + 1 .. n : s[i] \in Nat
    OBVIOUS
  <2> QED BY <1>1, <1>2, <2>1, SubSeqProperties
<1>3. CASE ~ (m + 1 <= n)
  <2>1. SubSeq(s, m + 1, n) = <<>>
    BY <1>1, <1>3, SubSeqProperties
  <2> QED BY <1>1, <1>3, <2>1
<1> QED BY <1>2, <1>3

LEMMA Concats ==
  ASSUME NEW s \in Seq(Nat), NEW t \in Seq(Nat)
  PROVE  /\ s \o t \in Seq(Nat) /\ Len(s \o t) = Len(s) + Len(t)
         /\ \A i \in 1 .. Len(s) : (s \o t)[i] = s[i]
         /\ \A i \in 1 .. Len(t) : (s \o t)[Len(s) + i] = t[i]
OBVIOUS

LEMMA TakenFacts ==
  ASSUME ReaderTypes, NEW x \in Streams, NEW n \in Nat
  PROVE  /\ Taken(x, n) \in Seq(Nat) /\ Len(Taken(x, n)) = n
         /\ \A i \in 1 .. n : Taken(x, n)[i] = taken[x] + i
BY DEF Taken, ReaderTypes

\* What g has not read of the cache.
LEMMA UnreadFacts ==
  ASSUME Typed, NEW g \in Goroutines
  PROVE  /\ on[g] \in Streams /\ cache[on[g]] \in Seq(Nat) /\ Len(cache[on[g]]) \in Nat
         /\ index[on[g]][g] \in Nat
         /\ Unread(g) \in Seq(Nat) /\ Len(Unread(g)) \in Nat
         /\ DOMAIN Unread(g) = 1 .. Len(Unread(g))
         /\ LET m == IF g \in Decoders THEN index[on[g]][g] ELSE 0
            IN  /\ Len(Unread(g)) = IF m <= Len(cache[on[g]]) THEN Len(cache[on[g]]) - m ELSE 0
                /\ \A i \in 1 .. Len(Unread(g)) : Unread(g)[i] = cache[on[g]][m + i]
<1> DEFINE m == IF g \in Decoders THEN index[on[g]][g] ELSE 0
           s == cache[on[g]]
<1>1. on[g] \in Streams
  BY DEF Typed, ControlTypes
<1>2. s \in Seq(Nat) /\ Len(s) \in Nat
  BY <1>1 DEF Typed, ReaderTypes
<1>3. index[on[g]][g] \in Nat /\ m \in Nat
  BY <1>1 DEF Typed, ReaderTypes
<1>4. Unread(g) = SubSeq(s, m + 1, Len(s))
  BY DEF Unread
<1> HIDE DEF m, s
<1>5. /\ Unread(g) \in Seq(Nat) /\ Len(Unread(g)) \in Nat
      /\ DOMAIN Unread(g) = 1 .. Len(Unread(g))
      /\ Len(Unread(g)) = IF m <= Len(s) THEN Len(s) - m ELSE 0
      /\ \A i \in 1 .. Len(Unread(g)) : Unread(g)[i] = s[m + i]
  BY <1>2, <1>3, <1>4, Cuts
<1> QED BY <1>1, <1>2, <1>3, <1>5 DEF m, s

\* The first n bytes of those.
LEMMA FirstUnread ==
  ASSUME Typed, NEW g \in Goroutines, NEW n \in DOMAIN Unread(g)
  PROVE  /\ n \in Nat /\ n <= Len(Unread(g))
         /\ SubSeq(Unread(g), 1, n) \in Seq(Nat) /\ Len(SubSeq(Unread(g), 1, n)) = n
         /\ \A i \in 1 .. n : SubSeq(Unread(g), 1, n)[i] = Unread(g)[i]
<1>1. n \in Nat /\ n >= 1 /\ n <= Len(Unread(g)) /\ Unread(g) \in Seq(Nat)
  BY UnreadFacts
<1>2. \A i \in 1 .. n : Unread(g)[i] \in Nat
  BY <1>1
<1> QED BY <1>1, <1>2, SubSeqProperties

LEMMA GivesTypes ==
  ASSUME Typed, NEW g \in Goroutines, NEW s \in Seq(Nat), Gives(g, s)
  PROVE  /\ given' \in [Goroutines -> [Streams -> Seq(Nat)]]
         /\ given'[g][on[g]] = given[g][on[g]] \o s
         /\ \A h \in Goroutines, x \in Streams : h # g \/ x # on[g] => given'[h][x] = given[h][x]
<1> DEFINE t == given[g][on[g]] \o s
           f == [given[g] EXCEPT ![on[g]] = t]
<1>1. on[g] \in Streams /\ given[g] \in [Streams -> Seq(Nat)]
  BY DEF Typed, ControlTypes, ReaderTypes
<1>2. t \in Seq(Nat)
  BY <1>1, Concats
<1>3. f \in [Streams -> Seq(Nat)] /\ f[on[g]] = t /\ \A x \in Streams : x # on[g] => f[x] = given[g][x]
  <2> HIDE DEF t
  <2> QED BY <1>1, <1>2
<1>4. given' = [given EXCEPT ![g] = f]
  BY DEF Gives
<1> HIDE DEF f
<1> QED BY <1>3, <1>4 DEF t, Typed, ReaderTypes

LEMMA IndexTypes ==
  ASSUME Typed, NEW g \in Goroutines, NEW n \in Nat, index' = [index EXCEPT ![on[g]][g] = @ + n]
  PROVE  /\ index' \in [Streams -> [Goroutines -> Nat]]
         /\ index'[on[g]][g] = index[on[g]][g] + n
         /\ \A h \in Goroutines, x \in Streams : h # g \/ x # on[g] => index'[x][h] = index[x][h]
<1> DEFINE m == index[on[g]][g] + n
           f == [index[on[g]] EXCEPT ![g] = m]
<1>1. on[g] \in Streams /\ index[on[g]] \in [Goroutines -> Nat]
  BY DEF Typed, ControlTypes, ReaderTypes
<1>2. m \in Nat
  BY <1>1
<1>3. f \in [Goroutines -> Nat] /\ f[g] = m /\ \A h \in Goroutines : h # g => f[h] = index[on[g]][h]
  <2> HIDE DEF m
  <2> QED BY <1>1, <1>2
<1>4. index' = [index EXCEPT ![on[g]] = f]
  OBVIOUS
<1> HIDE DEF f
<1> QED BY <1>1, <1>3, <1>4 DEF m, Typed, ReaderTypes

LEMMA EndPointUnchanged ==
  Typed /\ UNCHANGED <<ready, statusVars, endpointVars, crashed>> => EndPointTypes'
BY DEF Typed, EndPointTypes, statusVars, endpointVars

LEMMA ReaderUnchanged ==
  Typed /\ UNCHANGED <<arrived, ended, taken, interrupt, cache, index, written, given>> => ReaderTypes'
BY DEF Typed, ReaderTypes

\* Labels outside of a Read.
LEMMA Outside ==
  \A l \in {"none", "start", "running", "lock", "failed", "valid", "seek", "sought", "forbid",
            "interrupt", "name", "wait", "done"} : l \in Labels \ Inside
BY DEF Labels, Inside

LEMMA TypedReadStep ==
  ASSUME Typed, NEW g \in Goroutines, ReadStep(g), UNCHANGED <<endpointVars, crashed>>
  PROVE  Typed'
<1>0. on[g] \in Streams /\ ControlTypes /\ Mutexes
  BY DEF Typed, ControlTypes
<1>1. CASE Lock(g)
  BY <1>0, <1>1, MutexLock, EndPointUnchanged, ReaderUnchanged DEF Lock, Typed, sourceVars
<1>2. CASE ConcurrentReadCache(g)
  <2>1. PICK n \in DOMAIN Unread(g) :
          /\ Gives(g, SubSeq(Unread(g), 1, n))
          /\ index' = [index EXCEPT ![on[g]][g] = @ + n]
    BY <1>2 DEF ConcurrentReadCache
  <2>2. given' \in [Goroutines -> [Streams -> Seq(Nat)]] /\ index' \in [Streams -> [Goroutines -> Nat]]
    BY <2>1, FirstUnread, GivesTypes, IndexTypes
  <2>3. ReaderTypes'
    BY <1>2, <2>2 DEF ConcurrentReadCache, sourceVars, Typed, ReaderTypes
  <2>4. ControlTypes' /\ Mutexes'
    BY <1>0, <1>2, MutexUnlock, Outside DEF ConcurrentReadCache, Returns, At, Inside
  <2> QED BY <1>2, <2>3, <2>4, EndPointUnchanged DEF ConcurrentReadCache, sourceVars, Typed
<1>3. CASE ReadCache(g)
  <2>1. PICK n \in DOMAIN Unread(g) :
          /\ Gives(g, SubSeq(Unread(g), 1, n))
          /\ cache' = [cache EXCEPT ![on[g]] = SubSeq(@, n + 1, Len(@))]
    BY <1>3 DEF ReadCache
  <2>2. given' \in [Goroutines -> [Streams -> Seq(Nat)]]
    BY <2>1, FirstUnread, GivesTypes
  <2>3. SubSeq(cache[on[g]], n + 1, Len(cache[on[g]])) \in Seq(Nat)
    <3>1. n \in Nat
      BY FirstUnread
    <3> HIDE DEF ReadCache
    <3>2. cache[on[g]] \in Seq(Nat) /\ Len(cache[on[g]]) \in Nat
      BY UnreadFacts
    <3> QED BY <3>1, <3>2, Cuts
  <2>4. cache' \in [Streams -> Seq(Nat)]
    BY <2>1, <2>3 DEF Typed, ReaderTypes
  <2>5. ReaderTypes'
    BY <1>3, <2>2, <2>4 DEF ReadCache, sourceVars, Typed, ReaderTypes
  <2>6. ControlTypes' /\ Mutexes'
    BY <1>0, <1>3, MutexUnlock, Outside DEF ReadCache, Returns, At, Inside
  <2> QED BY <1>3, <2>5, <2>6, EndPointUnchanged DEF ReadCache, sourceVars, Typed
<1>4. CASE ConcurrentReadTake(g)
  <2>1. PICK n \in 1 .. arrived[on[g]] - taken[on[g]] :
          /\ taken' = [taken EXCEPT ![on[g]] = @ + n]
          /\ written' = [written EXCEPT ![g] = cache[on[g]] \o Taken(on[g], n)]
          /\ index' = [index EXCEPT ![on[g]][g] = @ + n]
          /\ Gives(g, Taken(on[g], n))
    BY <1>4 DEF ConcurrentReadTake
  <2>2. n \in Nat /\ Taken(on[g], n) \in Seq(Nat)
    BY <1>0, TakenFacts DEF Typed, ReaderTypes
  <2>3. cache[on[g]] \o Taken(on[g], n) \in Seq(Nat)
    BY <2>2, UnreadFacts, Concats
  <2>4. written' \in [Goroutines -> Seq(Nat)] /\ taken' \in [Streams -> Nat]
    <3>1. written' \in [Goroutines -> Seq(Nat)]
      <4> DEFINE w == cache[on[g]] \o Taken(on[g], n)
      <4>1. w \in Seq(Nat) /\ written' = [written EXCEPT ![g] = w]
        BY <2>1, <2>3
      <4>2. written \in [Goroutines -> Seq(Nat)]
        BY DEF Typed, ReaderTypes
      <4> HIDE DEF w
      <4> QED BY <4>1, <4>2
    <3>2. taken' \in [Streams -> Nat]
      BY <1>0, <2>1, <2>2 DEF Typed, ReaderTypes
    <3> QED BY <3>1, <3>2
  <2>5. given' \in [Goroutines -> [Streams -> Seq(Nat)]] /\ index' \in [Streams -> [Goroutines -> Nat]]
    BY <2>1, <2>2, GivesTypes, IndexTypes
  <2>6. ReaderTypes'
    BY <1>4, <2>4, <2>5 DEF ConcurrentReadTake, sourceVars, Typed, ReaderTypes
  <2>7. ControlTypes' /\ Mutexes'
    BY <1>0, <1>4, MutexInside DEF ConcurrentReadTake, InReader, At, Inside
  <2> QED BY <1>4, <2>6, <2>7, EndPointUnchanged DEF ConcurrentReadTake, sourceVars, Typed
<1>5. CASE ConcurrentReadAppend(g)
  <2>1. ReaderTypes'
    BY <1>0, <1>5 DEF ConcurrentReadAppend, sourceVars, Typed, ReaderTypes
  <2>2. ControlTypes' /\ Mutexes'
    BY <1>0, <1>5, MutexUnlock, Outside DEF ConcurrentReadAppend, Returns, At, Inside
  <2> QED BY <1>5, <2>1, <2>2, EndPointUnchanged DEF ConcurrentReadAppend, sourceVars, Typed
<1>6. CASE ReadTake(g)
  <2>1. PICK n \in 1 .. arrived[on[g]] - taken[on[g]] :
          /\ taken' = [taken EXCEPT ![on[g]] = @ + n]
          /\ Gives(g, Taken(on[g], n))
    BY <1>6 DEF ReadTake
  <2>2. n \in Nat /\ Taken(on[g], n) \in Seq(Nat)
    BY <1>0, TakenFacts DEF Typed, ReaderTypes
  <2>3. given' \in [Goroutines -> [Streams -> Seq(Nat)]]
    BY <2>1, <2>2, GivesTypes
  <2>4. taken' \in [Streams -> Nat]
    BY <1>0, <2>1, <2>2 DEF Typed, ReaderTypes
  <2>5. ReaderTypes'
    BY <1>6, <2>3, <2>4 DEF ReadTake, sourceVars, Typed, ReaderTypes
  <2>6. ControlTypes' /\ Mutexes'
    BY <1>0, <1>6, MutexUnlock, Outside DEF ReadTake, Returns, InReader, At, Inside
  <2> QED BY <1>6, <2>5, <2>6, EndPointUnchanged DEF ReadTake, sourceVars, Typed
<1>7. CASE ReadEOF(g)
  <2>1. ControlTypes' /\ Mutexes'
    BY <1>0, <1>7, MutexUnlock, Outside DEF ReadEOF, AtEnd, InReader, At, Inside
  <2> QED BY <1>7, <2>1, EndPointUnchanged, ReaderUnchanged DEF ReadEOF, sourceVars, Typed
<1>8. CASE ReceiveInterrupt(g)
  <2>1. ReaderTypes'
    BY <1>8 DEF ReceiveInterrupt, sourceVars, Typed, ReaderTypes
  <2>2. ControlTypes' /\ Mutexes'
    BY <1>8 DEF ReceiveInterrupt, Typed, ControlTypes, Mutexes, Holders
  <2> QED BY <1>8, <2>1, <2>2, EndPointUnchanged DEF ReceiveInterrupt, sourceVars, Typed
<1> QED BY <1>1, <1>2, <1>3, <1>4, <1>5, <1>6, <1>7, <1>8 DEF ReadStep

\* CallRead, from a decoder or from Parse.
LEMMA TypedCallRead ==
  ASSUME Typed, NEW g \in Goroutines, CallRead(g), UNCHANGED <<endpointVars, crashed>>
  PROVE  Typed'
<1> DEFINE l == IF (IF g \in Decoders THEN allowConcurrentRead(on[g]) ELSE isValidate(on[g]))
                THEN "lock" ELSE "failed"
<1>1. l \in Labels \ Inside /\ pc[g] \notin Inside
  BY Outside DEF CallRead, At, Inside
<1>2. Goes(g, l) /\ UNCHANGED <<on, mutex>>
  BY DEF CallRead
<1> HIDE DEF l
<1>3. ControlTypes' /\ Mutexes'
  BY <1>1, <1>2, MutexGoes DEF Typed
<1> QED BY <1>3, EndPointUnchanged, ReaderUnchanged DEF CallRead, sourceVars, Typed

\* A step of g outside of the reader.
LEMMA TypedOutside ==
  ASSUME Typed, NEW g \in Goroutines, pc[g] \notin Inside, NEW l \in Labels \ Inside, Goes(g, l),
         NEW y \in Streams, on' = [on EXCEPT ![g] = y], KeepReader, EndPointTypes'
  PROVE  Typed'
<1>1. ControlTypes' /\ Mutexes'
  BY MutexOutside DEF Typed, KeepReader
<1> QED BY <1>1, ReaderUnchanged DEF KeepReader, sourceVars, Typed

LEMMA EndPointKept ==
  Typed /\ KeepReader /\ UNCHANGED <<endpointVars, crashed>> => EndPointTypes'
BY EndPointUnchanged DEF KeepReader, sourceVars

LEMMA TypedDecoderStep ==
  ASSUME Typed, NEW g \in Decoders, DecoderStep(g)
  PROVE  Typed'
<1>0. g \in Goroutines /\ on[g] \in Streams /\ on = [on EXCEPT ![g] = on[g]] /\ Other(on[g]) \in Streams
  BY Kinds, OnItself DEF Typed, ControlTypes
<1>1. CASE Start(g)
  <2> DEFINE l == IF Type(g) = 0 THEN "done" ELSE "running"
             y == <<FirstConn, IF Type(g) = 2 THEN "s2c" ELSE "c2s">>
  <2>1. l \in Labels \ Inside /\ y \in Streams /\ pc[g] \notin Inside
    BY <1>1, Kinds, Outside DEF Start, At, Directions, Inside
  <2>2. Goes(g, l) /\ on' = [on EXCEPT ![g] = y] /\ KeepReader /\ EndPointTypes'
    BY <1>1, EndPointKept DEF Start
  <2> HIDE DEF l, y
  <2> QED BY <1>0, <2>1, <2>2, TypedOutside
<1>2. CASE LocateRead(g)
  BY <1>0, <1>2, TypedCallRead DEF LocateRead
<1>3. CASE Locates(g)
  <2> DEFINE l == IF Type(g) = 3 /\ on[g][2] = "c2s" THEN "running" ELSE "valid"
             y == IF Type(g) = 3 THEN Other(on[g]) ELSE on[g]
  <2>1. l \in Labels \ Inside /\ y \in Streams /\ pc[g] \notin Inside
    BY <1>0, <1>3, Outside DEF Locates, At, Inside
  <2>2. Goes(g, l) /\ on' = [on EXCEPT ![g] = y] /\ KeepReader /\ EndPointTypes'
    BY <1>0, <1>3, EndPointKept DEF Locates, Typed, ControlTypes
  <2> HIDE DEF l, y
  <2> QED BY <1>0, <2>1, <2>2, TypedOutside
<1>4. CASE LocateFails(g)
  BY <1>0, <1>4, Outside, EndPointKept, TypedOutside DEF LocateFails, At, Inside
<1>5. CASE Validate(g)
  <2>1. ControlTypes' /\ Mutexes'
    BY <1>0, <1>5, MutexGoes, Outside DEF Validate, SetValidStatus, At, Inside, Typed
  <2>2. EndPointTypes'
    BY <1>0, <1>5 DEF Validate, SetValidStatus, Typed, EndPointTypes, endpointVars, sourceVars
  <2> QED BY <1>5, <2>1, <2>2, ReaderUnchanged DEF Validate, SetValidStatus, sourceVars, Typed
<1>6. CASE Seek(g)
  <2>1. ControlTypes' /\ Mutexes'
    BY <1>0, <1>6, MutexGoes, Outside DEF Seek, SeekTo, At, Inside, Typed
  <2>2. Count(g) \in Nat
    <3>1. registry \in Registries /\ Registries \subseteq [Decoders -> Decoder]
      BY EndPointAssumption DEF Typed, EndPointTypes
    <3>2. registry[g] \in Decoder
      BY <3>1
    <3>3. registry[g].count \in [Directions -> Nat]
      BY <3>2 DEF Decoder
    <3>4. on[g][2] \in Directions
      BY <1>0, Kinds
    <3> QED BY <3>3, <3>4 DEF Count
  <2>3. EndPointTypes'
    BY <1>0, <1>6, <2>2 DEF Seek, SeekTo, Typed, EndPointTypes, statusVars, sourceVars
  <2>4. SubSeq(cache[on[g]], Count(g) + 1, Len(cache[on[g]])) \in Seq(Nat)
    <3>1. cache[on[g]] \in Seq(Nat) /\ Len(cache[on[g]]) \in Nat
      BY <1>0, UnreadFacts
    <3> QED BY <2>2, <3>1, Cuts
  <2>5. ReaderTypes'
    BY <1>6, <2>4 DEF Seek, SeekTo, sourceVars, Typed, ReaderTypes
  <2> QED BY <2>1, <2>3, <2>5 DEF Typed
<1>7. CASE SeekEnds(g)
  <2>1. ControlTypes' /\ Mutexes'
    BY <1>0, <1>7, MutexGoes, Outside DEF SeekEnds, Sought, At, Inside, Typed
  <2>2. ReaderTypes'
    BY <1>0, <1>7 DEF SeekEnds, Sought, sourceVars, Typed, ReaderTypes
  <2> QED BY <1>7, <2>1, <2>2, EndPointUnchanged DEF SeekEnds, Sought, sourceVars, Typed
<1>8. CASE Forbid(g)
  <2>1. ControlTypes' /\ Mutexes'
    BY <1>0, <1>8, MutexGoes, Outside DEF Forbid, ForbiddenConcurrentRead, At, Inside, Typed
  <2>2. EndPointTypes'
    BY <1>0, <1>8 DEF Forbid, ForbiddenConcurrentRead, Typed, EndPointTypes, endpointVars, sourceVars
  <2> QED BY <1>8, <2>1, <2>2, ReaderUnchanged DEF Forbid, ForbiddenConcurrentRead, sourceVars, Typed
<1>9. CASE InterruptReading(g)
  <2> DEFINE l == IF Type(g) = 3 /\ on[g][2] = "c2s" THEN "valid" ELSE "name"
             y == IF Type(g) = 3 /\ on[g][2] = "c2s" THEN Other(on[g]) ELSE on[g]
  <2>1. l \in Labels \ Inside /\ y \in Streams /\ pc[g] \notin Inside
    BY <1>0, <1>9, Outside DEF InterruptReading, At, Inside
  <2>2. Goes(g, l) /\ on' = [on EXCEPT ![g] = y] /\ UNCHANGED mutex
    BY <1>0, <1>9 DEF InterruptReading, Typed, ControlTypes
  <2> HIDE DEF l, y
  <2>3. ControlTypes' /\ Mutexes'
    BY <1>0, <2>1, <2>2, MutexOutside DEF Typed
  <2>4. ReaderTypes'
    <3>1. /\ interrupt' = [interrupt EXCEPT ![on[g]] = TRUE]
          /\ UNCHANGED <<arrived, ended, taken, cache, index, written, given>>
      BY <1>9 DEF InterruptReading, InterruptBlockingReading, sourceVars
    <3> QED BY <3>1 DEF Typed, ReaderTypes
  <2>5. EndPointTypes'
    BY <1>0, <1>9 DEF InterruptReading, Typed, EndPointTypes, endpointVars, statusVars, sourceVars
  <2> QED BY <2>3, <2>4, <2>5 DEF Typed
<1>10. CASE Choose(g)
  <2>1. EndPointTypes'
    BY <1>10 DEF Choose, KeepReader, sourceVars, statusVars, Typed, EndPointTypes
  <2> QED BY <1>0, <1>10, <2>1, Outside, TypedOutside DEF Choose, At, Inside
<1> QED BY <1>1, <1>2, <1>3, <1>4, <1>5, <1>6, <1>7, <1>8, <1>9, <1>10 DEF DecoderStep

LEMMA TypedParserStep ==
  ASSUME Typed, NEW c \in Conns, ParserStep(c)
  PROVE  Typed'
<1>0. c \in Goroutines /\ on[c] \in Streams /\ on = [on EXCEPT ![c] = on[c]] /\ Other(on[c]) \in Streams
  BY Kinds, OnItself DEF Typed, ControlTypes
<1>1. CASE StartParse(c)
  <2>1. ControlTypes' /\ Mutexes'
    BY <1>0, <1>1, MutexGoes, Outside DEF StartParse, At, Inside, Typed
  <2>2. EndPointTypes'
    BY <1>1 DEF StartParse, Typed, EndPointTypes, endpointVars, sourceVars
  <2> QED BY <1>1, <2>1, <2>2, ReaderUnchanged DEF StartParse, sourceVars, Typed
<1>2. CASE ParseRead(c)
  BY <1>0, <1>2, TypedCallRead DEF ParseRead
<1>3. CASE DefaultNext(c)
  <2> DEFINE l == IF on[c][2] = "c2s" THEN "running" ELSE "done"
             y == <<c, "s2c">>
  <2>1. l \in Labels \ Inside /\ y \in Streams /\ pc[c] \notin Inside
    BY <1>3, Kinds, Outside DEF DefaultNext, At, Directions, Inside
  <2>2. Goes(c, l) /\ on' = [on EXCEPT ![c] = y] /\ KeepReader /\ EndPointTypes'
    BY <1>3, EndPointKept DEF DefaultNext
  <2> HIDE DEF l, y
  <2> QED BY <1>0, <2>1, <2>2, TypedOutside
<1>4. CASE ParseNext(c)
  <2>1. Goes(c, "running") /\ "running" \in Labels \ Inside /\ pc[c] \notin Inside
    BY <1>0, <1>4, Outside DEF ParseNext, Goes, At, Typed, ControlTypes, Inside
  <2>2. on' = [on EXCEPT ![c] = Other(on[c])] /\ KeepReader
    BY <1>0, <1>4 DEF ParseNext, Typed, ControlTypes
  <2>3. EndPointTypes'
    BY <1>4 DEF ParseNext, KeepReader, sourceVars, statusVars, Typed, EndPointTypes
  <2> QED BY <1>0, <2>1, <2>2, <2>3, TypedOutside
<1>5. CASE ParseFails(c)
  BY <1>0, <1>5, Outside, EndPointKept, TypedOutside DEF ParseFails, At, Inside
<1> QED BY <1>1, <1>2, <1>3, <1>4, <1>5 DEF ParserStep

LEMMA TypedAddStream ==
  ASSUME Typed, NEW c \in Conns, NEW d \in Directions, addStream(c, d),
         \A g \in Goroutines : conns = {} => pc[g] = "none",
         \A e \in Conns : e \notin conns => pc[e] = "none"
  PROVE  Typed'
<1>1. \A g \in Goroutines :
        \/ pc'[g] = pc[g]
        \/ pc[g] = "none" /\ pc'[g] \in {"wait", "start"}
  BY Kinds DEF addStream
<1>2. pc' \in [Goroutines -> Labels]
  <2>1. \A g \in Goroutines : pc'[g] \in Labels
    BY <1>1 DEF Typed, ControlTypes, Labels
  <2> QED BY <2>1 DEF addStream
<1>3. \A g \in Goroutines : pc[g] \in Inside => pc'[g] = pc[g]
  BY <1>1 DEF Inside
<1>4. \A g \in Goroutines : pc'[g] \in Inside => pc[g] \in Inside
  BY <1>1 DEF Inside
<1>5. \A x \in Streams : mutex[x] # Nobody => mutex[x] \in Goroutines
  BY DEF Typed, ControlTypes
<1>6. UNCHANGED <<on, mutex>>
  BY DEF addStream
<1>7. ControlTypes' /\ Mutexes'
  BY <1>2, <1>3, <1>4, <1>5, <1>6 DEF Typed, ControlTypes, Mutexes, Holders
<1>8. EndPointTypes'
  BY Kinds DEF addStream, SetStream, SetReaderReady, statusVars, Typed, EndPointTypes
<1> QED BY <1>7, <1>8, ReaderUnchanged DEF addStream, Typed

\* Goroutines that have not started.
Unstarted ==
  /\ conns = {} => \A g \in Goroutines : pc[g] = "none"
  /\ \A c \in Conns : c \notin conns => pc[c] = "none"

LEMMA TypedInit == Init => Typed /\ Unstarted
<1> SUFFICES ASSUME Init PROVE Typed /\ Unstarted
  OBVIOUS
<1>1. ReaderTypes
  BY DEF Init, ReadersInit, ReaderTypes
<1>2. EndPointTypes
  BY DEF Init, ReadersInit, EndPointTypes
<1>3. on \in [Goroutines -> Streams]
  BY Kinds DEF Init, Directions
<1>4. ControlTypes /\ Mutexes
  BY <1>3 DEF Init, ReadersInit, ControlTypes, Mutexes, Holders, Labels, Inside
<1>5. Unstarted
  BY Kinds DEF Init, ReadersInit, Unstarted
<1> QED BY <1>1, <1>2, <1>4, <1>5 DEF Typed

LEMMA TypedNext == Typed /\ Unstarted /\ [Next]_vars => Typed'
<1> SUFFICES ASSUME Typed, Unstarted, [Next]_vars PROVE Typed'
  OBVIOUS
<1>1. ASSUME NEW c \in Conns, NEW d \in Directions, addStream(c, d) PROVE Typed'
  BY <1>1, TypedAddStream DEF Unstarted
<1>2. ASSUME NEW x \in Streams, Assembles(x) PROVE Typed'
  <2>1. ReaderTypes'
    <3>1. CASE Arrive(x)
      <4>1. /\ arrived' = [arrived EXCEPT ![x] = @ + 1]
            /\ UNCHANGED <<ended, taken, interrupt, cache, index, written, given>>
        BY <3>1 DEF Arrive
      <4> QED BY <4>1 DEF Typed, ReaderTypes
    <3>2. CASE End(x)
      <4>1. /\ ended' = [ended EXCEPT ![x] = TRUE]
            /\ UNCHANGED <<arrived, taken, interrupt, cache, index, written, given>>
        BY <3>2 DEF End
      <4> QED BY <4>1 DEF Typed, ReaderTypes
    <3> QED BY <1>2, <3>1, <3>2 DEF Assembles
  <2>2. EndPointTypes'
    BY <1>2, EndPointUnchanged DEF Assembles, Arrive, End
  <2>3. ControlTypes' /\ Mutexes'
    BY <1>2 DEF Assembles, Arrive, End, Typed, ControlTypes, Mutexes, Holders
  <2> QED BY <2>1, <2>2, <2>3 DEF Typed
<1>3. CASE ChooseReady
  <2>1. ReaderTypes' /\ EndPointTypes'
    BY <1>3 DEF ChooseReady, readerVars, Typed, ReaderTypes, EndPointTypes
  <2>2. ControlTypes' /\ Mutexes'
    BY <1>3 DEF ChooseReady, readerVars, Typed, ControlTypes, Mutexes, Holders
  <2> QED BY <2>1, <2>2 DEF Typed
<1>4. ASSUME NEW g \in Goroutines, GoroutineStep(g) PROVE Typed'
  BY <1>4, TypedReadStep, TypedDecoderStep, TypedParserStep DEF GoroutineStep
<1>5. CASE UNCHANGED vars
  <2>1. ReaderTypes' /\ EndPointTypes'
    BY <1>5 DEF vars, endpointVars, readerVars, Typed, ReaderTypes, EndPointTypes
  <2>2. ControlTypes' /\ Mutexes'
    BY <1>5 DEF vars, readerVars, Typed, ControlTypes, Mutexes, Holders
  <2> QED BY <2>1, <2>2 DEF Typed
<1> QED BY <1>1, <1>2, <1>3, <1>4, <1>5 DEF Next, Environment, ChooserStep, startParseStream

LEMMA Stepped ==
  ASSUME Typed, NEW g \in Goroutines, GoroutineStep(g)
  PROVE  /\ pc[g] # "none" /\ UNCHANGED <<conns, registry>> /\ ~crashed
         /\ \A h \in Goroutines : h # g => pc'[h] = pc[h] /\ on'[h] = on[h] /\ written'[h] = written[h]
<1>0. pc \in [Goroutines -> Labels] /\ on \in [Goroutines -> Streams]
      /\ written \in [Goroutines -> Seq(Nat)]
  BY DEF Typed, ControlTypes, ReaderTypes
<1>1. CASE ReadStep(g) /\ UNCHANGED <<endpointVars, crashed>>
  BY <1>0, <1>1 DEF GoroutineStep, ReadStep, Lock, ConcurrentReadCache, ConcurrentReadTake,
     ConcurrentReadAppend, ReadCache, ReadTake, ReadEOF, AtEnd, InReader, ReceiveInterrupt, At, Goes,
     Returns, endpointVars
<1>2. CASE DecoderStep(g)
  BY <1>0, <1>2 DEF GoroutineStep, DecoderStep, Start, LocateRead, CallRead, Locates, LocateFails,
     Validate, SetValidStatus, Seek, SeekTo, SeekEnds, Sought, Forbid, ForbiddenConcurrentRead,
     InterruptReading, Choose, KeepReader, At, Goes, endpointVars
<1>3. CASE ParserStep(g)
  BY <1>0, <1>3 DEF GoroutineStep, ParserStep, StartParse, ParseRead, CallRead, DefaultNext,
     ParseNext, ParseFails, KeepReader, At, Goes, endpointVars
<1> QED BY <1>1, <1>2, <1>3 DEF GoroutineStep

LEMMA UnstartedNext == Typed /\ Unstarted /\ [Next]_vars => Unstarted'
<1> SUFFICES ASSUME Typed, Unstarted, [Next]_vars PROVE Unstarted'
  OBVIOUS
<1>1. ASSUME NEW c \in Conns, NEW d \in Directions, addStream(c, d) PROVE Unstarted'
  BY <1>1, Kinds DEF addStream, Unstarted
<1>2. ASSUME NEW x \in Streams, Assembles(x) PROVE Unstarted'
  BY <1>2 DEF Assembles, Arrive, End, endpointVars, Unstarted
<1>3. CASE ChooseReady
  BY <1>3 DEF ChooseReady, readerVars, Unstarted
<1>4. ASSUME NEW g \in Goroutines, GoroutineStep(g) PROVE Unstarted'
  BY <1>4, Stepped, Kinds DEF Unstarted
<1>5. CASE UNCHANGED vars
  BY <1>5 DEF vars, endpointVars, readerVars, Unstarted
<1> QED BY <1>1, <1>2, <1>3, <1>4, <1>5 DEF Next, Environment, ChooserStep, startParseStream

\* Every variable keeps its type, and the goroutine that holds a stream's mutex
\* is always inside a Read of that stream, so that nobody unlocks another's.
THEOREM EndPointTypeCorrect == Spec => []TypeOK
<1>1. Init => Typed /\ Unstarted
  BY TypedInit
<1>2. Typed /\ Unstarted /\ [Next]_vars => Typed' /\ Unstarted'
  BY TypedNext, UnstartedNext
<1> QED BY <1>1, <1>2, TypedIsTypeOK, PTL DEF Spec

-----------------------------------------------------------------------------
(* What the decoders see before a valid start is found.                    *)

\* The sequence 1, 2, 3, ...
Counts(s) == \A i \in 1 .. Len(s) : s[i] = i

\* g has taken bytes from the reader of x that are not in the cache yet.
Appends(g, x) == pc[g] = "append" /\ on[g] = x

\* Only a parser of a valid stream reads it, and only a decoder that found it
\* valid cuts the cache.
Bounded ==
  /\ \A g \in Goroutines : pc[g] \in {"seek", "sought", "forbid", "interrupt"} => validated[on[g]]
  /\ \A c \in Conns : pc[c] \in {"lock", "locked"} => validated[on[c]]
  /\ \A c \in Conns : pc[c] # "append"

\* The cache is the start of the stream; what each decoder was given ends at
\* its position; what was taken is in the cache or about to be written to it.
StreamSeen(x) ==
  /\ Counts(cache[x])
  /\ (\A g \in Decoders : ~Appends(g, x)) => taken[x] = Len(cache[x])
  /\ \A g \in Decoders :
       /\ Counts(given[g][x])
       /\ Len(given[g][x]) = index[x][g]
       /\ ~Appends(g, x) => index[x][g] <= Len(cache[x])
       /\ Appends(g, x) => Counts(written[g]) /\ Len(written[g]) = taken[x]
       /\ Appends(g, x) => index[x][g] = taken[x]
  /\ Len(cache[x]) <= taken[x]

AllSeen == \A x \in Streams : ~validated[x] => StreamSeen(x)

\* The inductive invariant behind SeenFromTheStart.
SeenInv == Typed /\ Unstarted /\ Bounded /\ AllSeen

LEMMA CountsIs ==
  ASSUME NEW s \in Seq(Nat), Counts(s)
  PROVE  s = [i \in 1 .. Len(s) |-> i]
BY DEF Counts

LEMMA BoundedNext == Typed /\ Unstarted /\ Bounded /\ [Next]_vars => Bounded'
<1> SUFFICES ASSUME Typed, Unstarted, Bounded, [Next]_vars PROVE Bounded'
  OBVIOUS
<1>0. /\ pc \in [Goroutines -> Labels] /\ on \in [Goroutines -> Streams]
      /\ validated \in [Streams -> BOOLEAN]
  BY DEF Typed, ControlTypes, EndPointTypes
<1>1. ASSUME NEW c \in Conns, NEW d \in Directions, addStream(c, d) PROVE Bounded'
  <2>1. UNCHANGED <<validated, on>>
    BY <1>1 DEF addStream, statusVars
  <2>2. \A g \in Goroutines : pc'[g] = pc[g] \/ pc'[g] \in {"wait", "start"}
    BY <1>1, Kinds DEF addStream
  <2> QED BY <2>1, <2>2, Kinds DEF Bounded
<1>2. ASSUME NEW x \in Streams, Assembles(x) PROVE Bounded'
  BY <1>2 DEF Assembles, Arrive, End, statusVars, Bounded
<1>3. CASE ChooseReady
  BY <1>3 DEF ChooseReady, readerVars, Bounded
<1>4. ASSUME NEW g \in Goroutines, GoroutineStep(g) PROVE Bounded'
  <2>1. \A h \in Goroutines : h # g => pc'[h] = pc[h] /\ on'[h] = on[h]
    BY <1>4, Stepped
  <2>2. \A x \in Streams : validated[x] => validated'[x]
    <3>1. CASE ReadStep(g) /\ UNCHANGED <<endpointVars, crashed>>
      BY <3>1 DEF ReadStep, Lock, ConcurrentReadCache, ConcurrentReadTake, ConcurrentReadAppend,
         ReadCache, ReadTake, ReadEOF, ReceiveInterrupt, statusVars
    <3>2. CASE DecoderStep(g)
      BY <1>0, <3>2 DEF DecoderStep, Start, LocateRead, CallRead, Locates, LocateFails, Validate,
         SetValidStatus, Seek, SeekTo, SeekEnds, Sought, Forbid, ForbiddenConcurrentRead,
         InterruptReading, Choose, KeepReader, statusVars
    <3>3. CASE ParserStep(g)
      BY <1>0, <3>3 DEF ParserStep, StartParse, ParseRead, CallRead, DefaultNext, ParseNext,
         ParseFails, KeepReader, statusVars
    <3> QED BY <1>4, <3>1, <3>2, <3>3 DEF GoroutineStep
  <2>3. /\ pc'[g] \in {"seek", "sought", "forbid", "interrupt"} => validated'[on'[g]]
        /\ g \in Conns => pc'[g] # "append"
        /\ g \in Conns /\ pc'[g] \in {"lock", "locked"} => validated'[on'[g]]
    <3>0. on[g] \in Streams
      BY <1>0
    <3>1. CASE ReadStep(g) /\ UNCHANGED <<endpointVars, crashed>>
      BY <1>0, <2>2, <3>0, <3>1, Kinds DEF ReadStep, Lock, ConcurrentReadCache, ConcurrentReadTake,
         ConcurrentReadAppend, ReadCache, ReadTake, ReadEOF, AtEnd, InReader, ReceiveInterrupt,
         statusVars, At, Goes, Returns, Bounded
    <3>2. CASE g \in Decoders /\ DecoderStep(g)
      <4>0. g \notin Conns /\ g \in Goroutines
        BY <3>2, Kinds
      <4>1. CASE Start(g)
        BY <1>0, <4>0, <4>1 DEF Start, Goes
      <4>2. CASE LocateRead(g)
        BY <1>0, <4>0, <4>2 DEF LocateRead, CallRead, Goes
      <4>3. CASE Locates(g) \/ LocateFails(g)
        BY <1>0, <4>0, <4>3 DEF Locates, LocateFails, Goes
      <4>4. CASE Validate(g)
        BY <1>0, <3>0, <4>0, <4>4 DEF Validate, SetValidStatus, Goes
      <4>5. CASE Seek(g) \/ SeekEnds(g)
        BY <1>0, <2>2, <4>0, <4>5 DEF Seek, SeekTo, SeekEnds, Sought, At, Goes, KeepReader, Bounded
      <4>6. CASE Forbid(g)
        BY <1>0, <2>2, <4>0, <4>6 DEF Forbid, ForbiddenConcurrentRead, At, Goes, Bounded
      <4>7. CASE InterruptReading(g) \/ Choose(g)
        BY <1>0, <2>2, <4>0, <4>7 DEF InterruptReading, Choose, At, Goes, KeepReader, Bounded
      <4> QED BY <3>2, <4>1, <4>2, <4>3, <4>4, <4>5, <4>6, <4>7 DEF DecoderStep
    <3>3. CASE g \in Conns /\ ParserStep(g)
      BY <1>0, <2>2, <3>0, <3>3, Kinds DEF ParserStep, StartParse, ParseRead, CallRead, DefaultNext,
         ParseNext, ParseFails, KeepReader, At, Goes, isValidate, statusVars, Bounded
    <3> QED BY <1>4, <3>1, <3>2, <3>3 DEF GoroutineStep
  <2>4. \A h \in Goroutines : h # g => on'[h] \in Streams
    BY <1>0, <2>1
  <2>5. ASSUME NEW h \in Goroutines, pc'[h] \in {"seek", "sought", "forbid", "interrupt"}
        PROVE  validated'[on'[h]]
    <3>1. CASE h = g
      BY <2>3, <2>5, <3>1
    <3>2. CASE h # g
      BY <2>1, <2>2, <2>4, <2>5, <3>2 DEF Bounded
    <3> QED BY <3>1, <3>2
  <2>6. ASSUME NEW c \in Conns
        PROVE  /\ pc'[c] \in {"lock", "locked"} => validated'[on'[c]]
               /\ pc'[c] # "append"
    <3>0. c \in Goroutines
      BY Kinds
    <3>1. CASE c = g
      BY <2>3, <3>1
    <3>2. CASE c # g
      BY <2>1, <2>2, <2>4, <3>0, <3>2 DEF Bounded
    <3> QED BY <3>1, <3>2
  <2> QED BY <2>5, <2>6 DEF Bounded
<1>5. CASE UNCHANGED vars
  BY <1>5 DEF vars, readerVars, Bounded
<1> QED BY <1>1, <1>2, <1>3, <1>4, <1>5 DEF Next, Environment, ChooserStep, startParseStream

\* Nothing that StreamSeen(x) speaks of changes.
LEMMA SeenKept ==
  ASSUME NEW x \in Streams, StreamSeen(x),
         cache'[x] = cache[x], taken'[x] = taken[x],
         \A g \in Decoders :
           /\ given'[g][x] = given[g][x] /\ index'[x][g] = index[x][g]
           /\ Appends(g, x)' <=> Appends(g, x)
           /\ Appends(g, x) => written'[g] = written[g]
  PROVE  StreamSeen(x)'
BY DEF StreamSeen, Counts

\* One goroutine at a time has taken bytes of a stream, and it has the mutex.
LEMMA OneAppends ==
  ASSUME Typed, NEW g \in Goroutines, pc[g] \in Inside, NEW h \in Goroutines, h # g
  PROVE  ~Appends(h, on[g])
BY DEF Typed, Mutexes, Holders, Inside, Appends

LEMMA UnreadOfDecoder ==
  ASSUME Typed, NEW g \in Decoders, NEW x \in Streams, on[g] = x, NEW m, m = index[x][g]
  PROVE  /\ m \in Nat /\ Len(cache[x]) \in Nat /\ Len(Unread(g)) \in Nat
         /\ DOMAIN Unread(g) = 1 .. Len(Unread(g))
         /\ Len(Unread(g)) = IF m <= Len(cache[x]) THEN Len(cache[x]) - m ELSE 0
         /\ \A i \in 1 .. Len(Unread(g)) : Unread(g)[i] = cache[x][m + i]
<1>1. g \in Goroutines
  BY Kinds
<1> QED BY <1>1, UnreadFacts

LEMMA SeenReadStep ==
  ASSUME SeenInv, NEW g \in Goroutines, ReadStep(g), UNCHANGED <<endpointVars, crashed>>,
         NEW x \in Streams, ~validated[x]
  PROVE  StreamSeen(x)'
<1>0. /\ Typed /\ Bounded /\ StreamSeen(x)
      /\ pc \in [Goroutines -> Labels] /\ on \in [Goroutines -> Streams] /\ on[g] \in Streams
      /\ cache \in [Streams -> Seq(Nat)] /\ taken \in [Streams -> Nat] /\ arrived \in [Streams -> Nat]
      /\ written \in [Goroutines -> Seq(Nat)] /\ given \in [Goroutines -> [Streams -> Seq(Nat)]]
      /\ index \in [Streams -> [Goroutines -> Nat]]
  BY DEF SeenInv, AllSeen, Typed, ControlTypes, ReaderTypes
<1>a. Decoders \subseteq Goroutines /\ Parsers = Conns /\ Decoders \cap Conns = {}
  BY Kinds
<1>b. \A h \in Decoders : Appends(h, x) => Appends(h, x)
  OBVIOUS
<1>1. CASE Lock(g) \/ ReadEOF(g) \/ ReceiveInterrupt(g)
  <2>1. UNCHANGED <<cache, taken, index, given, written, on>>
    BY <1>1 DEF Lock, ReadEOF, ReceiveInterrupt
  <2>2. \A h \in Decoders : Appends(h, x)' <=> Appends(h, x)
    BY <1>0, <1>1, <1>a DEF Lock, ReadEOF, AtEnd, InReader, ReceiveInterrupt, Appends, At, Goes
  <2> QED BY <1>0, <2>1, <2>2, SeenKept
<1>2. CASE ConcurrentReadCache(g)
  <2>1. PICK n \in DOMAIN Unread(g) :
          /\ Gives(g, SubSeq(Unread(g), 1, n))
          /\ index' = [index EXCEPT ![on[g]][g] = @ + n]
    BY <1>2 DEF ConcurrentReadCache
  <2>2. g \in Decoders /\ pc[g] = "locked" /\ UNCHANGED <<cache, taken, written, on>>
    BY <1>2 DEF ConcurrentReadCache, At
  <2>3. \A h \in Decoders : Appends(h, x)' <=> Appends(h, x)
    BY <1>0, <1>2, <1>a DEF ConcurrentReadCache, Returns, Goes, At, Appends
  <2> DEFINE s == SubSeq(Unread(g), 1, n)
             m == index[on[g]][g]
  <2>4. /\ n \in Nat /\ n <= Len(Unread(g)) /\ s \in Seq(Nat) /\ Len(s) = n
        /\ \A i \in 1 .. n : s[i] = Unread(g)[i]
    BY <1>0, FirstUnread
  <2>5. /\ given'[g][on[g]] = given[g][on[g]] \o s
        /\ \A h \in Goroutines, y \in Streams : h # g \/ y # on[g] => given'[h][y] = given[h][y]
    BY <1>0, <2>1, <2>4, GivesTypes
  <2>6. /\ index'[on[g]][g] = m + n
        /\ \A h \in Goroutines, y \in Streams : h # g \/ y # on[g] => index'[y][h] = index[y][h]
    BY <1>0, <2>1, <2>4, IndexTypes
  <2>7. CASE on[g] # x
    BY <1>0, <1>a, <2>2, <2>3, <2>5, <2>6, <2>7, SeenKept
  <2>8. CASE on[g] = x
    <3>0. m = index[x][g]
      BY <2>8
    <3> HIDE DEF s, m
    <3>1. /\ m \in Nat /\ Len(cache[x]) \in Nat /\ DOMAIN Unread(g) = 1 .. Len(Unread(g))
          /\ Len(Unread(g)) \in Nat
          /\ Len(Unread(g)) = IF m <= Len(cache[x]) THEN Len(cache[x]) - m ELSE 0
          /\ \A i \in 1 .. Len(Unread(g)) : Unread(g)[i] = cache[x][m + i]
      BY <1>0, <2>2, <2>8, <3>0, UnreadOfDecoder
    <3>2. n >= 1 /\ n <= Len(cache[x]) - m
      BY <2>4, <3>1
    <3>3. m + n <= Len(cache[x])
      BY <2>4, <3>1, <3>2
    <3>4. ASSUME NEW i \in 1 .. n PROVE s[i] = m + i
      <4>1. Counts(cache[x])
        BY <1>0 DEF StreamSeen
      <4>2. i \in 1 .. Len(Unread(g)) /\ m + i \in 1 .. Len(cache[x])
        BY <2>4, <3>1, <3>3
      <4>3. s[i] = cache[x][m + i]
        BY <2>4, <3>1, <4>2
      <4> QED BY <4>1, <4>2, <4>3 DEF Counts
    <3>5. Len(given[g][x]) = m /\ Counts(given[g][x]) /\ given[g][x] \in Seq(Nat)
      BY <1>0, <1>a, <2>2, <3>0 DEF StreamSeen
    <3>6. Counts(given'[g][x]) /\ Len(given'[g][x]) = m + n
      <4>1. given'[g][x] = given[g][x] \o s
        BY <2>5, <2>8
      <4> DEFINE t == given[g][x]
      <4>2. t \in Seq(Nat) /\ s \in Seq(Nat) /\ Len(t) = m /\ Len(s) = n /\ Counts(t)
        BY <2>4, <3>1, <3>5
      <4>3. Len(t \o s) = m + n /\ (\A i \in 1 .. m : (t \o s)[i] = t[i])
            /\ \A i \in 1 .. n : (t \o s)[m + i] = s[i]
        BY <4>2, Concats
      <4>4. ASSUME NEW i \in 1 .. m + n PROVE (t \o s)[i] = i
        <5>1. CASE i <= m
          BY <3>1, <4>2, <4>3, <5>1 DEF Counts
        <5>2. CASE ~ (i <= m)
          <6>1. i - m \in 1 .. n /\ i = m + (i - m)
            BY <2>4, <3>1, <5>2
          <6> QED BY <3>4, <4>3, <6>1
        <5> QED BY <5>1, <5>2
      <4> QED BY <4>1, <4>3, <4>4 DEF Counts
    <3>7. index'[x][g] = m + n /\ ~Appends(g, x)
      BY <2>2, <2>6, <2>8, <3>0 DEF Appends, m
    <3>8. \A h \in Decoders : h # g => given'[h][x] = given[h][x] /\ index'[x][h] = index[x][h]
      BY <1>a, <2>5, <2>6
    <3> QED BY <1>0, <2>2, <2>3, <3>3, <3>6, <3>7, <3>8 DEF StreamSeen, Counts
  <2> QED BY <2>7, <2>8
<1>3. CASE ReadCache(g) \/ ReadTake(g)
  <2>1. g \in Conns /\ pc[g] = "locked"
    BY <1>3, <1>a DEF ReadCache, ReadTake, InReader, At
  <2>2. on[g] # x
    BY <1>0, <2>1 DEF Bounded
  <2>3. UNCHANGED <<index, written, on>> /\ cache'[x] = cache[x] /\ taken'[x] = taken[x]
    BY <1>0, <1>3, <2>2 DEF ReadCache, ReadTake
  <2>4. \A h \in Decoders : Appends(h, x)' <=> Appends(h, x)
    BY <1>0, <1>3, <1>a, <2>1 DEF ReadCache, ReadTake, Returns, Goes, Appends
  <2>5. \A h \in Decoders : given'[h] = given[h]
    <3>1. PICK s : Gives(g, s)
      BY <1>3 DEF ReadCache, ReadTake
    <3> DEFINE f == [given[g] EXCEPT ![on[g]] = given[g][on[g]] \o s]
    <3>2. given' = [given EXCEPT ![g] = f]
      BY <3>1 DEF Gives
    <3> HIDE DEF f
    <3> QED BY <1>0, <1>a, <2>1, <3>2
  <2> QED BY <1>0, <2>3, <2>4, <2>5, SeenKept
<1>4. CASE ConcurrentReadTake(g)
  <2>1. PICK n \in 1 .. arrived[on[g]] - taken[on[g]] :
          /\ taken' = [taken EXCEPT ![on[g]] = @ + n]
          /\ written' = [written EXCEPT ![g] = cache[on[g]] \o Taken(on[g], n)]
          /\ index' = [index EXCEPT ![on[g]][g] = @ + n]
          /\ Gives(g, Taken(on[g], n))
    BY <1>4 DEF ConcurrentReadTake
  <2>2. g \in Decoders /\ pc[g] = "locked" /\ UNCHANGED <<cache, on>> /\ pc' = [pc EXCEPT ![g] = "append"]
        /\ Unread(g) = <<>>
    BY <1>4 DEF ConcurrentReadTake, InReader, At, Goes
  <2> DEFINE s == Taken(on[g], n)
             m == index[on[g]][g]
  <2>4. n \in Nat /\ s \in Seq(Nat) /\ Len(s) = n /\ \A i \in 1 .. n : s[i] = taken[on[g]] + i
    BY <1>0, TakenFacts DEF Typed
  <2>5. /\ given'[g][on[g]] = given[g][on[g]] \o s
        /\ \A h \in Goroutines, y \in Streams : h # g \/ y # on[g] => given'[h][y] = given[h][y]
    BY <1>0, <2>1, <2>4, GivesTypes
  <2>6. /\ index'[on[g]][g] = m + n
        /\ \A h \in Goroutines, y \in Streams : h # g \/ y # on[g] => index'[y][h] = index[y][h]
    BY <1>0, <2>1, <2>4, IndexTypes
  <2>7. CASE on[g] # x
    <3>1. taken'[x] = taken[x] /\ \A h \in Decoders : Appends(h, x) => written'[h] = written[h]
      BY <1>0, <1>a, <2>1, <2>2, <2>7 DEF Appends
    <3>2. \A h \in Decoders : Appends(h, x)' <=> Appends(h, x)
      BY <1>0, <1>a, <2>2, <2>7 DEF Appends
    <3> QED BY <1>0, <1>a, <2>2, <2>5, <2>6, <2>7, <3>1, <3>2, SeenKept
  <2>8. CASE on[g] = x
    <3> DEFINE k == Len(cache[x])
    <3>1. \A h \in Decoders : ~Appends(h, x)
      BY <1>0, <1>a, <2>2, <2>8, OneAppends DEF Inside, Appends
    <3>2. taken[x] = k /\ k \in Nat /\ m \in Nat
      BY <1>0, <3>1 DEF StreamSeen
    <3>3. m = k
      <4>1. m <= k
        BY <1>0, <2>2, <2>8, <3>1 DEF StreamSeen
      <4>2. Len(Unread(g)) = IF m <= k THEN k - m ELSE 0
        BY <1>0, <2>2, <2>8, UnreadFacts
      <4>3. Len(Unread(g)) = 0
        BY <2>2
      <4> HIDE DEF k, m
      <4> QED BY <3>2, <4>1, <4>2, <4>3
    <3>5. Len(given[g][x]) = k /\ Counts(given[g][x]) /\ given[g][x] \in Seq(Nat)
          /\ Counts(cache[x]) /\ cache[x] \in Seq(Nat)
      BY <1>0, <2>2, <2>8, <3>3 DEF StreamSeen
    <3>6. ASSUME NEW t \in Seq(Nat), Len(t) = k, Counts(t)
          PROVE  Counts(t \o s) /\ Len(t \o s) = k + n
      <4>0. \A i \in 1 .. n : s[i] = k + i
        BY <2>4, <2>8, <3>2
      <4> HIDE DEF s, k
      <4>3. Len(t \o s) = k + n /\ (\A i \in 1 .. k : (t \o s)[i] = t[i])
            /\ \A i \in 1 .. n : (t \o s)[k + i] = s[i]
        BY <2>4, <3>6, Concats
      <4>4. ASSUME NEW i \in 1 .. k + n PROVE (t \o s)[i] = i
        <5>1. CASE i <= k
          BY <3>2, <3>6, <4>3, <5>1 DEF Counts
        <5>2. CASE ~ (i <= k)
          <6>1. i - k \in 1 .. n /\ i = k + (i - k)
            BY <2>4, <3>2, <5>2
          <6> QED BY <4>0, <4>3, <6>1
        <5> QED BY <5>1, <5>2
      <4> QED BY <4>3, <4>4 DEF Counts
    <3>7. /\ taken'[x] = k + n /\ cache'[x] = cache[x] /\ index'[x][g] = k + n
          /\ written'[g] = cache[x] \o s /\ given'[g][x] = given[g][x] \o s
      BY <1>0, <1>a, <2>1, <2>2, <2>5, <2>6, <2>8, <3>2, <3>3
    <3>8. Counts(given'[g][x]) /\ Len(given'[g][x]) = k + n /\ Counts(written'[g]) /\ Len(written'[g]) = k + n
      BY <3>5, <3>6, <3>7
    <3>9. \A h \in Decoders : h # g =>
            ~Appends(h, x)' /\ given'[h][x] = given[h][x] /\ index'[x][h] = index[x][h]
      BY <1>0, <1>a, <2>2, <2>5, <2>6, <3>1 DEF Appends
    <3>10. Appends(g, x)'
      BY <1>0, <2>2, <2>8 DEF Appends
    <3>11. k <= k + n
      BY <2>4, <3>2
    <3>12. Counts(cache'[x]) /\ Len(cache'[x]) = k
      BY <3>5, <3>7
    <3>13. \A h \in Decoders : h # g =>
             Counts(given[h][x]) /\ Len(given[h][x]) = index[x][h] /\ index[x][h] <= k
      BY <1>0, <3>1 DEF StreamSeen
    <3> HIDE DEF k, s, m
    <3> QED BY <2>2, <3>7, <3>8, <3>9, <3>10, <3>11, <3>12, <3>13 DEF StreamSeen
  <2> QED BY <2>7, <2>8
<1>5. CASE ConcurrentReadAppend(g)
  <2>1. /\ pc[g] = "append" /\ pc' = [pc EXCEPT ![g] = "running"] /\ UNCHANGED <<taken, index, on, given>>
        /\ cache' = [cache EXCEPT ![on[g]] = written[g]] /\ written' = [written EXCEPT ![g] = <<>>]
    BY <1>5 DEF ConcurrentReadAppend, At, Returns, Goes
  <2>2. g \in Decoders
    BY <1>0, <2>1, Kinds DEF Bounded
  <2>7. CASE on[g] # x
    <3>1. cache'[x] = cache[x] /\ \A h \in Decoders : Appends(h, x) => written'[h] = written[h]
      BY <1>0, <1>a, <2>1, <2>7 DEF Appends
    <3>2. \A h \in Decoders : Appends(h, x)' <=> Appends(h, x)
      BY <1>0, <1>a, <2>1, <2>7 DEF Appends
    <3> QED BY <1>0, <1>a, <2>1, <3>1, <3>2, SeenKept
  <2>8. CASE on[g] = x
    <3>1. \A h \in Decoders : h # g => ~Appends(h, x)
      BY <1>0, <1>a, <2>1, <2>8, OneAppends DEF Inside
    <3>2. \A h \in Decoders : ~Appends(h, x)'
      BY <1>0, <1>a, <2>1, <3>1 DEF Appends
    <3>3. Appends(g, x)
      BY <2>1, <2>8 DEF Appends
    <3>4. cache'[x] = written[g] /\ Counts(written[g]) /\ Len(written[g]) = taken[x] /\ index[x][g] = taken[x]
      BY <1>0, <2>1, <2>2, <2>8, <3>3 DEF StreamSeen
    <3>5. \A h \in Decoders : Counts(given[h][x]) /\ Len(given[h][x]) = index[x][h] /\ index[x][h] <= taken[x]
      <4> TAKE h \in Decoders
      <4>1. Counts(given[h][x]) /\ Len(given[h][x]) = index[x][h] /\ index[x][h] \in Nat /\ taken[x] \in Nat
        BY <1>0, <1>a DEF StreamSeen
      <4>2. CASE h = g
        BY <3>4, <4>1, <4>2
      <4>3. CASE h # g
        <5>1. index[x][h] <= Len(cache[x]) /\ Len(cache[x]) <= taken[x] /\ Len(cache[x]) \in Nat
          BY <1>0, <3>1, <4>3 DEF StreamSeen
        <5> QED BY <4>1, <5>1
      <4> QED BY <4>1, <4>2, <4>3
    <3>6. taken[x] \in Nat
      BY <1>0
    <3> QED BY <2>1, <3>2, <3>4, <3>5, <3>6 DEF StreamSeen
  <2> QED BY <2>7, <2>8
<1> QED BY <1>1, <1>2, <1>3, <1>4, <1>5 DEF ReadStep

\* A step outside of the reader, and of somebody who does not append.
LEMMA SeenOutside ==
  ASSUME Typed, NEW g \in Goroutines, pc[g] # "append", pc'[g] # "append",
         \A h \in Goroutines : h # g => pc'[h] = pc[h] /\ on'[h] = on[h] /\ written'[h] = written[h],
         NEW x \in Streams, StreamSeen(x), cache'[x] = cache[x], UNCHANGED <<taken, index, given>>
  PROVE  StreamSeen(x)'
<1>1. \A h \in Decoders : h \in Goroutines
  BY Kinds
<1>2. \A h \in Decoders :
        (Appends(h, x)' <=> Appends(h, x)) /\ (Appends(h, x) => written'[h] = written[h])
  BY <1>1 DEF Appends
<1> QED BY <1>2, SeenKept

LEMMA AllSeenNext == SeenInv /\ [Next]_vars => AllSeen'
<1> SUFFICES ASSUME SeenInv, [Next]_vars, NEW x \in Streams, ~validated'[x] PROVE StreamSeen(x)'
  BY DEF AllSeen
<1>0. Typed /\ Unstarted /\ Bounded /\ pc \in [Goroutines -> Labels] /\ on \in [Goroutines -> Streams]
      /\ validated \in [Streams -> BOOLEAN] /\ cache \in [Streams -> Seq(Nat)]
      /\ (~validated[x] => StreamSeen(x)) /\ Decoders \subseteq Goroutines
  BY Kinds DEF SeenInv, Typed, ControlTypes, EndPointTypes, ReaderTypes, AllSeen
<1>1. ASSUME NEW c \in Conns, NEW d \in Directions, addStream(c, d) PROVE StreamSeen(x)'
  <2>1. UNCHANGED <<validated, cache, taken, index, given, written, on>>
    BY <1>1 DEF addStream, statusVars
  <2>2. \A g \in Goroutines : pc'[g] = "append" <=> pc[g] = "append"
    <3>1. \A g \in Goroutines : pc'[g] = pc[g] \/ (pc[g] = "none" /\ pc'[g] \in {"wait", "start"})
      BY <1>0, <1>1, Kinds DEF addStream, Unstarted
    <3> QED BY <3>1
  <2>3. \A g \in Decoders : Appends(g, x)' <=> Appends(g, x)
    BY <1>0, <2>1, <2>2 DEF Appends
  <2> QED BY <1>0, <2>1, <2>3, SeenKept
<1>2. ASSUME NEW y \in Streams, Assembles(y) PROVE StreamSeen(x)'
  <2>1. UNCHANGED <<validated, cache, taken, index, given, written, on, pc>>
    BY <1>2 DEF Assembles, Arrive, End, statusVars
  <2> QED BY <1>0, <2>1, SeenKept DEF Appends
<1>3. CASE ChooseReady \/ UNCHANGED vars
  <2>1. UNCHANGED <<validated, cache, taken, index, given, written, on, pc>>
    BY <1>3 DEF ChooseReady, readerVars, vars
  <2> QED BY <1>0, <2>1, SeenKept DEF Appends
<1>4. ASSUME NEW g \in Goroutines, GoroutineStep(g) PROVE StreamSeen(x)'
  <2>0. \A h \in Goroutines : h # g => pc'[h] = pc[h] /\ on'[h] = on[h] /\ written'[h] = written[h]
    BY <1>0, <1>4, Stepped
  <2>1. CASE ReadStep(g) /\ UNCHANGED <<endpointVars, crashed>>
    <3>1. UNCHANGED validated
      BY <2>1 DEF ReadStep, Lock, ConcurrentReadCache, ConcurrentReadTake, ConcurrentReadAppend,
         ReadCache, ReadTake, ReadEOF, ReceiveInterrupt, statusVars
    <3> QED BY <2>1, <3>1, SeenReadStep
  <2>2. CASE g \in Decoders /\ DecoderStep(g)
    <3>1. CASE SeekEnds(g)
      <4>1. /\ pc[g] = "sought" /\ pc' = [pc EXCEPT ![g] = "forbid"] /\ UNCHANGED <<validated, taken, index, given>>
            /\ cache' = [cache EXCEPT ![on[g]] = written[g]]
        BY <3>1 DEF SeekEnds, Sought, At, Goes, statusVars
      <4>2. on[g] # x
        BY <1>0, <4>1 DEF Bounded
      <4>3. cache'[x] = cache[x] /\ pc'[g] # "append"
        BY <1>0, <4>1, <4>2
      <4> QED BY <1>0, <2>0, <4>1, <4>3, SeenOutside
    <3>2. CASE ~SeekEnds(g)
      <4>1. /\ pc[g] # "append" /\ pc'[g] # "append" /\ UNCHANGED <<cache, taken, index, given>>
        BY <1>0, <2>2, <3>2 DEF DecoderStep, Start, LocateRead, CallRead, Locates, LocateFails, Validate,
         SetValidStatus, Seek, SeekTo, Forbid, ForbiddenConcurrentRead, InterruptReading, Choose,
         KeepReader, At, Goes
      <4>2. validated[x] => validated'[x]
        BY <1>0, <2>2, <3>2 DEF DecoderStep, Start, LocateRead, CallRead, Locates, LocateFails, Validate,
         SetValidStatus, Seek, SeekTo, Forbid, ForbiddenConcurrentRead, InterruptReading, Choose,
         KeepReader, statusVars
      <4> QED BY <1>0, <2>0, <4>1, <4>2, SeenOutside
    <3> QED BY <3>1, <3>2
  <2>3. CASE g \in Conns /\ ParserStep(g)
    <3>1. /\ pc[g] # "append" /\ pc'[g] # "append" /\ UNCHANGED <<cache, taken, index, given>>
      BY <1>0, <2>3 DEF ParserStep, StartParse, ParseRead, CallRead, DefaultNext, ParseNext, ParseFails,
         KeepReader, At, Goes
    <3>2. validated[x] => validated'[x]
      BY <1>0, <2>3 DEF ParserStep, StartParse, ParseRead, CallRead, DefaultNext, ParseNext, ParseFails,
         KeepReader, statusVars
    <3> QED BY <1>0, <2>0, <3>1, <3>2, SeenOutside
  <2> QED BY <1>4, <2>1, <2>2, <2>3 DEF GoroutineStep
<1> QED BY <1>1, <1>2, <1>3, <1>4 DEF Next, Environment, ChooserStep, startParseStream

LEMMA SeenInit == Init => SeenInv
<1> SUFFICES ASSUME Init PROVE SeenInv
  OBVIOUS
<1>0. Decoders \subseteq Goroutines
  BY Kinds
<1>1. Typed /\ Unstarted
  BY TypedInit
<1>2. Bounded
  BY <1>1, Kinds DEF Init, ReadersInit, Bounded
<1>3. AllSeen
  BY <1>0 DEF Init, ReadersInit, AllSeen, StreamSeen, Counts, Appends
<1> QED BY <1>1, <1>2, <1>3 DEF SeenInv

LEMMA SeenNext == SeenInv /\ [Next]_vars => SeenInv'
BY TypedNext, UnstartedNext, BoundedNext, AllSeenNext DEF SeenInv

LEMMA SeenImplies == SeenInv => SeenFromTheStart
<1> SUFFICES ASSUME SeenInv, NEW x \in Streams, ~validated[x], NEW g \in Decoders
             PROVE  given[g][x] = [i \in 1 .. Len(given[g][x]) |-> i]
  BY DEF SeenFromTheStart
<1>0. g \in Goroutines
  BY Kinds
<1>1. given[g][x] \in Seq(Nat)
  BY <1>0 DEF SeenInv, Typed, ReaderTypes
<1>2. Counts(given[g][x])
  BY DEF SeenInv, AllSeen, StreamSeen
<1> QED BY <1>1, <1>2, CountsIs

\* Until a start of the stream is found valid, each of the decoders that call
\* ConcurrentRead, however many they are and whoever takes the bytes from the
\* reader, is given the stream from its first byte without a gap.
THEOREM DecodersSeeTheStart == Spec => []SeenFromTheStart
BY SeenInit, SeenNext, SeenImplies, PTL DEF Spec

-----------------------------------------------------------------------------
(* What Parse is given.                                                    *)

\* g looks for a valid start of x.
Reads(g, x) ==
  /\ x[1] = FirstConn
  /\ \/ Type(g) = 1 /\ x[2] = "c2s"
     \/ Type(g) = 2 /\ x[2] = "s2c"
     \/ Type(g) = 3

\* Decoders read the first connection until all are done, and parsers their
\* own after that.
Ordered ==
  /\ \A c \in Conns : on[c][1] = c
  /\ \A g \in Decoders : on[g][1] = FirstConn
  /\ decoderReady => conns # {} /\ \A g \in Decoders : pc[g] = "done"
  /\ \A c \in Conns : pc[c] \notin {"none", "wait"} => decoderReady
  /\ ~decoderReady => \A c \in Conns, x \in Streams : given[c][x] = <<>>
  /\ \A g \in Decoders : pc[g] \notin {"none", "start", "done"} => Reads(g, on[g])

\* g has not come to its SeekTo on x.
Ahead(g, x) ==
  \/ pc[g] \in {"none", "start", "running", "lock", "locked", "append", "failed"}
  \/ pc[g] \in {"valid", "seek"} /\ on[g] = x
  \/ pc[g] \in {"valid", "seek", "sought", "forbid", "interrupt"} /\ on[g][2] = "c2s" /\ x[2] = "s2c"

Unsought == \A g \in Decoders, x \in Streams : Reads(g, x) /\ Ahead(g, x) => start[x] = 0

LEMMA TypesOf ==
  ASSUME Typed, NEW g \in Decoders
  PROVE  Type(g) \in 0 .. 3
<1>1. registry \in [Decoders -> Decoder]
  BY EndPointAssumption DEF Typed, EndPointTypes
<1> QED BY <1>1 DEF Type, Decoder

\* No two decoders read one stream.
LEMMA Alone ==
  ASSUME Typed, ~Shared, NEW g \in Decoders, NEW h \in Decoders, g # h, NEW x, Reads(g, x)
  PROVE  ~Reads(h, x)
<1> SUFFICES ASSUME Reads(h, x) PROVE FALSE
  OBVIOUS
<1>1. Type(g) \in 1 .. 3 /\ Type(h) \in 1 .. 3
  BY DEF Reads
<1>2. {Type(g), Type(h)} \in {{1}, {2}, {3}, {1, 3}, {2, 3}}
  BY <1>1 DEF Reads
<1> QED BY <1>2 DEF Shared, Share

LEMMA GivenStep ==
  ASSUME Typed, NEW g \in Goroutines, GoroutineStep(g)
  PROVE  /\ \A h \in Goroutines : h # g => given'[h] = given[h]
         /\ pc[g] # "locked" => UNCHANGED given
<1>0. given \in [Goroutines -> [Streams -> Seq(Nat)]]
  BY DEF Typed, ReaderTypes
<1>1. CASE ReadStep(g)
  <2>1. CASE \E s : Gives(g, s)
    <3>1. PICK s : Gives(g, s)
      BY <2>1
    <3> DEFINE f == [given[g] EXCEPT ![on[g]] = given[g][on[g]] \o s]
    <3>2. given' = [given EXCEPT ![g] = f]
      BY <3>1 DEF Gives
    <3> HIDE DEF f
    <3>3. pc[g] = "locked" \/ UNCHANGED given
      BY <1>1 DEF ReadStep, Lock, ConcurrentReadCache, ConcurrentReadTake, ConcurrentReadAppend,
         ReadCache, ReadTake, ReadEOF, AtEnd, InReader, ReceiveInterrupt, At
    <3> QED BY <1>0, <3>2, <3>3
  <2>2. CASE ~ \E s : Gives(g, s)
    <3>1. UNCHANGED given
      BY <1>1, <2>2 DEF ReadStep, Lock, ConcurrentReadCache, ConcurrentReadTake, ConcurrentReadAppend,
         ReadCache, ReadTake, ReadEOF, AtEnd, InReader, ReceiveInterrupt, At
    <3> QED BY <3>1
  <2> QED BY <2>1, <2>2
<1>2. CASE DecoderStep(g)
  BY <1>2 DEF DecoderStep, Start, LocateRead, CallRead, Locates, LocateFails, Validate,
     SetValidStatus, Seek, SeekTo, SeekEnds, Sought, Forbid, ForbiddenConcurrentRead,
     InterruptReading, Choose, KeepReader
<1>3. CASE ParserStep(g)
  BY <1>3 DEF ParserStep, StartParse, ParseRead, CallRead, DefaultNext, ParseNext, ParseFails, KeepReader
<1> QED BY <1>1, <1>2, <1>3 DEF GoroutineStep

LEMMA OrderedNext == Typed /\ Unstarted /\ Ordered /\ [Next]_vars => Ordered'
<1> SUFFICES ASSUME Typed, Unstarted, Ordered, [Next]_vars PROVE Ordered'
  OBVIOUS
<1>0. /\ pc \in [Goroutines -> Labels] /\ on \in [Goroutines -> Streams] /\ decoderReady \in BOOLEAN
  BY DEF Typed, ControlTypes, EndPointTypes
<1>a. Decoders \subseteq Goroutines /\ Conns \subseteq Goroutines /\ Decoders \cap Conns = {}
  BY Kinds
<1>1. ASSUME NEW c \in Conns, NEW d \in Directions, addStream(c, d) PROVE Ordered'
  <2>1. UNCHANGED <<on, decoderReady, given, registry>> /\ conns' # {}
    BY <1>1 DEF addStream
  <2>2. \A g \in Decoders : pc'[g] = pc[g] \/ (pc'[g] = "start" /\ ~decoderReady)
    BY <1>1, <1>a DEF addStream, Ordered
  <2>3. \A g \in Conns : pc'[g] = pc[g] \/ (pc'[g] = "wait" /\ pc[g] = "none")
    BY <1>1, <1>a DEF addStream, Unstarted
  <2> QED BY <2>1, <2>2, <2>3 DEF Ordered, Reads, Type
<1>2. ASSUME NEW x \in Streams, Assembles(x) PROVE Ordered'
  <2>1. UNCHANGED <<pc, on, decoderReady, conns, given, registry>>
    BY <1>2 DEF Assembles, Arrive, End, endpointVars
  <2> QED BY <2>1 DEF Ordered, Reads, Type
<1>3. CASE ChooseReady
  <2>1. /\ UNCHANGED <<pc, on, conns, given, registry>> /\ conns # {}
        /\ decoderReady' /\ \A g \in Decoders : pc[g] = "done"
    BY <1>3 DEF ChooseReady, readerVars, At
  <2> QED BY <2>1 DEF Ordered, Reads, Type
<1>5. CASE UNCHANGED vars
  <2>1. UNCHANGED <<pc, on, decoderReady, conns, given, registry>>
    BY <1>5 DEF vars, endpointVars, readerVars
  <2> QED BY <2>1 DEF Ordered, Reads, Type
<1>4. ASSUME NEW g \in Goroutines, GoroutineStep(g) PROVE Ordered'
  <2>1. /\ UNCHANGED <<conns, registry>>
        /\ \A h \in Goroutines : h # g => pc'[h] = pc[h] /\ on'[h] = on[h]
    BY <1>4, Stepped
  <2>2. \A h \in Goroutines : h # g => given'[h] = given[h]
    BY <1>4, GivenStep
  <2>3. pc[g] # "locked" => UNCHANGED given
    BY <1>4, GivenStep
  <2>4. UNCHANGED decoderReady
    BY <1>4 DEF GoroutineStep, DecoderStep, Start, LocateRead, Locates, LocateFails, Validate, Seek,
       SeekEnds, Forbid, InterruptReading, Choose, ParserStep, StartParse, ParseRead, DefaultNext,
       ParseNext, ParseFails, endpointVars
  <2>5. \A h \in Decoders : Type(h)' = Type(h)
    BY <2>1 DEF Type
  <2>6. CASE g \in Conns
    <3>1. on'[g][1] = g
      <4>1. CASE ReadStep(g)
        BY <4>1, <2>6 DEF ReadStep, Lock, ConcurrentReadCache, ConcurrentReadTake, ConcurrentReadAppend,
           ReadCache, ReadTake, ReadEOF, ReceiveInterrupt, Ordered
      <4>2. CASE ParserStep(g)
        BY <1>0, <1>a, <2>6, <4>2 DEF ParserStep, StartParse, ParseRead, CallRead, DefaultNext, ParseNext, ParseFails,
           KeepReader, Other, Ordered
      <4> QED BY <1>4, <1>a, <2>6, <4>1, <4>2 DEF GoroutineStep
    <3>2. pc'[g] \notin {"none", "wait"} => decoderReady
      <4>1. pc[g] \in {"none", "wait"} => ~ReadStep(g)
        BY DEF ReadStep, Lock, ConcurrentReadCache, ConcurrentReadTake, ConcurrentReadAppend,
           ReadCache, ReadTake, ReadEOF, AtEnd, InReader, ReceiveInterrupt, At
      <4>2. pc[g] \in {"none", "wait"} /\ ParserStep(g) => decoderReady
        BY DEF ParserStep, StartParse, ParseRead, CallRead, DefaultNext, ParseNext, ParseFails, At
      <4> QED BY <1>4, <1>a, <2>6, <4>1, <4>2 DEF GoroutineStep, Ordered
    <3>3. ~decoderReady => UNCHANGED given
      BY <2>3, <2>6 DEF Ordered
    <3>4. \A h \in Decoders : pc'[h] = pc[h] /\ on'[h] = on[h]
      BY <1>a, <2>1, <2>6
    <3>5. \A c \in Conns : c # g => pc'[c] = pc[c] /\ on'[c] = on[c]
      BY <1>a, <2>1
    <3> QED BY <2>1, <2>4, <2>5, <3>1, <3>2, <3>3, <3>4, <3>5 DEF Ordered, Reads
  <2>7. CASE g \in Decoders
    <3>1. \A c \in Conns : pc'[c] = pc[c] /\ on'[c] = on[c] /\ given'[c] = given[c]
      BY <1>a, <2>1, <2>2, <2>7
    <3>2. /\ on'[g][1] = FirstConn
          /\ pc'[g] \notin {"none", "start", "done"} => Reads(g, on'[g])
          /\ pc[g] # "done"
      <4>0. g \in Goroutines /\ Type(g) \in 0 .. 3 /\ on[g][1] = FirstConn
        BY <1>a, <2>7, TypesOf DEF Ordered
      <4>1. CASE ReadStep(g)
        <5>1. UNCHANGED on /\ pc[g] \notin {"none", "start", "done"}
          BY <4>1 DEF ReadStep, Lock, ConcurrentReadCache, ConcurrentReadTake, ConcurrentReadAppend,
             ReadCache, ReadTake, ReadEOF, AtEnd, InReader, ReceiveInterrupt, At
        <5> QED BY <2>7, <4>0, <5>1 DEF Ordered
      <4>2. CASE Start(g)
        BY <1>0, <4>0, <4>2 DEF Start, At, Goes, Reads
      <4>3. CASE DecoderStep(g) /\ ~Start(g)
        <5>1. pc[g] \notin {"none", "start", "done"}
          BY <4>3 DEF DecoderStep, LocateRead, CallRead, Locates, LocateFails, Validate,
             SetValidStatus, Seek, SeekTo, SeekEnds, Sought, Forbid, ForbiddenConcurrentRead,
             InterruptReading, Choose, At
        <5>2. on'[g] = on[g] \/ (Type(g) = 3 /\ on'[g] = Other(on[g]))
          BY <1>0, <4>0, <4>3 DEF DecoderStep, LocateRead, CallRead, Locates, LocateFails, Validate,
             SetValidStatus, Seek, SeekTo, SeekEnds, Sought, Forbid, ForbiddenConcurrentRead,
             InterruptReading, Choose, KeepReader
        <5>3. Reads(g, on[g])
          BY <2>7, <5>1 DEF Ordered
        <5> QED BY <4>0, <5>1, <5>2, <5>3 DEF Reads, Other
      <4> QED BY <1>4, <1>a, <2>7, <4>1, <4>2, <4>3 DEF GoroutineStep
    <3>3. \A h \in Decoders : h # g => pc'[h] = pc[h] /\ on'[h] = on[h]
      BY <1>a, <2>1
    <3>4. ~decoderReady
      BY <2>7, <3>2 DEF Ordered
    <3> QED BY <2>1, <2>4, <2>5, <3>1, <3>2, <3>3, <3>4 DEF Ordered, Reads
  <2> QED BY <1>4, <2>6, <2>7, Kinds
<1> QED BY <1>1, <1>2, <1>3, <1>4, <1>5 DEF Next, Environment, ChooserStep, startParseStream

LEMMA RegistryKept == Typed /\ [Next]_vars => UNCHANGED registry
<1> SUFFICES ASSUME Typed, [Next]_vars PROVE UNCHANGED registry
  OBVIOUS
<1>1. ASSUME NEW g \in Goroutines, GoroutineStep(g) PROVE UNCHANGED registry
  BY <1>1, Stepped
<1>2. CASE Environment \/ ChooserStep
  BY <1>2 DEF Environment, startParseStream, addStream, Assembles, ChooserStep, ChooseReady, endpointVars
<1>3. CASE UNCHANGED vars
  BY <1>3 DEF vars, endpointVars
<1> QED BY <1>1, <1>2, <1>3 DEF Next

\* No step takes a decoder back before its SeekTo.
LEMMA AheadKept ==
  ASSUME Typed, Unstarted, [Next]_vars, NEW h \in Decoders, NEW x \in Streams, Ahead(h, x)'
  PROVE  Ahead(h, x)
<1>0. /\ pc \in [Goroutines -> Labels] /\ on \in [Goroutines -> Streams]
  BY DEF Typed, ControlTypes
<1>a. Decoders \subseteq Goroutines /\ Conns \subseteq Goroutines /\ Decoders \cap Conns = {}
  BY Kinds
<1>1. ASSUME NEW c \in Conns, NEW d \in Directions, addStream(c, d) PROVE Ahead(h, x)
  <2>1. UNCHANGED on
    BY <1>1 DEF addStream
  <2>2. pc'[h] = pc[h] \/ pc[h] = "none"
    BY <1>1, <1>a DEF addStream, Unstarted
  <2> QED BY <2>1, <2>2 DEF Ahead
<1>2. ASSUME NEW y \in Streams, Assembles(y) PROVE Ahead(h, x)
  <2>1. UNCHANGED <<on, pc>>
    BY <1>2 DEF Assembles, Arrive, End
  <2> QED BY <2>1 DEF Ahead
<1>3. CASE ChooseReady \/ UNCHANGED vars
  <2>1. UNCHANGED <<on, pc>>
    BY <1>3 DEF ChooseReady, readerVars, vars
  <2> QED BY <2>1 DEF Ahead
<1>4. ASSUME NEW g \in Goroutines, GoroutineStep(g) PROVE Ahead(h, x)
  <2>0. \A k \in Goroutines : k # g => pc'[k] = pc[k] /\ on'[k] = on[k]
    BY <1>4, Stepped
  <2>1. CASE h # g
    BY <1>a, <2>0, <2>1 DEF Ahead
  <2>2. CASE h = g
    <3>0. g \notin Conns /\ on[g] \in Streams /\ on[g][2] \in Directions /\ x[2] \in Directions
      BY <1>0, <1>a, <2>2, Kinds
    <3>1. CASE ReadStep(g)
      <4>1. pc[g] \in {"lock", "locked", "append"}
        BY <3>1 DEF ReadStep, Lock, ConcurrentReadCache, ConcurrentReadTake, ConcurrentReadAppend,
           ReadCache, ReadTake, ReadEOF, AtEnd, InReader, ReceiveInterrupt, At
      <4> QED BY <2>2, <4>1 DEF Ahead
    <3>2. CASE Start(g) \/ LocateRead(g) \/ Locates(g) \/ LocateFails(g)
      <4>1. pc[g] \in {"start", "running", "failed"}
        BY <3>2 DEF Start, LocateRead, CallRead, Locates, LocateFails, At
      <4> QED BY <2>2, <4>1 DEF Ahead
    <3>3. CASE Validate(g) \/ Seek(g) \/ SeekEnds(g) \/ Forbid(g) \/ Choose(g)
      <4>1. /\ UNCHANGED on
            /\ \/ pc[g] = "valid" /\ pc'[g] = "seek"
               \/ pc[g] = "seek" /\ pc'[g] = "sought"
               \/ pc[g] = "sought" /\ pc'[g] = "forbid"
               \/ pc[g] = "forbid" /\ pc'[g] = "interrupt"
               \/ pc'[g] = "done"
        BY <1>0, <3>3 DEF Validate, SetValidStatus, Seek, SeekTo, SeekEnds, Sought, Forbid,
           ForbiddenConcurrentRead, Choose, KeepReader, At, Goes
      <4> QED BY <2>2, <4>1 DEF Ahead
    <3>4. CASE InterruptReading(g)
      <4>1. /\ pc[g] = "interrupt"
            /\ \/ pc'[g] = "name"
               \/ pc'[g] = "valid" /\ on[g][2] = "c2s" /\ on'[g] = Other(on[g])
        BY <1>0, <3>4 DEF InterruptReading, At, Goes
      <4>2. pc'[g] = "valid" /\ on[g][2] = "c2s" /\ on'[g] = Other(on[g])
        BY <2>2, <4>1 DEF Ahead
      <4>3. on'[g][2] = "s2c"
        BY <3>0, <4>2 DEF Other
      <4>4. x[2] = "s2c"
        BY <2>2, <4>2, <4>3 DEF Ahead
      <4> QED BY <2>2, <4>1, <4>2, <4>4 DEF Ahead
    <3> QED BY <1>4, <3>0, <3>1, <3>2, <3>3, <3>4 DEF GoroutineStep, DecoderStep
  <2> QED BY <2>1, <2>2
<1> QED BY <1>1, <1>2, <1>3, <1>4 DEF Next, Environment, ChooserStep, startParseStream

LEMMA UnsoughtNext ==
  Typed /\ Unstarted /\ Ordered /\ Unsought /\ ~Shared /\ [Next]_vars => Unsought'
<1> SUFFICES ASSUME Typed, Unstarted, Ordered, Unsought, ~Shared, [Next]_vars,
                    NEW h \in Decoders, NEW x \in Streams, Reads(h, x)', Ahead(h, x)'
             PROVE  start'[x] = 0
  BY DEF Unsought
<1>0. /\ pc \in [Goroutines -> Labels] /\ on \in [Goroutines -> Streams] /\ start \in [Streams -> Nat]
  BY DEF Typed, ControlTypes, EndPointTypes
<1>1. UNCHANGED registry
  BY RegistryKept
<1>2. Reads(h, x) /\ Ahead(h, x)
  BY <1>1, AheadKept DEF Reads, Type
<1>3. start[x] = 0
  BY <1>2 DEF Unsought
<1>4. ASSUME NEW g \in Decoders, Seek(g) PROVE start'[x] = 0
  <2>0. g \in Goroutines
    BY Kinds
  <2>1. /\ pc[g] = "seek" /\ pc'[g] = "sought" /\ UNCHANGED on
        /\ start' = [start EXCEPT ![on[g]] = Count(g)] /\ on[g] \in Streams
    BY <1>0, <1>4, <2>0 DEF Seek, SeekTo, At, Goes
  <2>2. Reads(g, on[g])
    BY <2>1 DEF Ordered
  <2>3. CASE on[g] = x
    <3>1. h = g
      BY <1>2, <2>2, <2>3, Alone
    <3>2. ~Ahead(g, x)'
      BY <2>1, <2>3 DEF Ahead
    <3> QED BY <3>1, <3>2
  <2>4. CASE on[g] # x
    BY <1>0, <1>3, <2>1, <2>4
  <2> QED BY <2>3, <2>4
<1>5. CASE \A g \in Decoders : ~Seek(g)
  <2>1. UNCHANGED start
    BY <1>5 DEF Next, Environment, startParseStream, addStream, Assembles, ChooserStep, ChooseReady,
       GoroutineStep, DecoderStep, Start, LocateRead, Locates, LocateFails, Validate,
       SeekEnds, Forbid, InterruptReading, Choose, ParserStep, StartParse, ParseRead, DefaultNext,
       ParseNext, ParseFails, endpointVars, vars
  <2> QED BY <1>3, <2>1
<1> QED BY <1>4, <1>5

\* Where Parse is in a stream.
Base(x) == start[x] + Len(given[x[1]][x])

\* s are the bytes after position b.
Follow(s, b) == \A i \in 1 .. Len(s) : s[i] = b + i

\* g is about to write the cache of x, because of a SeekTo or not.
Seeks(g, x) == pc[g] = "sought" /\ on[g] = x
Writes(g, x) == Appends(g, x) \/ Seeks(g, x)

\* What was taken of x and Parse was not given is in the cache or about to be
\* written there, in order.
StreamKept(x) ==
  /\ \A g \in Decoders : Writes(g, x) =>
       Follow(written[g], Base(x)) /\ taken[x] = Base(x) + Len(written[g])
  /\ (\A g \in Decoders : ~Writes(g, x)) => taken[x] = Base(x) + Len(cache[x])
  /\ (\A g \in Decoders : ~Seeks(g, x)) => Follow(cache[x], Base(x))

AllKept == \A x \in Streams : StreamKept(x)

\* The inductive invariant behind ParsedFromTheStart.
KeptInv ==
  /\ Typed /\ Unstarted /\ Bounded /\ Ordered
  /\ Shared \/ (Unsought /\ (crashed \/ AllKept))

\* Nothing that StreamKept(x) speaks of changes.
LEMMA KeptKept ==
  ASSUME NEW x \in Streams, StreamKept(x),
         cache'[x] = cache[x], taken'[x] = taken[x], start'[x] = start[x],
         given'[x[1]][x] = given[x[1]][x],
         \A g \in Decoders :
           /\ Appends(g, x)' <=> Appends(g, x)
           /\ Seeks(g, x)' <=> Seeks(g, x)
           /\ Writes(g, x) => written'[g] = written[g]
  PROVE  StreamKept(x)'
<1>1. Base(x)' = Base(x)
  BY DEF Base
<1>2. \A g \in Decoders : Writes(g, x)' <=> Writes(g, x)
  BY DEF Writes
<1> HIDE DEF Base, Writes
<1> QED BY <1>1, <1>2 DEF StreamKept, Follow

LEMMA GiveStep ==
  ASSUME Typed, NEW x \in Streams, NEW s \in Seq(Nat), Follow(s, Base(x)),
         given'[x[1]][x] = given[x[1]][x] \o s, UNCHANGED start,
         \A y \in Streams : y # x => given'[y[1]][y] = given[y[1]][y]
  PROVE  Parsed!Next
<1> DEFINE o == given[x[1]][x]
           b == start[x] + Len(o)
           F(n) == [i \in 1 .. n |-> b + i]
<1>1. o \in Seq(Nat) /\ start[x] \in Nat
  BY Kinds DEF Typed, ReaderTypes, EndPointTypes
<1>2. Follow(s, b)
  BY DEF Base
<1>3. Len(o \o s) - Len(o) = Len(s)
  <2> HIDE DEF o
  <2> QED BY <1>1, Concats
<1>4. s = F(Len(s))
  <2> HIDE DEF b
  <2> QED BY <1>2 DEF Follow
<1>5. outs' = [outs EXCEPT ![x] = o \o F(Len(o \o s) - Len(o))]
  <2> HIDE DEF F, b
  <2>1. outs' = [y \in Streams |-> given'[y[1]][y]]
    BY DEF outs
  <2>2. outs' = [outs EXCEPT ![x] = o \o s]
    BY <2>1 DEF outs
  <2> QED BY <1>3, <1>4, <2>2
<1>6. outs[x] = o /\ outs'[x] = o \o s
  BY DEF outs
<1>7. Parsed!Give(x)
  BY <1>5, <1>6 DEF Parsed!Give, Parsed!Following, outs
<1> QED BY <1>7 DEF Parsed!Next

\* While g reads or changes what a stream has for decoders, no other decoder does.
LEMMA NobodyElse ==
  ASSUME Typed, Ordered, ~Shared, NEW g \in Decoders, pc[g] \notin {"none", "start", "done"},
         NEW h \in Decoders, h # g
  PROVE  ~Writes(h, on[g])
<1>1. Reads(g, on[g])
  BY DEF Ordered
<1>2. ASSUME Writes(h, on[g]) PROVE FALSE
  <2>1. pc[h] \notin {"none", "start", "done"} /\ on[h] = on[g]
    BY <1>2 DEF Writes, Appends, Seeks
  <2>2. Reads(h, on[g])
    BY <2>1 DEF Ordered
  <2> QED BY <1>1, <2>2, Alone
<1> QED BY <1>2

\* A step of g outside of the reader and of the seeks, or that does nothing
\* to x.
LEMMA KeptOutside ==
  ASSUME Typed, NEW g \in Goroutines, NEW x \in Streams, StreamKept(x),
         ~Writes(g, x), ~Writes(g, x)',
         \A h \in Goroutines : h # g => pc'[h] = pc[h] /\ on'[h] = on[h] /\ written'[h] = written[h],
         cache'[x] = cache[x], taken'[x] = taken[x], start'[x] = start[x],
         given'[x[1]][x] = given[x[1]][x]
  PROVE  StreamKept(x)'
<1>1. \A h \in Decoders : h \in Goroutines
  BY Kinds
<1>2. \A h \in Decoders :
        /\ Appends(h, x)' <=> Appends(h, x)
        /\ Seeks(h, x)' <=> Seeks(h, x)
        /\ Writes(h, x) => written'[h] = written[h]
  <2> TAKE h \in Decoders
  <2>1. CASE h = g
    BY <2>1 DEF Writes
  <2>2. CASE h # g
    BY <1>1, <2>2 DEF Appends, Seeks
  <2> QED BY <2>1, <2>2
<1> QED BY <1>2, KeptKept

\* g is the only one that writes the cache of x, and writes what is kept of it.
LEMMA KeptWritten ==
  ASSUME Typed, Ordered, ~Shared, NEW g \in Decoders, NEW x \in Streams, on[g] = x, StreamKept(x),
         Writes(g, x), ~Writes(g, x)', cache' = [cache EXCEPT ![x] = written[g]],
         \A h \in Goroutines : h # g => pc'[h] = pc[h] /\ on'[h] = on[h],
         UNCHANGED <<taken, start, given>>
  PROVE  StreamKept(x)'
<1>1. \A h \in Decoders : h \in Goroutines
  BY Kinds
<1>2. pc[g] \notin {"none", "start", "done"}
  BY DEF Writes, Appends, Seeks
<1>3. \A h \in Decoders : h # g => ~Writes(h, x)
  BY <1>2, NobodyElse
<1>4. \A h \in Decoders : ~Writes(h, x)'
  BY <1>1, <1>3 DEF Writes, Appends, Seeks
<1>5. Base(x)' = Base(x) /\ cache'[x] = written[g]
  BY DEF Base, Typed, ReaderTypes
<1>6. Follow(written[g], Base(x)) /\ taken[x] = Base(x) + Len(written[g])
  BY DEF StreamKept
<1>7. Follow(cache'[x], Base(x)')
  BY <1>5, <1>6
<1>8. taken'[x] = Base(x)' + Len(cache'[x])
  BY <1>5, <1>6
<1> HIDE DEF Base, Follow, Writes
<1> QED BY <1>4, <1>7, <1>8 DEF StreamKept, Follow

LEMMA FollowConcat ==
  ASSUME NEW s \in Seq(Nat), NEW t \in Seq(Nat), NEW b \in Nat,
         Follow(s, b), Follow(t, b + Len(s))
  PROVE  Follow(s \o t, b)
<1> DEFINE m == Len(s)
           n == Len(t)
           u == s \o t
<1>1. /\ m \in Nat /\ n \in Nat /\ Len(u) = m + n
      /\ \A i \in 1 .. m : u[i] = s[i]
      /\ \A i \in 1 .. n : u[m + i] = t[i]
  BY Concats
<1>2. (\A i \in 1 .. m : s[i] = b + i) /\ \A i \in 1 .. n : t[i] = b + m + i
  BY DEF Follow
<1> HIDE DEF m, n, u
<1>3. ASSUME NEW i \in 1 .. m + n PROVE u[i] = b + i
  <2>1. CASE i <= m
    BY <1>1, <1>2, <2>1
  <2>2. CASE ~ (i <= m)
    <3>1. i - m \in 1 .. n /\ i = m + (i - m)
      BY <1>1, <2>2
    <3>2. u[i] = t[i - m] /\ t[i - m] = b + m + (i - m)
      BY <1>1, <1>2, <3>1
    <3> QED BY <1>1, <3>1, <3>2
  <2> QED BY <2>1, <2>2
<1>4. \A i \in 1 .. Len(u) : u[i] = b + i
  BY <1>1, <1>3
<1> QED BY <1>4 DEF Follow, u

LEMMA FollowCut ==
  ASSUME NEW s \in Seq(Nat), NEW b \in Nat, NEW n \in Nat, n <= Len(s), Follow(s, b)
  PROVE  /\ SubSeq(s, n + 1, Len(s)) \in Seq(Nat)
         /\ Len(SubSeq(s, n + 1, Len(s))) = Len(s) - n
         /\ Follow(SubSeq(s, n + 1, Len(s)), b + n)
<1> DEFINE u == SubSeq(s, n + 1, Len(s))
           m == Len(s)
<1>1. m \in Nat /\ u \in Seq(Nat) /\ Len(u) = m - n /\ \A i \in 1 .. Len(u) : u[i] = s[n + i]
  BY Cuts
<1>2. \A i \in 1 .. m : s[i] = b + i
  BY DEF Follow
<1>3. n <= m
  OBVIOUS
<1> HIDE DEF u, m
<1>4. ASSUME NEW i \in 1 .. m - n PROVE u[i] = (b + n) + i
  <2>1. n + i \in 1 .. m /\ u[i] = s[n + i]
    BY <1>1, <1>3
  <2>2. s[n + i] = b + (n + i)
    BY <1>2, <2>1
  <2> QED BY <2>1, <2>2
<1>5. \A i \in 1 .. Len(u) : u[i] = (b + n) + i
  BY <1>1, <1>4
<1> QED BY <1>1, <1>5 DEF Follow, u, m

LEMMA FollowTaken ==
  ASSUME Typed, NEW x \in Streams, NEW n \in Nat
  PROVE  Taken(x, n) \in Seq(Nat) /\ Len(Taken(x, n)) = n /\ Follow(Taken(x, n), taken[x])
<1>1. /\ Taken(x, n) \in Seq(Nat) /\ Len(Taken(x, n)) = n
      /\ \A i \in 1 .. n : Taken(x, n)[i] = taken[x] + i
  BY TakenFacts DEF Typed
<1> QED BY <1>1 DEF Follow

LEMMA BaseType ==
  ASSUME Typed, NEW x \in Streams
  PROVE  /\ Base(x) \in Nat /\ taken[x] \in Nat /\ start[x] \in Nat
         /\ cache[x] \in Seq(Nat) /\ Len(cache[x]) \in Nat /\ given[x[1]][x] \in Seq(Nat)
<1>1. start[x] \in Nat /\ taken[x] \in Nat /\ cache[x] \in Seq(Nat)
  BY DEF Typed, ReaderTypes, EndPointTypes
<1>2. given[x[1]][x] \in Seq(Nat)
  BY Kinds DEF Typed, ReaderTypes
<1>3. Len(given[x[1]][x]) \in Nat /\ Len(cache[x]) \in Nat
  BY <1>1, <1>2
<1>4. Base(x) \in Nat
  BY <1>1, <1>3 DEF Base
<1> QED BY <1>1, <1>2, <1>3, <1>4

\* A decoder in ConcurrentRead.
LEMMA KeptConcurrentRead ==
  ASSUME Typed, Bounded, Ordered, ~Shared, AllKept, NEW g \in Decoders, GoroutineStep(g), ReadStep(g),
         NEW x \in Streams
  PROVE  StreamKept(x)'
<1>0. /\ g \in Goroutines /\ g \notin Conns /\ StreamKept(x) /\ x[1] \in Conns /\ on[g] \in Streams
      /\ x[1] \in Goroutines /\ x[1] # g
      /\ pc \in [Goroutines -> Labels] /\ on \in [Goroutines -> Streams]
      /\ cache \in [Streams -> Seq(Nat)] /\ taken \in [Streams -> Nat] /\ arrived \in [Streams -> Nat]
      /\ written \in [Goroutines -> Seq(Nat)]
  BY Kinds DEF AllKept, Typed, ControlTypes, ReaderTypes
<1>1. \A h \in Goroutines : h # g => pc'[h] = pc[h] /\ on'[h] = on[h] /\ written'[h] = written[h]
  BY <1>0, Stepped
<1>2. given'[x[1]][x] = given[x[1]][x]
  BY <1>0, GivenStep
<1>3. UNCHANGED <<start, on>> /\ g \notin Parsers
  <2>1. g \notin Parsers
    BY <1>0, Kinds
  <2>2. ~DecoderStep(g) \/ UNCHANGED start
    BY DEF DecoderStep, ReadStep, Lock, ConcurrentReadCache, ConcurrentReadTake, ConcurrentReadAppend,
       ReadCache, ReadTake, ReadEOF, AtEnd, InReader, ReceiveInterrupt, At, Start, LocateRead, CallRead,
       Locates, LocateFails, Validate, SetValidStatus, Seek, SeekTo, SeekEnds, Sought, Forbid,
       ForbiddenConcurrentRead, InterruptReading, Choose
  <2>3. UNCHANGED start
    BY <1>0, <2>2 DEF GoroutineStep, endpointVars
  <2>4. UNCHANGED on
    BY DEF ReadStep, Lock, ConcurrentReadCache, ConcurrentReadTake, ConcurrentReadAppend,
       ReadCache, ReadTake, ReadEOF, ReceiveInterrupt
  <2> QED BY <2>1, <2>3, <2>4
<1>4. CASE Lock(g) \/ ConcurrentReadCache(g) \/ ReadEOF(g) \/ ReceiveInterrupt(g)
  <2>1. UNCHANGED <<cache, taken>> /\ pc[g] \in {"lock", "locked"}
        /\ pc'[g] \in {"locked", "running", "failed"}
    BY <1>0, <1>4 DEF Lock, ConcurrentReadCache, ReadEOF, AtEnd, InReader, ReceiveInterrupt, At, Goes, Returns
  <2>2. ~Writes(g, x) /\ ~Writes(g, x)'
    BY <2>1 DEF Writes, Appends, Seeks
  <2> QED BY <1>0, <1>1, <1>2, <1>3, <2>1, <2>2, KeptOutside
<1>5. CASE ConcurrentReadTake(g)
  <2>1. PICK n \in 1 .. arrived[on[g]] - taken[on[g]] :
          /\ taken' = [taken EXCEPT ![on[g]] = @ + n]
          /\ written' = [written EXCEPT ![g] = cache[on[g]] \o Taken(on[g], n)]
    BY <1>5 DEF ConcurrentReadTake
  <2>2. UNCHANGED cache /\ pc[g] = "locked" /\ pc'[g] = "append"
    BY <1>0, <1>5 DEF ConcurrentReadTake, InReader, At, Goes
  <2>3. n \in Nat
    BY <1>0, <2>1
  <2>4. CASE on[g] # x
    <3>1. taken'[x] = taken[x]
      BY <1>0, <2>1, <2>4
    <3>2. ~Writes(g, x) /\ ~Writes(g, x)'
      BY <1>3, <2>4 DEF Writes, Appends, Seeks
    <3> QED BY <1>0, <1>1, <1>2, <1>3, <2>2, <3>1, <3>2, KeptOutside
  <2>5. CASE on[g] = x
    <3>1. \A h \in Decoders : ~Writes(h, x)
      <4> TAKE h \in Decoders
      <4>1. CASE h = g
        BY <2>2, <4>1 DEF Writes, Appends, Seeks
      <4>2. CASE h # g
        BY <2>2, <2>5, <4>2, NobodyElse
      <4> QED BY <4>1, <4>2
    <3>2. taken[x] = Base(x) + Len(cache[x]) /\ Follow(cache[x], Base(x))
      BY <1>0, <3>1 DEF StreamKept, Writes
    <3> DEFINE t == Taken(x, n)
    <3>3. t \in Seq(Nat) /\ Len(t) = n /\ Follow(t, taken[x])
      BY <2>3, FollowTaken
    <3>4. Base(x) \in Nat /\ taken[x] \in Nat /\ cache[x] \in Seq(Nat) /\ Len(cache[x]) \in Nat
      BY BaseType
    <3>5. written'[g] = cache[x] \o t /\ taken'[x] = taken[x] + n
      BY <1>0, <2>1, <2>5
    <3> HIDE DEF t
    <3>6. Follow(written'[g], Base(x))
      BY <3>2, <3>3, <3>4, <3>5, FollowConcat
    <3>7. Len(written'[g]) = Len(cache[x]) + n
      <4>1. Len(cache[x] \o t) = Len(cache[x]) + Len(t)
        BY <3>3, <3>4, Concats
      <4> QED BY <3>3, <3>5, <4>1
    <3>8. taken'[x] = Base(x) + Len(written'[g])
      BY <2>3, <3>2, <3>4, <3>5, <3>7
    <3>9. \A h \in Decoders : h # g => ~Writes(h, x)'
      <4>1. \A h \in Decoders : h \in Goroutines
        BY Kinds
      <4> QED BY <1>1, <3>1, <4>1 DEF Writes, Appends, Seeks
    <3>10. Writes(g, x)' /\ \A h \in Decoders : ~Seeks(h, x)'
      BY <1>3, <2>2, <2>5, <3>9 DEF Writes, Appends, Seeks
    <3>11. Base(x)' = Base(x) /\ cache'[x] = cache[x]
      BY <1>2, <1>3, <2>2 DEF Base
    <3>12. Follow(written[g], Base(x))' /\ Follow(cache[x], Base(x))'
      BY <3>2, <3>6, <3>11 DEF Follow
    <3> HIDE DEF Base, Follow, Writes
    <3> QED BY <3>8, <3>9, <3>10, <3>11, <3>12 DEF StreamKept
  <2> QED BY <2>4, <2>5
<1>6. CASE ConcurrentReadAppend(g)
  <2>1. /\ pc[g] = "append" /\ pc'[g] = "running" /\ UNCHANGED <<taken, given>>
        /\ cache' = [cache EXCEPT ![on[g]] = written[g]]
    BY <1>0, <1>6 DEF ConcurrentReadAppend, At, Returns, Goes
  <2>2. ~Writes(g, x)'
    BY <2>1 DEF Writes, Appends, Seeks
  <2>3. CASE on[g] = x
    <3>1. Writes(g, x)
      BY <2>1, <2>3 DEF Writes, Appends
    <3> QED BY <1>0, <1>1, <1>3, <2>1, <2>2, <2>3, <3>1, KeptWritten
  <2>4. CASE on[g] # x
    <3>1. ~Writes(g, x) /\ cache'[x] = cache[x]
      BY <1>0, <2>1, <2>4 DEF Writes, Appends, Seeks
    <3> QED BY <1>0, <1>1, <1>2, <1>3, <2>1, <2>2, <3>1, KeptOutside
  <2> QED BY <2>3, <2>4
<1> QED BY <1>3, <1>4, <1>5, <1>6 DEF ReadStep, ReadCache, ReadTake

LEMMA CountType == ASSUME Typed, NEW g \in Decoders PROVE Count(g) \in Nat
<1>1. registry \in [Decoders -> Decoder] /\ on[g][2] \in Directions
  BY EndPointAssumption, Kinds DEF Typed, EndPointTypes, ControlTypes
<1>2. registry[g].count \in [Directions -> Nat]
  BY <1>1 DEF Decoder
<1> QED BY <1>1, <1>2 DEF Count

\* A decoder outside of ConcurrentRead.
LEMMA KeptDecoderStep ==
  ASSUME Typed, Bounded, Ordered, Unsought, ~Shared, AllKept, NEW g \in Decoders,
         GoroutineStep(g), DecoderStep(g), ~crashed', NEW x \in Streams
  PROVE  StreamKept(x)'
<1>0. /\ g \in Goroutines /\ StreamKept(x) /\ x[1] \in Conns /\ on[g] \in Streams /\ x[1] \in Goroutines
      /\ pc \in [Goroutines -> Labels] /\ on \in [Goroutines -> Streams]
      /\ cache \in [Streams -> Seq(Nat)] /\ written \in [Goroutines -> Seq(Nat)]
      /\ start \in [Streams -> Nat]
  BY Kinds DEF AllKept, Typed, ControlTypes, ReaderTypes, EndPointTypes
<1>1. \A h \in Goroutines : h # g => pc'[h] = pc[h] /\ on'[h] = on[h] /\ written'[h] = written[h]
  BY <1>0, Stepped
<1>2. UNCHANGED <<taken, given>>
  BY DEF DecoderStep, Start, LocateRead, CallRead, Locates, LocateFails, Validate,
     SetValidStatus, Seek, SeekTo, SeekEnds, Sought, Forbid, ForbiddenConcurrentRead,
     InterruptReading, Choose, KeepReader
<1>3. CASE Seek(g)
  <2>1. /\ pc[g] = "seek" /\ pc'[g] = "sought" /\ UNCHANGED <<cache, on>>
        /\ written' = [written EXCEPT ![g] = SubSeq(cache[on[g]], Count(g) + 1, Len(cache[on[g]]))]
        /\ start' = [start EXCEPT ![on[g]] = Count(g)] /\ Count(g) <= Len(cache[on[g]])
    <3>1. ~ (Count(g) > Len(cache[on[g]]))
      BY <1>3 DEF Seek
    <3>2. Count(g) \in Nat /\ Len(cache[on[g]]) \in Nat
      BY <1>0, CountType
    <3>3. Count(g) <= Len(cache[on[g]])
      BY <3>1, <3>2
    <3> QED BY <1>0, <1>3, <3>3 DEF Seek, SeekTo, At, Goes
  <2>2. CASE on[g] # x
    <3>1. start'[x] = start[x]
      BY <1>0, <2>1, <2>2
    <3>2. ~Writes(g, x) /\ ~Writes(g, x)'
      BY <2>1, <2>2 DEF Writes, Appends, Seeks
    <3> QED BY <1>0, <1>1, <1>2, <2>1, <3>1, <3>2, KeptOutside
  <2>3. CASE on[g] = x
    <3>1. \A h \in Decoders : ~Writes(h, x)
      <4> TAKE h \in Decoders
      <4>1. CASE h = g
        BY <2>1, <4>1 DEF Writes, Appends, Seeks
      <4>2. CASE h # g
        BY <2>1, <2>3, <4>2, NobodyElse
      <4> QED BY <4>1, <4>2
    <3>2. taken[x] = Base(x) + Len(cache[x]) /\ Follow(cache[x], Base(x))
      BY <1>0, <3>1 DEF StreamKept, Writes
    <3>3. start[x] = 0
      <4>1. Reads(g, x) /\ Ahead(g, x)
        BY <2>1, <2>3 DEF Ordered, Ahead
      <4> QED BY <4>1 DEF Unsought
    <3>4. given[x[1]][x] = <<>>
      <4>1. ~decoderReady
        BY <2>1 DEF Ordered
      <4> QED BY <1>0, <4>1 DEF Ordered
    <3> DEFINE n == Count(g)
               s == cache[x]
               u == SubSeq(s, n + 1, Len(s))
    <3>6. n \in Nat /\ n <= Len(s) /\ s \in Seq(Nat) /\ Len(s) \in Nat
      BY <1>0, <2>1, <2>3, CountType
    <3>5. Base(x) = 0 /\ Base(x)' = n
      <4>1. start'[x] = n /\ given'[x[1]][x] = <<>>
        BY <1>0, <1>2, <2>1, <2>3, <3>4
      <4>2. Base(x)' = n + 0 /\ Base(x) = 0 + 0
        <5> HIDE DEF n
        <5> QED BY <3>3, <3>4, <4>1 DEF Base
      <4> HIDE DEF n
      <4> QED BY <3>6, <4>2
    <3>7. written'[g] = u /\ taken'[x] = Len(s)
      <4>1. written'[g] = u
        BY <1>0, <2>1, <2>3
      <4>2. taken[x] = 0 + Len(s)
        BY <3>2, <3>5
      <4> HIDE DEF u, n, s
      <4> QED BY <1>2, <3>6, <4>1, <4>2
    <3> HIDE DEF n, s
    <3>8. Follow(s, 0)
      BY <3>2, <3>5 DEF s
    <3>9. Len(u) = Len(s) - n /\ Follow(u, 0 + n)
      BY <3>6, <3>8, FollowCut
    <3> HIDE DEF u
    <3>10. Follow(written'[g], n)
      BY <3>6, <3>7, <3>9
    <3>11. Follow(written[g], Base(x))'
      BY <3>5, <3>10 DEF Follow
    <3>12. taken'[x] = Base(x)' + Len(written'[g])
      BY <3>5, <3>6, <3>7, <3>9
    <3>13. \A h \in Decoders : h # g => ~Writes(h, x)'
      <4>1. \A h \in Decoders : h \in Goroutines
        BY Kinds
      <4> QED BY <1>1, <3>1, <4>1 DEF Writes, Appends, Seeks
    <3>14. Writes(g, x)' /\ Seeks(g, x)'
      BY <2>1, <2>3 DEF Writes, Seeks
    <3> HIDE DEF Base, Follow, Writes
    <3> QED BY <3>11, <3>12, <3>13, <3>14 DEF StreamKept
  <2> QED BY <2>2, <2>3
<1>4. CASE SeekEnds(g)
  <2>1. /\ pc[g] = "sought" /\ pc'[g] = "forbid" /\ UNCHANGED <<start, on>>
        /\ cache' = [cache EXCEPT ![on[g]] = written[g]]
    BY <1>0, <1>4 DEF SeekEnds, Sought, At, Goes, endpointVars
  <2>2. ~Writes(g, x)'
    BY <2>1 DEF Writes, Appends, Seeks
  <2>3. CASE on[g] = x
    <3>1. Writes(g, x)
      BY <2>1, <2>3 DEF Writes, Seeks
    <3> QED BY <1>0, <1>1, <1>2, <2>1, <2>2, <2>3, <3>1, KeptWritten
  <2>4. CASE on[g] # x
    <3>1. ~Writes(g, x) /\ cache'[x] = cache[x]
      BY <1>0, <2>1, <2>4 DEF Writes, Appends, Seeks
    <3> QED BY <1>0, <1>1, <1>2, <2>1, <2>2, <3>1, KeptOutside
  <2> QED BY <2>3, <2>4
<1>5. CASE ~Seek(g) /\ ~SeekEnds(g)
  <2>1. /\ pc[g] \notin {"append", "sought"} /\ pc'[g] \notin {"append", "sought"}
        /\ UNCHANGED <<cache, start>>
    BY <1>0, <1>5 DEF DecoderStep, Start, LocateRead, CallRead, Locates, LocateFails, Validate,
       SetValidStatus, Forbid, ForbiddenConcurrentRead, InterruptReading, Choose, KeepReader,
       endpointVars, At, Goes
  <2>2. ~Writes(g, x) /\ ~Writes(g, x)'
    BY <2>1 DEF Writes, Appends, Seeks
  <2> QED BY <1>0, <1>1, <1>2, <2>1, <2>2, KeptOutside
<1> QED BY <1>3, <1>4, <1>5

\* What decoders and the environment do is a discard or nothing to Parse.
LEMMA OutsKept ==
  ASSUME UNCHANGED start, \A c \in Conns : given'[c] = given[c]
  PROVE  UNCHANGED parsedVars
<1>1. \A x \in Streams : x[1] \in Conns
  BY Kinds
<1> QED BY <1>1 DEF parsedVars, outs

\* A connection's Parse in Read.
LEMMA KeptRead ==
  ASSUME Typed, Bounded, Ordered, AllKept, NEW g \in Conns, GoroutineStep(g), ReadStep(g)
  PROVE  AllKept' /\ [Parsed!Next]_parsedVars
<1>0. /\ g \in Goroutines /\ g \notin Decoders /\ on[g] \in Streams /\ on[g][1] = g
      /\ pc \in [Goroutines -> Labels] /\ on \in [Goroutines -> Streams]
      /\ cache \in [Streams -> Seq(Nat)] /\ taken \in [Streams -> Nat] /\ arrived \in [Streams -> Nat]
  BY Kinds DEF Typed, ControlTypes, ReaderTypes, Ordered
<1>1. \A h \in Goroutines : h # g => pc'[h] = pc[h] /\ on'[h] = on[h] /\ written'[h] = written[h]
  BY <1>0, Stepped
<1>2. \A h \in Goroutines : h # g => given'[h] = given[h]
  BY <1>0, GivenStep
<1>3. UNCHANGED <<start, on>>
  <2>1. ~ParserStep(g) \/ UNCHANGED start
    BY DEF ParserStep, StartParse, ParseRead, DefaultNext, ParseNext, ParseFails, endpointVars
  <2>2. UNCHANGED start
    BY <1>0, <2>1 DEF GoroutineStep, endpointVars
  <2>3. UNCHANGED on
    BY DEF ReadStep, Lock, ConcurrentReadCache, ConcurrentReadTake, ConcurrentReadAppend,
       ReadCache, ReadTake, ReadEOF, ReceiveInterrupt
  <2> QED BY <2>2, <2>3
<1>4. pc[g] \in {"lock", "locked", "append"}
  BY DEF ReadStep, Lock, ConcurrentReadCache, ConcurrentReadTake, ConcurrentReadAppend,
     ReadCache, ReadTake, ReadEOF, AtEnd, InReader, ReceiveInterrupt, At
<1>5. \A h \in Decoders, x \in Streams : ~Writes(h, x) /\ ~Writes(h, x)' /\ ~Seeks(h, x) /\ ~Seeks(h, x)'
  <2>1. \A h \in Decoders : h \in Goroutines /\ h # g /\ pc[h] = "done"
    BY <1>0, <1>4, Kinds DEF Ordered
  <2>2. \A h \in Decoders : pc'[h] = "done"
    BY <1>1, <2>1
  <2> QED BY <2>1, <2>2 DEF Writes, Appends, Seeks
<1>6. \A x \in Streams : x # on[g] => given'[x[1]][x] = given[x[1]][x] \/ x[1] = g
  BY <1>2, Kinds
<1> DEFINE x == on[g]
<1>7. taken[x] = Base(x) + Len(cache[x]) /\ Follow(cache[x], Base(x))
  BY <1>0, <1>5 DEF AllKept, StreamKept
<1>8. Base(x) \in Nat /\ taken[x] \in Nat /\ cache[x] \in Seq(Nat) /\ Len(cache[x]) \in Nat
      /\ given[g][x] \in Seq(Nat) /\ Len(given[g][x]) \in Nat /\ start[x] \in Nat
  BY <1>0, BaseType
\* Gives(g, s), of bytes that follow.
<1>9. ASSUME NEW s \in Seq(Nat), Gives(g, s), Follow(s, Base(x)),
             Follow(cache'[x], Base(x) + Len(s)), taken'[x] = Base(x) + Len(s) + Len(cache'[x]),
             \A y \in Streams : y # x => cache'[y] = cache[y] /\ taken'[y] = taken[y]
      PROVE  AllKept' /\ Parsed!Next
  <2>1. /\ given'[g][x] = given[g][x] \o s
        /\ \A h \in Goroutines, y \in Streams : h # g \/ y # x => given'[h][y] = given[h][y]
    BY <1>0, <1>9, GivesTypes
  <2>2. \A y \in Streams : y[1] \in Goroutines
    BY Kinds
  <2>3. \A y \in Streams : y # x => given'[y[1]][y] = given[y[1]][y]
    BY <2>1, <2>2
  <2>4. Parsed!Next
    BY <1>0, <1>3, <1>9, <2>1, <2>3, GiveStep
  <2>5. ASSUME NEW y \in Streams, y # x PROVE StreamKept(y)'
    <3>1. StreamKept(y)
      BY DEF AllKept
    <3> HIDE DEF x
    <3> QED BY <1>3, <1>5, <1>9, <2>3, <2>5, <3>1, KeptKept DEF Writes
  <2>6. StreamKept(x)'
    <3>1. Base(x)' = Base(x) + Len(s)
      <4>1. Len(given'[g][x]) = Len(given[g][x]) + Len(s)
        BY <1>8, <2>1, Concats
      <4>2. Len(s) \in Nat
        OBVIOUS
      <4>3. Base(x)' = start[x] + Len(given'[g][x]) /\ Base(x) = start[x] + Len(given[g][x])
        BY <1>0, <1>3 DEF Base
      <4> HIDE DEF x
      <4> QED BY <1>8, <4>1, <4>2, <4>3
    <3>2. x' = x
      BY <1>3
    <3>3. Follow(cache'[x], Base(x)') /\ taken'[x] = Base(x)' + Len(cache'[x])
      BY <1>9, <3>1
    <3>4. Follow(cache[x], Base(x))'
      BY <3>2, <3>3 DEF Follow
    <3> HIDE DEF Base, Follow, Writes
    <3> QED BY <1>0, <1>5, <3>2, <3>3, <3>4 DEF StreamKept
  <2> QED BY <1>3, <2>4, <2>5, <2>6 DEF AllKept
<1>10. CASE Lock(g) \/ ReadEOF(g) \/ ReceiveInterrupt(g)
  <2>1. UNCHANGED <<cache, taken, given>>
    BY <1>10 DEF Lock, ReadEOF, ReceiveInterrupt
  <2>2. ASSUME NEW y \in Streams PROVE StreamKept(y)'
    <3>1. StreamKept(y)
      BY DEF AllKept
    <3> QED BY <1>3, <1>5, <2>1, <3>1, KeptKept DEF Writes
  <2> QED BY <1>3, <2>1, <2>2, OutsKept DEF AllKept
<1>11. CASE ReadCache(g)
  <2>1. PICK n \in DOMAIN Unread(g) :
          /\ Gives(g, SubSeq(Unread(g), 1, n))
          /\ cache' = [cache EXCEPT ![on[g]] = SubSeq(@, n + 1, Len(@))]
    BY <1>11 DEF ReadCache
  <2> DEFINE s == SubSeq(Unread(g), 1, n)
             k == Len(cache[x])
             b == Base(x)
  <2>2. /\ n \in Nat /\ n <= Len(Unread(g)) /\ s \in Seq(Nat) /\ Len(s) = n
        /\ \A i \in 1 .. n : s[i] = Unread(g)[i]
    BY <1>0, FirstUnread
  <2>3. /\ Len(Unread(g)) = IF 0 <= k THEN k - 0 ELSE 0
        /\ \A i \in 1 .. Len(Unread(g)) : Unread(g)[i] = cache[x][0 + i]
    BY <1>0, UnreadFacts
  <2>4. Len(Unread(g)) = k
    <3> HIDE DEF k
    <3>1. k \in Nat
      BY <1>8 DEF k
    <3> QED BY <2>3, <3>1
  <2>5. Follow(s, b)
    <3>1. \A i \in 1 .. k : cache[x][i] = b + i
      BY <1>7 DEF Follow
    <3>2. k \in Nat
      BY <1>8
    <3> HIDE DEF s, k, b, x
    <3>3. ASSUME NEW i \in 1 .. n PROVE s[i] = b + i
      <4>1. i \in 1 .. k /\ 0 + i = i
        BY <2>2, <2>4, <3>2
      <4> QED BY <2>2, <2>3, <2>4, <3>1, <4>1
    <3> QED BY <2>2, <3>3 DEF Follow
  <2>6. cache'[x] = SubSeq(cache[x], n + 1, Len(cache[x])) /\ \A y \in Streams : y # x => cache'[y] = cache[y]
    BY <1>0, <2>1
  <2>7. Follow(cache'[x], b + n) /\ Len(cache'[x]) = k - n
    <3>1. n <= k
      BY <2>2, <2>4
    <3> HIDE DEF b
    <3>2. b \in Nat /\ Follow(cache[x], b)
      BY <1>7, <1>8 DEF b
    <3>3. cache[x] \in Seq(Nat) /\ n \in Nat /\ n <= Len(cache[x])
      BY <1>8, <2>2, <3>1
    <3> HIDE DEF x
    <3>4. /\ Len(SubSeq(cache[x], n + 1, Len(cache[x]))) = k - n
          /\ Follow(SubSeq(cache[x], n + 1, Len(cache[x])), b + n)
      BY <3>2, <3>3, FollowCut
    <3> QED BY <2>6, <3>4
  <2>8. taken'[x] = b + n + Len(cache'[x])
    <3>1. UNCHANGED taken
      BY <1>11 DEF ReadCache
    <3>2. taken[x] = b + k /\ k \in Nat /\ b \in Nat
      BY <1>7, <1>8
    <3> HIDE DEF x, b, k
    <3> QED BY <2>2, <2>7, <3>1, <3>2
  <2>9. \A y \in Streams : taken'[y] = taken[y]
    BY <1>11 DEF ReadCache
  <2> QED BY <1>9, <2>1, <2>2, <2>5, <2>6, <2>7, <2>8, <2>9
<1>12. CASE ReadTake(g)
  <2>1. PICK n \in 1 .. arrived[on[g]] - taken[on[g]] :
          /\ taken' = [taken EXCEPT ![on[g]] = @ + n]
          /\ Gives(g, Taken(on[g], n))
    BY <1>12 DEF ReadTake
  <2> DEFINE s == Taken(x, n)
             b == Base(x)
  <2>2. n \in Nat
    BY <1>0, <2>1
  <2>3. s \in Seq(Nat) /\ Len(s) = n /\ Follow(s, taken[x])
    BY <1>0, <2>2, FollowTaken
  <2>4. Len(cache[x]) = 0
    <3> DEFINE k == Len(cache[x])
    <3>1. Len(Unread(g)) = IF 0 <= k THEN k - 0 ELSE 0
      BY <1>0, UnreadFacts
    <3>2. Unread(g) = <<>> /\ k \in Nat
      BY <1>8, <1>12 DEF ReadTake, InReader
    <3>3. Len(Unread(g)) = 0
      BY <3>2
    <3> HIDE DEF k
    <3>4. k = 0
      BY <3>1, <3>2, <3>3
    <3> QED BY <3>4 DEF k
  <2>5. taken[x] = b /\ UNCHANGED cache
    BY <1>7, <1>8, <1>12, <2>4 DEF ReadTake
  <2>6. taken'[x] = b + n + Len(cache'[x]) /\ Follow(cache'[x], b + n)
    <3>1. taken'[x] = taken[x] + n
      BY <1>0, <2>1
    <3>2. Follow(cache'[x], b + n)
      BY <2>4, <2>5 DEF Follow
    <3>3. taken[x] \in Nat /\ Len(cache'[x]) = 0
      BY <1>8, <2>4, <2>5
    <3> HIDE DEF b
    <3> QED BY <2>2, <2>5, <3>1, <3>2, <3>3
  <2>7. \A y \in Streams : y # x => taken'[y] = taken[y]
    BY <1>0, <2>1
  <2> QED BY <1>9, <2>1, <2>3, <2>5, <2>6, <2>7
<1>13. ~ConcurrentReadCache(g) /\ ~ConcurrentReadTake(g) /\ ~ConcurrentReadAppend(g)
  BY <1>0 DEF ConcurrentReadCache, ConcurrentReadTake, ConcurrentReadAppend, At, Bounded
<1> QED BY <1>3, <1>9, <1>10, <1>11, <1>12, <1>13 DEF ReadStep

LEMMA DiscardStep ==
  ASSUME Typed, NEW x \in Streams, NEW n, start[x] = 0, given[x[1]][x] = <<>>,
         start' = [start EXCEPT ![x] = n], UNCHANGED outs
  PROVE  Parsed!Next
<1>1. start'[x] = n
  BY DEF Typed, EndPointTypes
<1>2. outs[x] = <<>>
  BY DEF outs
<1>3. Parsed!Discard(x)
  BY <1>1, <1>2 DEF Parsed!Discard, outs
<1> QED BY <1>3 DEF Parsed!Next

LEMMA KeptNext ==
  ASSUME Typed, Unstarted, Bounded, Ordered, Unsought, AllKept, ~Shared, [Next]_vars
  PROVE  (crashed' \/ AllKept') /\ [Parsed!Next]_parsedVars
<1>0. Conns \subseteq Goroutines /\ Decoders \subseteq Goroutines /\ Decoders \cap Conns = {}
      /\ Goroutines = Decoders \cup Conns
  BY Kinds
<1>a. /\ pc \in [Goroutines -> Labels] /\ on \in [Goroutines -> Streams]
  BY DEF Typed, ControlTypes
<1>b. ASSUME UNCHANGED <<cache, taken, start, given, on, written>>,
             \A g \in Goroutines : pc'[g] \in {"append", "sought"} \/ pc[g] \in {"append", "sought"}
               => pc'[g] = pc[g]
      PROVE  AllKept' /\ UNCHANGED parsedVars
  <2>1. ASSUME NEW y \in Streams PROVE StreamKept(y)'
    <3>1. StreamKept(y)
      BY DEF AllKept
    <3>2. \A g \in Decoders : (Appends(g, y)' <=> Appends(g, y)) /\ (Seeks(g, y)' <=> Seeks(g, y))
      BY <1>0, <1>b DEF Appends, Seeks
    <3> QED BY <1>b, <3>1, <3>2, KeptKept
  <2> QED BY <1>b, <2>1, OutsKept DEF AllKept
<1>1. ASSUME NEW c \in Conns, NEW d \in Directions, addStream(c, d)
      PROVE  AllKept' /\ UNCHANGED parsedVars
  <2>1. UNCHANGED <<cache, taken, start, given, on, written>>
    BY <1>1 DEF addStream
  <2>2. \A g \in Goroutines : pc'[g] = pc[g] \/ (pc[g] = "none" /\ pc'[g] \in {"wait", "start"})
    BY <1>0, <1>1 DEF addStream, Unstarted
  <2> QED BY <1>b, <2>1, <2>2
<1>2. ASSUME NEW x \in Streams, Assembles(x) PROVE AllKept' /\ UNCHANGED parsedVars
  <2>1. UNCHANGED <<cache, taken, start, given, on, written, pc>>
    BY <1>2 DEF Assembles, Arrive, End, endpointVars
  <2> QED BY <1>b, <2>1
<1>3. CASE ChooseReady \/ UNCHANGED vars
  <2>1. UNCHANGED <<cache, taken, start, given, on, written, pc>>
    BY <1>3 DEF ChooseReady, readerVars, vars, endpointVars
  <2> QED BY <1>b, <2>1
<1>4. ASSUME NEW g \in Decoders, GoroutineStep(g)
      PROVE  (crashed' \/ AllKept') /\ [Parsed!Next]_parsedVars
  <2>1. crashed' \/ AllKept'
    <3>1. CASE ReadStep(g)
      BY <1>4, <3>1, KeptConcurrentRead DEF AllKept
    <3>2. CASE DecoderStep(g)
      BY <1>4, <3>2, KeptDecoderStep DEF AllKept
    <3> QED BY <1>0, <1>4, <3>1, <3>2 DEF GoroutineStep
  <2>2. \A c \in Conns : given'[c] = given[c]
    BY <1>0, <1>4, GivenStep
  <2>3. CASE Seek(g)
    <3> DEFINE x == on[g]
               n == Count(g)
    <3>1. pc[g] = "seek" /\ start' = [start EXCEPT ![x] = n]
      BY <2>3 DEF Seek, SeekTo, At
    <3>2. x \in Streams
      BY <1>0, <1>a
    <3>3. start[x] = 0
      <4>1. Reads(g, x) /\ Ahead(g, x)
        BY <3>1 DEF Ordered, Ahead
      <4> QED BY <3>2, <4>1 DEF Unsought
    <3>4. given[x[1]][x] = <<>>
      <4>1. ~decoderReady
        BY <3>1 DEF Ordered
      <4> QED BY <3>2, <4>1, Kinds DEF Ordered
    <3>5. UNCHANGED outs
      BY <2>2, Kinds DEF outs
    <3> HIDE DEF x, n
    <3> QED BY <2>1, <3>1, <3>2, <3>3, <3>4, <3>5, DiscardStep
  <2>4. CASE ~Seek(g)
    <3>1. UNCHANGED start
      BY <1>0, <1>4, <2>4 DEF GoroutineStep, DecoderStep, Start, LocateRead, Locates, LocateFails,
         Validate, SeekEnds, Forbid, InterruptReading, Choose, endpointVars
    <3> QED BY <2>1, <2>2, <3>1, OutsKept
  <2> QED BY <2>3, <2>4
<1>5. ASSUME NEW g \in Conns, GoroutineStep(g)
      PROVE  AllKept' /\ [Parsed!Next]_parsedVars
  <2>1. CASE ReadStep(g)
    BY <1>0, <1>5, <2>1, KeptRead
  <2>2. CASE ParserStep(g)
    <3>1. /\ UNCHANGED <<cache, taken, given, start>> /\ pc[g] \notin {"append", "sought"}
          /\ pc'[g] \notin {"append", "sought"}
      BY <1>0, <1>a, <2>2 DEF ParserStep, StartParse, ParseRead, CallRead, DefaultNext, ParseNext, ParseFails,
         KeepReader, endpointVars, At, Goes
    <3>2. \A h \in Goroutines : h # g => pc'[h] = pc[h] /\ on'[h] = on[h] /\ written'[h] = written[h]
      BY <1>0, <1>5, Stepped
    <3>3. ASSUME NEW y \in Streams PROVE StreamKept(y)'
      <4>1. StreamKept(y)
        BY DEF AllKept
      <4>2. ~Writes(g, y) /\ ~Writes(g, y)'
        BY <3>1 DEF Writes, Appends, Seeks
      <4> QED BY <1>0, <3>1, <3>2, <4>1, <4>2, KeptOutside
    <3> QED BY <3>1, <3>3, OutsKept DEF AllKept
  <2> QED BY <1>0, <1>5, <2>1, <2>2 DEF GoroutineStep
<1>6. ASSUME NEW g \in Goroutines, GoroutineStep(g)
      PROVE  (crashed' \/ AllKept') /\ [Parsed!Next]_parsedVars
  BY <1>0, <1>4, <1>5, <1>6
<1>7. CASE Environment
  BY <1>1, <1>2, <1>7 DEF Environment, startParseStream
<1> QED BY <1>3, <1>6, <1>7 DEF Next, ChooserStep

\* Nothing happens after a panic.
LEMMA CrashedEnds == crashed /\ [Next]_vars => UNCHANGED parsedVars /\ UNCHANGED crashed
<1> SUFFICES ASSUME crashed, [Next]_vars PROVE UNCHANGED parsedVars /\ UNCHANGED crashed
  OBVIOUS
<1>1. UNCHANGED vars
  BY DEF Next, Environment, ChooserStep, GoroutineStep
<1> QED BY <1>1 DEF vars, endpointVars, readerVars, parsedVars, outs

LEMMA KeptStep == KeptInv /\ [Next]_vars => KeptInv' /\ [Shared \/ Parsed!Next]_parsedVars
<1> SUFFICES ASSUME KeptInv, [Next]_vars PROVE KeptInv' /\ [Shared \/ Parsed!Next]_parsedVars
  OBVIOUS
<1>1. Typed /\ Unstarted /\ Bounded /\ Ordered
  BY DEF KeptInv
<1>2. Typed' /\ Unstarted' /\ Bounded' /\ Ordered'
  BY <1>1, TypedNext, UnstartedNext, BoundedNext, OrderedNext
<1>3. CASE Shared
  <2>1. Shared'
    BY <1>1, <1>3, RegistryKept DEF Shared, Share, Type
  <2> QED BY <1>2, <1>3, <2>1 DEF KeptInv
<1>4. CASE ~Shared /\ crashed
  <2>1. Unsought'
    BY <1>1, <1>4, UnsoughtNext DEF KeptInv
  <2> QED BY <1>2, <1>4, <2>1, CrashedEnds DEF KeptInv
<1>5. CASE ~Shared /\ ~crashed
  <2>1. Unsought /\ AllKept
    BY <1>5 DEF KeptInv
  <2>2. Unsought'
    BY <1>1, <1>5, <2>1, UnsoughtNext
  <2>3. (crashed' \/ AllKept') /\ [Parsed!Next]_parsedVars
    BY <1>1, <1>5, <2>1, KeptNext
  <2> QED BY <1>2, <2>2, <2>3 DEF KeptInv
<1> QED BY <1>3, <1>4, <1>5

LEMMA KeptInit == Init => KeptInv /\ Parsed!Init
<1> SUFFICES ASSUME Init PROVE KeptInv /\ Parsed!Init
  OBVIOUS
<1>0. Conns \subseteq Goroutines /\ Decoders \subseteq Goroutines /\ Decoders \cap Conns = {}
  BY Kinds
<1>1. Typed /\ Unstarted /\ Bounded
  BY SeenInit DEF SeenInv
<1>2. Ordered
  BY <1>0 DEF Init, ReadersInit, Ordered
<1>3. Unsought
  BY DEF Init, Unsought
<1>4. ASSUME NEW x \in Streams PROVE StreamKept(x)
  <2>1. Base(x) = 0 /\ taken[x] = 0 /\ cache[x] = <<>>
    BY <1>0, Kinds DEF Init, ReadersInit, Base
  <2>2. \A g \in Decoders : ~Writes(g, x)
    BY <1>0 DEF Init, ReadersInit, Writes, Appends, Seeks
  <2> QED BY <2>1, <2>2 DEF StreamKept, Follow
<1>5. Parsed!Init
  BY <1>0, Kinds DEF Init, ReadersInit, Parsed!Init, outs
<1> QED BY <1>1, <1>2, <1>3, <1>4, <1>5 DEF KeptInv, AllKept

\* When no two decoders read one stream, ConcurrentRead's cache, SeekTo without
\* the mutex and Read implement ValidStream: each Parse is given the bytes of
\* a stream from the valid start that a decoder found, in order and each one
\* time, whatever the decoders had taken before.
THEOREM ParseIsGivenTheStream == Spec => ParsedFromTheStart
<1>1. Init => KeptInv /\ Parsed!Init
  BY KeptInit
<1>2. KeptInv /\ [Next]_vars => KeptInv' /\ [Shared \/ Parsed!Next]_parsedVars
  BY KeptStep
<1> QED BY <1>1, <1>2, PTL DEF Spec, ParsedFromTheStart
=============================================================================
