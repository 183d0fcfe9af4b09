---------------------------- MODULE CaptureProofs ----------------------------
(***************************************************************************)
(* Proofs about Capture, for any devices, addresses, packets,              *)
(* configurations and bounds: types, one goroutine for each handle, the    *)
(* latest configuration in the handle of every listen capture, and the     *)
(* packets that captures are given.                                        *)
(***************************************************************************)
EXTENDS Capture, TLAPS

-----------------------------------------------------------------------------
(* Mailboxes.                                                              *)

UpdatesIn(s) == {i \in DOMAIN s : s[i].type = "addr"}

\* The last update in mailbox s has addresses l; a capture with addresses a
\* has these if there is none.
Leads(s, a, l) ==
  /\ UpdatesIn(s) = {} => a = l
  /\ \A i \in UpdatesIn(s) : (\A j \in UpdatesIn(s) : j <= i) => s[i].addrs = l

LEMMA TailFacts ==
  ASSUME NEW s \in Seq(Message), s # <<>>
  PROVE  /\ Head(s) = s[1] /\ Head(s) \in Message /\ 1 \in DOMAIN s
         /\ Tail(s) \in Seq(Message) /\ Len(s) \in Nat /\ Len(s) > 0
         /\ Len(Tail(s)) = Len(s) - 1
         /\ \A i \in DOMAIN Tail(s) : i \in Nat /\ i + 1 \in DOMAIN s /\ Tail(s)[i] = s[i + 1]
         /\ \A i \in DOMAIN s : i # 1 => i \in Nat /\ i - 1 \in DOMAIN Tail(s) /\ Tail(s)[i - 1] = s[i]
OBVIOUS

LEMMA TailUpdates ==
  ASSUME NEW s \in Seq(Message), s # <<>>
  PROVE  /\ \A i \in UpdatesIn(Tail(s)) : i \in Nat /\ i + 1 \in UpdatesIn(s) /\ Tail(s)[i] = s[i + 1]
         /\ \A i \in UpdatesIn(s) :
              i # 1 => i \in Nat /\ i - 1 \in UpdatesIn(Tail(s)) /\ Tail(s)[i - 1] = s[i]
BY TailFacts DEF UpdatesIn

\* A status is handled.
LEMMA LeadsTailStatus ==
  ASSUME NEW s \in Seq(Message), s # <<>>, Head(s).type # "addr", NEW a, NEW l, Leads(s, a, l)
  PROVE  Leads(Tail(s), a, l)
<1>1. 1 \notin UpdatesIn(s)
  BY TailFacts DEF UpdatesIn
<1>2. UpdatesIn(Tail(s)) = {} => UpdatesIn(s) = {}
  BY <1>1, TailUpdates
<1>3. ASSUME NEW i \in UpdatesIn(Tail(s)), \A j \in UpdatesIn(Tail(s)) : j <= i
      PROVE  Tail(s)[i].addrs = l
  <2>1. \A j \in UpdatesIn(s) : j <= i + 1
    BY <1>1, <1>3, TailUpdates
  <2>2. i + 1 \in UpdatesIn(s) /\ Tail(s)[i] = s[i + 1]
    BY TailUpdates
  <2>3. s[i + 1].addrs = l
    BY <2>1, <2>2 DEF Leads
  <2> QED BY <2>2, <2>3
<1> QED BY <1>2, <1>3 DEF Leads

\* An update is handled.
LEMMA LeadsTailUpdate ==
  ASSUME NEW s \in Seq(Message), s # <<>>, Head(s).type = "addr", NEW a, NEW l, Leads(s, a, l)
  PROVE  Leads(Tail(s), Head(s).addrs, l)
<1>1. 1 \in UpdatesIn(s) /\ Head(s) = s[1]
  BY TailFacts DEF UpdatesIn
<1>2. UpdatesIn(Tail(s)) = {} => Head(s).addrs = l
  <2> SUFFICES ASSUME UpdatesIn(Tail(s)) = {} PROVE Head(s).addrs = l
    OBVIOUS
  <2>1. \A j \in UpdatesIn(s) : j <= 1
    BY TailUpdates
  <2> QED BY <1>1, <2>1 DEF Leads
<1>3. ASSUME NEW i \in UpdatesIn(Tail(s)), \A j \in UpdatesIn(Tail(s)) : j <= i
      PROVE  Tail(s)[i].addrs = l
  <2>1. ASSUME NEW j \in UpdatesIn(s) PROVE j <= i + 1
    <3>1. CASE j = 1
      BY <3>1, TailUpdates
    <3>2. CASE j # 1
      BY <1>3, <3>2, TailUpdates
    <3> QED BY <3>1, <3>2
  <2>2. i + 1 \in UpdatesIn(s) /\ Tail(s)[i] = s[i + 1]
    BY TailUpdates
  <2>3. s[i + 1].addrs = l
    BY <2>1, <2>2 DEF Leads
  <2> QED BY <2>2, <2>3
<1> QED BY <1>2, <1>3 DEF Leads

LEMMA AppendFacts ==
  ASSUME NEW s \in Seq(Message), NEW m \in Message
  PROVE  /\ Append(s, m) \in Seq(Message) /\ Append(s, m) # <<>>
         /\ DOMAIN Append(s, m) = DOMAIN s \cup {Len(s) + 1}
         /\ Append(s, m)[Len(s) + 1] = m
         /\ \A i \in DOMAIN s : i \in Nat /\ i <= Len(s) /\ Append(s, m)[i] = s[i]
OBVIOUS

\* A status is sent.
LEMMA LeadsAppendStatus ==
  ASSUME NEW s \in Seq(Message), NEW m \in Message, m.type # "addr", NEW a, NEW l, Leads(s, a, l)
  PROVE  Leads(Append(s, m), a, l)
<1>1. UpdatesIn(Append(s, m)) = UpdatesIn(s)
  BY AppendFacts DEF UpdatesIn
<1>2. \A i \in UpdatesIn(s) : Append(s, m)[i] = s[i]
  BY AppendFacts DEF UpdatesIn
<1> QED BY <1>1, <1>2 DEF Leads

\* An update is sent.
LEMMA LeadsAppendUpdate ==
  ASSUME NEW s \in Seq(Message), NEW m \in Message, m.type = "addr", NEW a
  PROVE  Leads(Append(s, m), a, m.addrs)
<1>1. Len(s) + 1 \in UpdatesIn(Append(s, m))
  BY AppendFacts DEF UpdatesIn
<1>2. ASSUME NEW i \in UpdatesIn(Append(s, m)), \A j \in UpdatesIn(Append(s, m)) : j <= i
      PROVE  Append(s, m)[i] = m
  <2>1. Len(s) + 1 <= i
    BY <1>1, <1>2
  <2>2. i \in DOMAIN s \/ i = Len(s) + 1
    BY AppendFacts DEF UpdatesIn
  <2>3. Len(s) \in Nat
    OBVIOUS
  <2>4. i = Len(s) + 1
    BY <2>1, <2>2, <2>3, AppendFacts
  <2> QED BY <2>4, AppendFacts
<1> QED BY <1>1, <1>2 DEF Leads

-----------------------------------------------------------------------------
(* Types.                                                                  *)

LEMMA MessageTypes ==
  /\ \A a \in SUBSET Addrs :
       AddrUpdateMsg(a) \in Message /\ AddrUpdateMsg(a).type = "addr" /\ AddrUpdateMsg(a).addrs = a
  /\ \A s \in Statuses :
       CaptureStatusSetMsg(s) \in Message /\ CaptureStatusSetMsg(s).type # "addr"
BY DEF Message, AddrUpdateMsg, CaptureStatusSetMsg

LEMMA FilterTypes == \A a \in SUBSET Addrs : GenerateBPFStr(a) \in Filter
BY DEF GenerateBPFStr, Filter

LEMMA CaptureTypes ==
  /\ \A c \in Captures : c[1] \in Devices /\ c[2] \in {"listen", "connect"}
  /\ \A new \in Confs, c \in Captures : new[c[2]] \in SUBSET Addrs
<1>1. \A c \in Captures : c[1] \in Devices /\ c[2] \in {"listen", "connect"}
  BY DEF Captures
<1>2. \A new \in Confs : new["listen"] \in SUBSET Addrs /\ new["connect"] \in SUBSET Addrs
  BY CaptureAssumption DEF Conf
<1> QED BY <1>1, <1>2

\* ctx.Send keeps the mailboxes' type.
LEMMA SendTypes ==
  ASSUME TypeOK, NEW cs \in SUBSET Captures, NEW m \in Message, Send(cs, m)
  PROVE  mailbox' \in [Captures -> Seq(Message)]
<1>1. ASSUME NEW c \in Captures
      PROVE  (IF c \in cs THEN Append(mailbox[c], m) ELSE mailbox[c]) \in Seq(Message)
  BY DEF TypeOK
<1> QED BY <1>1 DEF Send

LEMMA ReceivesTypes == TypeOK /\ Receives => messages' \in 0 .. MaxMessages
BY CaptureAssumption DEF TypeOK, Receives

LEMMA HandlesTypes ==
  ASSUME TypeOK, NEW c \in Captures, NEW m, Handles(c, m)
  PROVE  mailbox' \in [Captures -> Seq(Message)]
<1>1. mailbox[c] \in Seq(Message) /\ mailbox[c] # <<>>
  BY DEF TypeOK, Handles
<1>2. Tail(mailbox[c]) \in Seq(Message)
  BY <1>1, TailFacts
<1> QED BY <1>2 DEF TypeOK, Handles

LEMMA FailureTypes == TypeOK /\ libpcapFails => failures' \in 0 .. MaxFailures
BY CaptureAssumption DEF TypeOK, libpcapFails

\* Opening one more handle.
LEMMA OpenTypes ==
  ASSUME TypeOK, NEW c \in Captures, NEW f \in Filter,
         filter' = [filter EXCEPT ![c] = Append(@, f)]
  PROVE  /\ filter' \in [Captures -> Seq(Filter)]
         /\ Len(filter'[c]) = Len(filter[c]) + 1 /\ Len(filter[c]) \in Nat
         /\ filter'[c][Len(filter[c]) + 1] = f
         /\ \A i \in 1 .. Len(filter[c]) : filter'[c][i] = filter[c][i]
         /\ \A d \in Captures : d # c => filter'[d] = filter[d]
<1>1. filter[c] \in Seq(Filter)
  BY DEF TypeOK
<1>2. /\ Append(filter[c], f) \in Seq(Filter) /\ Len(filter[c]) \in Nat
      /\ Len(Append(filter[c], f)) = Len(filter[c]) + 1
      /\ Append(filter[c], f)[Len(filter[c]) + 1] = f
      /\ \A i \in 1 .. Len(filter[c]) : Append(filter[c], f)[i] = filter[c][i]
  BY <1>1
<1>3. filter' = [filter EXCEPT ![c] = Append(filter[c], f)] /\ filter'[c] = Append(filter[c], f)
  BY DEF TypeOK
<1> QED BY <1>2, <1>3 DEF TypeOK

\* Setting the filter of the handle in use.
LEMMA RefilterTypes ==
  ASSUME TypeOK, NEW c \in Captures, NEW f \in Filter, handle[c] # 0,
         filter' = [filter EXCEPT ![c][handle[c]] = f]
  PROVE  /\ filter' \in [Captures -> Seq(Filter)]
         /\ Len(filter'[c]) = Len(filter[c])
         /\ filter'[c][handle[c]] = f
         /\ \A d \in Captures : d # c => filter'[d] = filter[d]
<1>1. filter[c] \in Seq(Filter) /\ handle[c] \in 1 .. Len(filter[c])
  BY DEF TypeOK
<1> DEFINE g == [filter[c] EXCEPT ![handle[c]] = f]
<1>2. g \in Seq(Filter) /\ Len(g) = Len(filter[c]) /\ g[handle[c]] = f
  BY <1>1
<1>3. filter' = [filter EXCEPT ![c] = g] /\ filter'[c] = g
  BY DEF TypeOK
<1> HIDE DEF g
<1> QED BY <1>2, <1>3 DEF TypeOK

LEMMA InitTypes == Init => TypeOK
<1> SUFFICES ASSUME Init PROVE TypeOK
  OBVIOUS
<1>1. conf \in [Devices -> Conf]
  BY DEF Init, Conf
<1>2. \A c \in Captures : handle[c] \in 0 .. Len(filter[c])
  BY DEF Init
<1>3. bpf \in [Captures -> Filter]
  BY DEF Init, Filter
<1>4. mailbox \in [Captures -> Seq(Message)] /\ filter \in [Captures -> Seq(Filter)]
  BY DEF Init
<1>5. messages \in 0 .. MaxMessages /\ failures \in 0 .. MaxFailures
  BY CaptureAssumption DEF Init
<1>6. status \in [Captures -> Statuses]
  BY DEF Init, Statuses
<1>7. packets \in [Captures -> Seq(Packets)] /\ \A c \in Captures : Len(packets[c]) = 0
  BY DEF Init
<1>8. \A c \in Captures : Len(packets[c]) <= ChannelSize + 1 /\ stale[c] <= Len(packets[c])
  BY <1>7, CaptureAssumption DEF Init
<1> QED BY <1>1, <1>2, <1>3, <1>4, <1>5, <1>6, <1>7, <1>8 DEF Init, TypeOK

LEMMA NextTypes == TypeOK /\ [Next]_vars => TypeOK'
<1> SUFFICES ASSUME TypeOK, [Next]_vars PROVE TypeOK'
  OBVIOUS
<1>1. ASSUME NEW d \in Devices, NEW new \in Confs, newCaptures(d, new) PROVE TypeOK'
  <2>1. conf' \in [Devices -> Conf]
    BY <1>1, CaptureAssumption DEF newCaptures, TypeOK
  <2>2. captures' \in SUBSET Devices
    BY <1>1 DEF newCaptures, TypeOK
  <2>3. addr' \in [Captures -> SUBSET Addrs]
    BY <1>1, CaptureTypes DEF newCaptures, TypeOK
  <2>4. bpf' \in [Captures -> Filter]
    BY <1>1, CaptureTypes, FilterTypes DEF newCaptures, TypeOK
  <2>5. messages' \in 0 .. MaxMessages
    BY <1>1, ReceivesTypes DEF newCaptures
  <2> QED BY <1>1, <2>1, <2>2, <2>3, <2>4, <2>5 DEF newCaptures, Receives, TypeOK
<1>2. ASSUME NEW d \in Devices, NEW new \in Confs, updateCaptures(d, new) PROVE TypeOK'
  <2>1. conf' \in [Devices -> Conf]
    BY <1>2, CaptureAssumption DEF updateCaptures, TypeOK
  <2>2. AddrUpdateMsg(new.listen) \in Message
    BY MessageTypes, CaptureAssumption DEF Conf
  <2>3. Of(d) \in SUBSET Captures
    BY DEF Of, Captures
  <2>4. mailbox' \in [Captures -> Seq(Message)]
    BY <1>2, <2>2, <2>3, SendTypes DEF updateCaptures
  <2>5. messages' \in 0 .. MaxMessages
    BY <1>2, ReceivesTypes DEF updateCaptures
  <2> QED BY <1>2, <2>1, <2>4, <2>5 DEF updateCaptures, Receives, TypeOK, captureVars, actorVars
<1>3. ASSUME NEW cs \in SUBSET Captures, NEW s \in SetStatuses, setStatus(cs, s) PROVE TypeOK'
  <2>1. CaptureStatusSetMsg(s) \in Message
    BY MessageTypes, CaptureAssumption
  <2>2. {c \in cs : c[1] \in captures} \in SUBSET Captures
    OBVIOUS
  <2>3. mailbox' \in [Captures -> Seq(Message)]
    BY <1>3, <2>1, <2>2, SendTypes DEF setStatus
  <2>4. messages' \in 0 .. MaxMessages
    BY <1>3, ReceivesTypes DEF setStatus
  <2> QED BY <1>3, <2>3, <2>4 DEF setStatus, Receives, TypeOK, captureVars, actorVars
<1>4. ASSUME NEW c \in Captures, Receive(c) PROVE TypeOK'
  <2>1. CASE \E s \in Statuses : HandlesStatus(c, s)
    <3>1. mailbox' \in [Captures -> Seq(Message)]
      BY <2>1, HandlesTypes DEF HandlesStatus
    <3>2. status' \in [Captures -> Statuses]
      BY <2>1 DEF HandlesStatus, TypeOK
    <3>3. UNCHANGED <<conf, captures, addr, bpf, updating, behind, packets, stale, messages>>
      BY <2>1 DEF HandlesStatus, Handles
    <3> SUFFICES /\ interStatus' \in [Captures -> {"Ready", "Working", "Paused"}]
                 /\ filter' \in [Captures -> Seq(Filter)]
                 /\ handle' \in [Captures -> Nat]
                 /\ \A d \in Captures : handle'[d] \in 0 .. Len(filter'[d])
                 /\ loops' \in [Captures -> Nat]
                 /\ failures' \in 0 .. MaxFailures
      BY <3>1, <3>2, <3>3 DEF TypeOK
    <3>4. CASE setOtherStatus(c)
      BY <3>4 DEF setOtherStatus, TypeOK
    <3>5. CASE ensureRunning(c)
      BY <3>5 DEF ensureRunning, TypeOK
    <3>6. CASE OpenLiveFails(c)
      BY <3>6, FailureTypes DEF OpenLiveFails, TypeOK
    <3>7. CASE SetBPFFilterFails(c)
      <4>1. {} \in Filter
        BY DEF Filter
      <4>2. filter' = [filter EXCEPT ![c] = Append(@, {})]
        BY <3>7 DEF SetBPFFilterFails
      <4>3. \A d \in Captures : handle[d] \in 0 .. Len(filter'[d])
        BY <4>1, <4>2, OpenTypes DEF TypeOK
      <4> QED BY <3>7, <4>1, <4>2, <4>3, OpenTypes, FailureTypes DEF SetBPFFilterFails, TypeOK
    <3>8. CASE startCapture(c)
      <4>1. bpf[c] \in Filter
        BY DEF TypeOK
      <4>2. filter' = [filter EXCEPT ![c] = Append(@, bpf[c])]
        BY <3>8 DEF startCapture
      <4>3. handle' = [handle EXCEPT ![c] = Len(filter[c]) + 1]
        BY <3>8 DEF startCapture
      <4>4. handle' \in [Captures -> Nat]
        BY <4>1, <4>2, <4>3, OpenTypes DEF TypeOK
      <4>5. \A d \in Captures : handle'[d] \in 0 .. Len(filter'[d])
        BY <4>1, <4>2, <4>3, OpenTypes DEF TypeOK
      <4> QED BY <3>8, <4>1, <4>2, <4>4, <4>5, OpenTypes DEF startCapture, TypeOK
    <3>9. CASE HandlesAddrs(c)
      <4>1. \E addrs \in SUBSET Addrs : Handles(c, AddrUpdateMsg(addrs))
        BY <3>9 DEF HandlesAddrs
      <4>2. PICK s \in Statuses : Handles(c, CaptureStatusSetMsg(s))
        BY <2>1 DEF HandlesStatus
      <4> QED BY <4>1, <4>2, MessageTypes DEF Handles
    <3>10. CASE updateFilter(c) \/ updateFilterFails(c) \/ updateNilHandle(c)
      BY <2>1, <3>10 DEF HandlesStatus, Handles, updateFilter, updateFilterFails, updateNilHandle, SetsFilter
    <3> QED BY <1>4, <3>4, <3>5, <3>6, <3>7, <3>8, <3>9, <3>10 DEF Receive
  <2>2. CASE HandlesAddrs(c)
    <3>1. PICK addrs \in SUBSET Addrs :
            Handles(c, AddrUpdateMsg(addrs)) /\ addr' = [addr EXCEPT ![c] = addrs]
      BY <2>2 DEF HandlesAddrs
    <3>2. mailbox' \in [Captures -> Seq(Message)]
      BY <3>1, HandlesTypes
    <3>3. addr' \in [Captures -> SUBSET Addrs]
      BY <3>1 DEF TypeOK
    <3>4. updating' \in [Captures -> BOOLEAN]
      BY <2>2 DEF HandlesAddrs, TypeOK
    <3>5. UNCHANGED <<conf, captures, bpf, status, interStatus, handle, filter, loops,
                      packets, stale, behind, messages, failures>>
      BY <2>2, <3>1 DEF HandlesAddrs, Handles
    <3> QED BY <3>2, <3>3, <3>4, <3>5 DEF TypeOK
  <2>3. CASE updateFilter(c) \/ updateFilterFails(c) \/ updateNilHandle(c)
    <3>1. UNCHANGED <<conf, captures, mailbox, addr, bpf, status, interStatus, handle, loops,
                      packets, messages>>
      BY <2>3 DEF updateFilter, updateFilterFails, updateNilHandle, SetsFilter
    <3>2. updating' \in [Captures -> BOOLEAN] /\ behind' \in [Captures -> BOOLEAN]
      BY <2>3 DEF updateFilter, updateFilterFails, updateNilHandle, SetsFilter, TypeOK
    <3>3. failures' \in 0 .. MaxFailures
      BY <2>3, FailureTypes DEF updateFilter, updateFilterFails, updateNilHandle, TypeOK
    <3>4. stale' \in [Captures -> Nat] /\ \A d \in Captures : stale'[d] <= Len(packets[d])
      <4>1. CASE stale' = stale
        BY <4>1 DEF TypeOK
      <4>2. CASE updateFilter(c)
        <5>1. packets[c] \in Seq(Packets) /\ stale' = [stale EXCEPT ![c] = Len(packets[c])]
          BY <4>2 DEF updateFilter, TypeOK
        <5>2. Len(packets[c]) \in Nat
          BY <5>1
        <5> QED BY <5>1, <5>2 DEF TypeOK
      <4> QED BY <2>3, <4>1, <4>2 DEF updateFilterFails, updateNilHandle
    <3>5. /\ filter' \in [Captures -> Seq(Filter)]
          /\ \A d \in Captures : handle[d] \in 0 .. Len(filter'[d])
      <4>1. CASE filter' = filter
        BY <4>1 DEF TypeOK
      <4>2. CASE updateFilter(c)
        <5>1. filter' = [filter EXCEPT ![c][handle[c]] = GenerateBPFStr(addr[c])]
          BY <4>2 DEF updateFilter
        <5>2. GenerateBPFStr(addr[c]) \in Filter /\ handle[c] # 0
          BY <4>2, FilterTypes DEF updateFilter, TypeOK
        <5>3. /\ filter' \in [Captures -> Seq(Filter)] /\ Len(filter'[c]) = Len(filter[c])
              /\ \A d \in Captures : d # c => filter'[d] = filter[d]
          <6> DEFINE f == GenerateBPFStr(addr[c])
          <6>1. f \in Filter /\ handle[c] # 0 /\ filter' = [filter EXCEPT ![c][handle[c]] = f]
            BY <5>1, <5>2
          <6> HIDE DEF f
          <6> QED BY <6>1, RefilterTypes
        <5> QED BY <5>3 DEF TypeOK
      <4> QED BY <2>3, <4>1, <4>2 DEF updateFilterFails, updateNilHandle
    <3> QED BY <3>1, <3>2, <3>3, <3>4, <3>5 DEF TypeOK
  <2>4. \/ \E s \in Statuses : HandlesStatus(c, s)
        \/ HandlesAddrs(c) \/ updateFilter(c) \/ updateFilterFails(c) \/ updateNilHandle(c)
    BY <1>4 DEF Receive, setOtherStatus, ensureRunning, OpenLiveFails, SetBPFFilterFails,
                startCapture, Statuses
  <2> QED BY <2>1, <2>2, <2>3, <2>4
<1>5. ASSUME NEW c \in Captures, NEW p \in Packets, Captured(c, p) PROVE TypeOK'
  <2>1. packets[c] \in Seq(Packets) /\ Len(packets[c]) <= ChannelSize /\ stale[c] <= Len(packets[c])
    BY <1>5 DEF Captured, TypeOK
  <2>2. packets' = [packets EXCEPT ![c] = Append(packets[c], p)]
    BY <1>5 DEF Captured, TypeOK
  <2>3. Append(packets[c], p) \in Seq(Packets) /\ Len(Append(packets[c], p)) = Len(packets[c]) + 1
    BY <2>1
  <2>4. /\ packets' \in [Captures -> Seq(Packets)]
        /\ \A d \in Captures : Len(packets'[d]) <= ChannelSize + 1
        /\ \A d \in Captures : stale[d] <= Len(packets'[d])
    <3>1. stale[c] \in Nat /\ Len(packets[c]) \in Nat
      BY <2>1 DEF TypeOK
    <3> QED BY <2>1, <2>2, <2>3, <3>1, CaptureAssumption DEF TypeOK
  <2> QED BY <1>5, <2>4 DEF Captured, TypeOK, actorVars
<1>6. ASSUME NEW c \in Captures, Packet(c) PROVE TypeOK'
  <2>1. packets[c] \in Seq(Packets) /\ packets[c] # <<>> /\ stale[c] \in Nat /\ stale[c] <= Len(packets[c])
    BY <1>6 DEF Packet, TypeOK
  <2>2. /\ packets' = [packets EXCEPT ![c] = Tail(packets[c])]
        /\ stale' = [stale EXCEPT ![c] = IF stale[c] = 0 THEN 0 ELSE stale[c] - 1]
    BY <1>6 DEF Packet, TypeOK
  <2>3. /\ Tail(packets[c]) \in Seq(Packets) /\ Len(Tail(packets[c])) = Len(packets[c]) - 1
        /\ Len(packets[c]) \in Nat /\ Len(packets[c]) > 0
    BY <2>1
  <2>4. /\ packets' \in [Captures -> Seq(Packets)]
        /\ \A d \in Captures : Len(packets'[d]) <= ChannelSize + 1
        /\ stale' \in [Captures -> Nat]
        /\ \A d \in Captures : stale'[d] <= Len(packets'[d])
    BY <2>1, <2>2, <2>3, CaptureAssumption DEF TypeOK
  <2> QED BY <1>6, <2>4 DEF Packet, TypeOK, actorVars
<1>7. CASE UNCHANGED vars
  BY <1>7 DEF vars, captureVars, actorVars, TypeOK
<1> QED BY <1>1, <1>2, <1>3, <1>4, <1>5, <1>6, <1>7 DEF Next, ManagerReceive

\* Type correctness of the manager and its captures.
THEOREM CaptureTypeCorrect == Spec => []TypeOK
<1> QED BY InitTypes, NextTypes, PTL DEF Spec

-----------------------------------------------------------------------------
(* One goroutine for each handle.                                          *)

LEMMA LoopsNext == TypeOK /\ OneLoopEach /\ [Next]_vars => OneLoopEach'
<1> SUFFICES ASSUME TypeOK, OneLoopEach, [Next]_vars PROVE OneLoopEach'
  OBVIOUS
<1>1. CASE UNCHANGED <<handle, loops, interStatus>>
  BY <1>1 DEF OneLoopEach
<1>2. ASSUME NEW c \in Captures, ensureRunning(c) PROVE OneLoopEach'
  BY <1>2 DEF ensureRunning, OneLoopEach, TypeOK
<1>3. ASSUME NEW c \in Captures, startCapture(c) PROVE OneLoopEach'
  <2>1. /\ handle[c] = 0 /\ Len(filter[c]) + 1 # 0
        /\ handle' = [handle EXCEPT ![c] = Len(filter[c]) + 1]
        /\ loops' = [loops EXCEPT ![c] = @ + 1]
        /\ interStatus' = [interStatus EXCEPT ![c] = "Working"]
    <3>1. filter[c] \in Seq(Filter)
      BY DEF TypeOK
    <3>2. Len(filter[c]) \in Nat
      BY <3>1
    <3> QED BY <1>3, <3>2 DEF startCapture, MustOpen
  <2> QED BY <2>1 DEF OneLoopEach, TypeOK
<1>4. ASSUME NEW c \in Captures, Receive(c) PROVE OneLoopEach'
  BY <1>1, <1>2, <1>3, <1>4 DEF Receive, setOtherStatus, OpenLiveFails, SetBPFFilterFails,
       HandlesAddrs, updateFilter, updateFilterFails, updateNilHandle, SetsFilter
<1>5. CASE ManagerReceive
  BY <1>1, <1>5 DEF ManagerReceive, newCaptures, updateCaptures, setStatus, captureVars, actorVars
<1>6. ASSUME NEW c \in Captures, Packet(c) \/ \E p \in Packets : Captured(c, p) PROVE OneLoopEach'
  BY <1>1, <1>6 DEF Packet, Captured, actorVars
<1>7. CASE UNCHANGED vars
  BY <1>1, <1>7 DEF vars, captureVars, actorVars
<1> QED BY <1>4, <1>5, <1>6, <1>7 DEF Next

\* Every capture that has a handle has one goroutine that reads packets from it.
THEOREM LoopForEachHandle == Spec => []OneLoopEach
<1>1. Init => OneLoopEach
  BY DEF Init, OneLoopEach
<1> QED BY <1>1, LoopsNext, CaptureTypeCorrect, PTL DEF Spec

-----------------------------------------------------------------------------
(* The latest configuration.                                               *)

\* The captures of a device that has none have no message and no handle.
Unspawned ==
  \A c \in Captures : c[1] \notin captures => mailbox[c] = <<>> /\ handle[c] = 0

\* If no update is under way and the last one took effect, the filter that a
\* capture has, or would start with, is that of its addresses.
FilterFollows ==
  \A c \in Captures : ~updating[c] /\ ~behind[c] =>
    (IF handle[c] = 0 THEN bpf[c] ELSE filter[c][handle[c]]) = GenerateBPFStr(addr[c])

\* The last update of a listen capture that is not handled, and else its
\* addresses, are those of the device's configuration.
LatestSent ==
  \A d \in captures : Leads(mailbox[<<d, "listen">>], addr[<<d, "listen">>], conf[d].listen)

Follows == Unspawned /\ FilterFollows /\ LatestSent

LEMMA FollowsInit == Init => Follows
<1> SUFFICES ASSUME Init PROVE Follows
  OBVIOUS
<1>1. GenerateBPFStr({}) = {}
  BY DEF GenerateBPFStr
<1>2. Unspawned
  BY DEF Init, Unspawned
<1>3. FilterFollows
  BY <1>1 DEF Init, FilterFollows
<1>4. LatestSent
  BY DEF Init, LatestSent
<1> QED BY <1>2, <1>3, <1>4 DEF Follows

LEMMA FollowsNewCaptures ==
  ASSUME TypeOK, Follows, NEW d \in Devices, NEW new \in Confs, newCaptures(d, new)
  PROVE  Follows'
<1>1. Unspawned'
  BY DEF newCaptures, Follows, Unspawned
<1>2. FilterFollows'
  <2> SUFFICES ASSUME NEW c \in Captures, ~updating[c], ~behind[c]
               PROVE  (IF handle[c] = 0 THEN bpf'[c] ELSE filter[c][handle[c]])
                        = GenerateBPFStr(addr'[c])
    BY DEF newCaptures, FilterFollows
  <2>1. CASE c[1] = d
    <3>1. handle[c] = 0
      BY <2>1 DEF newCaptures, Follows, Unspawned
    <3>2. bpf'[c] = GenerateBPFStr(new[c[2]]) /\ addr'[c] = new[c[2]]
      BY <2>1 DEF newCaptures
    <3> QED BY <3>1, <3>2
  <2>2. CASE c[1] # d
    <3>1. bpf'[c] = bpf[c] /\ addr'[c] = addr[c]
      BY <2>2 DEF newCaptures
    <3> QED BY <3>1 DEF Follows, FilterFollows
  <2> QED BY <2>1, <2>2
<1>3. LatestSent'
  <2> SUFFICES ASSUME NEW e \in captures'
               PROVE  Leads(mailbox[<<e, "listen">>], addr'[<<e, "listen">>], conf'[e].listen)
    BY DEF newCaptures, LatestSent
  <2>1. <<e, "listen">> \in Captures
    BY DEF newCaptures, TypeOK, Captures
  <2>2. CASE e = d
    <3>1. mailbox[<<e, "listen">>] = <<>>
      BY <2>1, <2>2 DEF newCaptures, Follows, Unspawned
    <3>2. addr'[<<e, "listen">>] = new.listen /\ conf'[e].listen = new.listen
      BY <2>1, <2>2 DEF newCaptures, TypeOK
    <3>3. UpdatesIn(<<>>) = {}
      BY DEF UpdatesIn
    <3> QED BY <3>1, <3>2, <3>3 DEF Leads
  <2>3. CASE e # d
    <3>1. e \in captures /\ addr'[<<e, "listen">>] = addr[<<e, "listen">>] /\ conf'[e] = conf[e]
      BY <2>1, <2>3 DEF newCaptures, TypeOK
    <3> QED BY <3>1 DEF Follows, LatestSent
  <2> QED BY <2>2, <2>3
<1> QED BY <1>1, <1>2, <1>3 DEF Follows

LEMMA FollowsUpdateCaptures ==
  ASSUME TypeOK, Follows, NEW d \in Devices, NEW new \in Confs, updateCaptures(d, new)
  PROVE  Follows'
<1> DEFINE m == AddrUpdateMsg(new.listen)
<1>1. m \in Message /\ m.type = "addr" /\ m.addrs = new.listen
  BY MessageTypes, CaptureAssumption DEF Conf
<1>2. mailbox' = [c \in Captures |-> IF c \in Of(d) THEN Append(mailbox[c], m) ELSE mailbox[c]]
  BY DEF updateCaptures, Send
<1>3. UNCHANGED <<captures, captureVars>> /\ d \in captures /\ conf' = [conf EXCEPT ![d] = new]
  BY DEF updateCaptures
<1> HIDE DEF m
<1>4. Unspawned'
  BY <1>2, <1>3 DEF Follows, Unspawned, Of, captureVars, actorVars
<1>5. FilterFollows'
  BY <1>3 DEF Follows, FilterFollows, captureVars, actorVars
<1>6. LatestSent'
  <2> SUFFICES ASSUME NEW e \in captures
               PROVE  Leads(mailbox'[<<e, "listen">>], addr[<<e, "listen">>], conf'[e].listen)
    BY <1>3 DEF LatestSent, captureVars, actorVars
  <2> DEFINE c == <<e, "listen">>
  <2>1. c \in Captures
    BY DEF TypeOK, Captures
  <2>2. mailbox[c] \in Seq(Message)
    BY <2>1 DEF TypeOK
  <2>3. CASE e = d
    <3>1. mailbox'[c] = Append(mailbox[c], m)
      BY <1>2, <2>1, <2>3 DEF Of
    <3>2. conf'[e].listen = m.addrs
      BY <1>1, <1>3, <2>3 DEF TypeOK
    <3> QED BY <1>1, <2>2, <3>1, <3>2, LeadsAppendUpdate
  <2>4. CASE e # d
    <3>1. c \notin Of(d)
      BY <2>4 DEF Of
    <3>2. mailbox'[c] = mailbox[c]
      BY <1>2, <2>1, <3>1
    <3>3. conf'[e].listen = conf[e].listen
      BY <1>3, <2>4 DEF TypeOK
    <3> QED BY <3>2, <3>3 DEF Follows, LatestSent
  <2> QED BY <2>3, <2>4
<1> QED BY <1>4, <1>5, <1>6 DEF Follows

LEMMA FollowsSetStatus ==
  ASSUME TypeOK, Follows, NEW cs \in SUBSET Captures, NEW s \in SetStatuses, setStatus(cs, s)
  PROVE  Follows'
<1> DEFINE m == CaptureStatusSetMsg(s)
           to == {c \in cs : c[1] \in captures}
<1>1. m \in Message /\ m.type # "addr"
  BY MessageTypes, CaptureAssumption
<1>2. mailbox' = [c \in Captures |-> IF c \in to THEN Append(mailbox[c], m) ELSE mailbox[c]]
  BY DEF setStatus, Send
<1>3. UNCHANGED <<conf, captures, captureVars>>
  BY DEF setStatus
<1>4. Unspawned'
  BY <1>2, <1>3 DEF Follows, Unspawned, captureVars, actorVars
<1>5. FilterFollows'
  BY <1>3 DEF Follows, FilterFollows, captureVars, actorVars
<1> HIDE DEF m, to
<1>6. LatestSent'
  <2> SUFFICES ASSUME NEW e \in captures
               PROVE  Leads(mailbox'[<<e, "listen">>], addr[<<e, "listen">>], conf[e].listen)
    BY <1>3 DEF LatestSent, captureVars, actorVars
  <2> DEFINE c == <<e, "listen">>
  <2>1. c \in Captures
    BY DEF TypeOK, Captures
  <2>2. mailbox[c] \in Seq(Message) /\ Leads(mailbox[c], addr[c], conf[e].listen)
    BY <2>1 DEF TypeOK, Follows, LatestSent
  <2>3. mailbox'[c] = Append(mailbox[c], m) \/ mailbox'[c] = mailbox[c]
    BY <1>2, <2>1
  <2>4. Leads(Append(mailbox[c], m), addr[c], conf[e].listen)
    BY <1>1, <2>2, LeadsAppendStatus
  <2> QED BY <2>2, <2>3, <2>4
<1> QED BY <1>4, <1>5, <1>6 DEF Follows

\* What a handler changes: the mailbox of its capture, and for an update its addresses.
LEMMA FollowsHandles ==
  ASSUME TypeOK, Follows, NEW c \in Captures, NEW m, Handles(c, m),
         \A d \in Captures : d # c => addr'[d] = addr[d] /\ handle'[d] = handle[d],
         m.type = "addr" => addr'[c] = m.addrs,
         m.type # "addr" => addr'[c] = addr[c]
  PROVE  Unspawned' /\ LatestSent'
<1>1. mailbox[c] \in Seq(Message) /\ mailbox[c] # <<>> /\ m = Head(mailbox[c])
  BY DEF Handles, TypeOK
<1>2. mailbox' = [mailbox EXCEPT ![c] = Tail(mailbox[c])] /\ UNCHANGED <<captures, conf>>
  BY DEF Handles
<1>3. c[1] \in captures
  BY <1>1 DEF Follows, Unspawned
<1>4. Unspawned'
  BY <1>2, <1>3 DEF Follows, Unspawned, TypeOK
<1>5. LatestSent'
  <2> SUFFICES ASSUME NEW e \in captures
               PROVE  Leads(mailbox'[<<e, "listen">>], addr'[<<e, "listen">>], conf[e].listen)
    BY <1>2 DEF LatestSent
  <2> DEFINE b == <<e, "listen">>
  <2>1. b \in Captures
    BY DEF TypeOK, Captures
  <2>2. Leads(mailbox[b], addr[b], conf[e].listen)
    BY DEF Follows, LatestSent
  <2> HIDE DEF b
  <2>3. CASE b # c
    <3>1. mailbox'[b] = mailbox[b] /\ addr'[b] = addr[b]
      BY <1>2, <2>1, <2>3 DEF TypeOK
    <3> QED BY <2>2, <3>1 DEF b
  <2>4. CASE b = c
    <3>1. mailbox'[b] = Tail(mailbox[b])
      BY <1>2, <2>1, <2>4 DEF TypeOK
    <3>2. CASE m.type = "addr"
      <4>1. Leads(Tail(mailbox[b]), m.addrs, conf[e].listen)
        BY <1>1, <2>2, <2>4, <3>2, LeadsTailUpdate
      <4> QED BY <2>4, <3>1, <3>2, <4>1 DEF b
    <3>3. CASE m.type # "addr"
      <4>1. Leads(Tail(mailbox[b]), addr[b], conf[e].listen)
        BY <1>1, <2>2, <2>4, <3>3, LeadsTailStatus
      <4> QED BY <2>4, <3>1, <3>3, <4>1 DEF b
    <3> QED BY <3>2, <3>3
  <2> QED BY <2>3, <2>4
<1> QED BY <1>4, <1>5

LEMMA FollowsStatus ==
  ASSUME TypeOK, Follows, NEW c \in Captures, NEW s \in Statuses, HandlesStatus(c, s), Receive(c)
  PROVE  Follows'
<1> DEFINE m == CaptureStatusSetMsg(s)
<1>1. m.type # "addr" /\ Handles(c, m) /\ UNCHANGED <<addr, bpf, updating, behind>>
  BY MessageTypes DEF HandlesStatus, Handles
<1> HIDE DEF m
<1>2. CASE UNCHANGED handle /\ \A d \in Captures : handle[d] # 0 => filter'[d][handle[d]] = filter[d][handle[d]]
  <2>1. Unspawned' /\ LatestSent'
    BY <1>1, <1>2, FollowsHandles
  <2>2. FilterFollows'
    BY <1>1, <1>2 DEF Follows, FilterFollows
  <2> QED BY <2>1, <2>2 DEF Follows
<1>3. CASE SetBPFFilterFails(c)
  <2>1. {} \in Filter /\ filter' = [filter EXCEPT ![c] = Append(@, {})] /\ UNCHANGED handle
    BY <1>3 DEF Filter, SetBPFFilterFails
  <2>2. \A d \in Captures : handle[d] # 0 => handle[d] \in 1 .. Len(filter[d])
    BY DEF TypeOK
  <2>3. \A d \in Captures : handle[d] # 0 => filter'[d][handle[d]] = filter[d][handle[d]]
    BY <2>1, <2>2, OpenTypes
  <2> QED BY <1>2, <2>1, <2>3
<1>4. CASE startCapture(c)
  <2> DEFINE n == Len(filter[c]) + 1
  <2>1. /\ bpf[c] \in Filter /\ filter' = [filter EXCEPT ![c] = Append(@, bpf[c])]
        /\ handle' = [handle EXCEPT ![c] = n] /\ handle[c] = 0
    BY <1>4 DEF startCapture, MustOpen, TypeOK
  <2>2. /\ filter'[c][n] = bpf[c] /\ n # 0
        /\ \A d \in Captures : d # c => filter'[d] = filter[d]
    <3> DEFINE f == bpf[c]
    <3>1. f \in Filter /\ filter' = [filter EXCEPT ![c] = Append(@, f)]
      BY <2>1
    <3> HIDE DEF f
    <3>2. /\ filter'[c][n] = f /\ Len(filter[c]) \in Nat
          /\ \A d \in Captures : d # c => filter'[d] = filter[d]
      BY <3>1, OpenTypes
    <3>3. n # 0
      BY <3>2
    <3> QED BY <3>2, <3>3 DEF f
  <2> HIDE DEF n
  <2>3. handle'[c] = n /\ \A d \in Captures : d # c => handle'[d] = handle[d]
    BY <2>1 DEF TypeOK
  <2>4. Unspawned' /\ LatestSent'
    BY <1>1, <2>3, FollowsHandles
  <2>5. FilterFollows'
    BY <1>1, <2>1, <2>2, <2>3 DEF Follows, FilterFollows
  <2> QED BY <2>4, <2>5 DEF Follows
<1>5. CASE setOtherStatus(c) \/ ensureRunning(c) \/ OpenLiveFails(c)
  BY <1>2, <1>5 DEF setOtherStatus, ensureRunning, OpenLiveFails
<1>6. ~ (HandlesAddrs(c) \/ updateFilter(c) \/ updateFilterFails(c) \/ updateNilHandle(c))
  <2>1. \A a \in SUBSET Addrs : ~ Handles(c, AddrUpdateMsg(a))
    BY <1>1, MessageTypes DEF Handles
  <2>2. ~updating[c]
    BY <1>1 DEF Handles
  <2> QED BY <2>1, <2>2 DEF updateFilter, updateFilterFails, updateNilHandle, HandlesAddrs, SetsFilter
<1> QED BY <1>3, <1>4, <1>5, <1>6 DEF Receive

LEMMA FollowsAddrs ==
  ASSUME TypeOK, Follows, NEW c \in Captures, HandlesAddrs(c)
  PROVE  Follows'
<1>1. PICK a \in SUBSET Addrs :
        Handles(c, AddrUpdateMsg(a)) /\ addr' = [addr EXCEPT ![c] = a]
  BY DEF HandlesAddrs
<1> DEFINE m == AddrUpdateMsg(a)
<1>2. m.type = "addr" /\ m.addrs = a /\ Handles(c, m)
  BY <1>1, MessageTypes
<1> HIDE DEF m
<1>3. /\ addr'[c] = a /\ \A d \in Captures : d # c => addr'[d] = addr[d]
      /\ updating'[c] /\ \A d \in Captures : d # c => updating'[d] = updating[d]
      /\ UNCHANGED <<bpf, handle, filter, behind>>
  BY <1>1 DEF HandlesAddrs, Handles, TypeOK
<1>4. Unspawned' /\ LatestSent'
  BY <1>2, <1>3, FollowsHandles
<1>5. FilterFollows'
  BY <1>3 DEF Follows, FilterFollows
<1> QED BY <1>4, <1>5 DEF Follows

LEMMA FollowsUpdate ==
  ASSUME TypeOK, Follows, NEW c \in Captures,
         updateFilter(c) \/ updateFilterFails(c) \/ updateNilHandle(c)
  PROVE  Follows'
<1>1. /\ UNCHANGED <<conf, captures, mailbox, addr, bpf, handle>>
      /\ \A d \in Captures : d # c => updating'[d] = updating[d] /\ behind'[d] = behind[d]
  BY DEF updateFilter, updateFilterFails, updateNilHandle, SetsFilter, TypeOK
<1>2. Unspawned' /\ LatestSent'
  BY <1>1 DEF Follows, Unspawned, LatestSent
<1>3. CASE updateFilter(c)
  <2> DEFINE f == GenerateBPFStr(addr[c])
  <2>1. /\ f \in Filter /\ handle[c] # 0
        /\ filter' = [filter EXCEPT ![c][handle[c]] = f]
    BY <1>3, FilterTypes DEF updateFilter, TypeOK
  <2> HIDE DEF f
  <2>2. filter'[c][handle[c]] = f /\ \A e \in Captures : e # c => filter'[e] = filter[e]
    BY <2>1, RefilterTypes
  <2>3. FilterFollows'
    BY <1>1, <2>1, <2>2 DEF Follows, FilterFollows, f
  <2> QED BY <1>2, <2>3 DEF Follows
<1>4. CASE updateFilterFails(c) \/ updateNilHandle(c)
  <2>1. behind'[c] /\ filter' = filter
    BY <1>4 DEF updateFilterFails, updateNilHandle, SetsFilter, TypeOK
  <2>2. FilterFollows'
    BY <1>1, <2>1 DEF Follows, FilterFollows
  <2> QED BY <1>2, <2>2 DEF Follows
<1> QED BY <1>3, <1>4

LEMMA FollowsNext == TypeOK /\ Follows /\ [Next]_vars => Follows'
<1> SUFFICES ASSUME TypeOK, Follows, [Next]_vars PROVE Follows'
  OBVIOUS
<1>1. CASE ManagerReceive
  BY <1>1, FollowsNewCaptures, FollowsUpdateCaptures, FollowsSetStatus DEF ManagerReceive
<1>2. ASSUME NEW c \in Captures, Receive(c) PROVE Follows'
  <2>1. \/ HandlesAddrs(c)
        \/ updateFilter(c) \/ updateFilterFails(c) \/ updateNilHandle(c)
        \/ \E s \in Statuses : HandlesStatus(c, s)
    BY <1>2 DEF Receive, setOtherStatus, ensureRunning, OpenLiveFails, SetBPFFilterFails,
                startCapture, Statuses
  <2> QED BY <1>2, <2>1, FollowsStatus, FollowsAddrs, FollowsUpdate
<1>3. CASE UNCHANGED <<conf, captures, mailbox, actorVars>>
  BY <1>3 DEF Follows, Unspawned, FilterFollows, LatestSent, actorVars
<1>4. ASSUME NEW c \in Captures, Packet(c) \/ \E p \in Packets : Captured(c, p) PROVE Follows'
  BY <1>3, <1>4 DEF Packet, Captured
<1>5. CASE UNCHANGED vars
  BY <1>3, <1>5 DEF vars, captureVars
<1> QED BY <1>1, <1>2, <1>4, <1>5 DEF Next

LEMMA FollowsAlways == Spec => []Follows
<1> QED BY FollowsInit, FollowsNext, CaptureTypeCorrect, PTL DEF Spec

\* When a listen capture has handled its updates, and the last one took effect,
\* its handle has the filter of the device's latest configuration.
THEOREM LatestConfInstalled == Spec => []ListensToConf
<1>1. TypeOK /\ Follows => ListensToConf
  <2> SUFFICES ASSUME TypeOK, Follows, NEW d \in captures, Updates(<<d, "listen">>) = {}, ~updating[<<d, "listen">>],
                      ~behind[<<d, "listen">>], handle[<<d, "listen">>] # 0
               PROVE  filter[<<d, "listen">>][handle[<<d, "listen">>]] = GenerateBPFStr(conf[d].listen)
    BY DEF ListensToConf
  <2>1. <<d, "listen">> \in Captures
    BY DEF TypeOK, Captures
  <2>2. addr[<<d, "listen">>] = conf[d].listen
    BY DEF Follows, LatestSent, Leads, UpdatesIn, Updates
  <2> QED BY <2>1, <2>2 DEF Follows, FilterFollows
<1> QED BY <1>1, FollowsAlways, CaptureTypeCorrect, PTL

-----------------------------------------------------------------------------
(* The packets.                                                            *)

\* Packet number i of a channel passes the filter that the handle has now.
Passes(c, i) == handle[c] # 0 /\ Accepts(filter[c][handle[c]], packets[c][i])

\* So does every captured packet but the first stale[c].
FreshPass == \A c \in Captures : \A i \in DOMAIN packets[c] : i > stale[c] => Passes(c, i)

\* Only an open handle has packets.
OpenedFirst == \A c \in Captures : packets[c] # <<>> => handle[c] # 0

\* Filters and handles that are not those of packets change nothing.
LEMMA FreshKept ==
  ASSUME TypeOK, FreshPass, OpenedFirst, UNCHANGED <<packets, stale>>,
         \A c \in Captures :
           handle[c] # 0 => handle'[c] = handle[c] /\ filter'[c][handle[c]] = filter[c][handle[c]]
  PROVE  FreshPass' /\ OpenedFirst'
<1>1. \A c \in Captures : packets[c] \in Seq(Packets)
  BY DEF TypeOK
<1>2. \A c \in Captures : \A i \in DOMAIN packets[c] : packets[c] # <<>>
  BY <1>1
<1>3. FreshPass'
  BY <1>2 DEF FreshPass, OpenedFirst, Passes
<1>4. OpenedFirst'
  BY DEF OpenedFirst
<1> QED BY <1>3, <1>4

LEMMA FreshNext ==
  TypeOK /\ OneLoopEach /\ FreshPass /\ OpenedFirst /\ [Next]_vars => FreshPass' /\ OpenedFirst'
<1> SUFFICES ASSUME TypeOK, OneLoopEach, FreshPass, OpenedFirst, [Next]_vars
             PROVE  FreshPass' /\ OpenedFirst'
  OBVIOUS
<1>1. CASE UNCHANGED <<packets, stale, handle, filter>>
  BY <1>1, FreshKept
<1>2. CASE ManagerReceive
  BY <1>1, <1>2 DEF ManagerReceive, newCaptures, updateCaptures, setStatus, captureVars, actorVars
<1>3. ASSUME NEW c \in Captures, SetBPFFilterFails(c) PROVE FreshPass' /\ OpenedFirst'
  <2>1. /\ {} \in Filter /\ filter' = [filter EXCEPT ![c] = Append(@, {})]
        /\ UNCHANGED <<handle, packets, stale>>
    BY <1>3 DEF Filter, SetBPFFilterFails, HandlesStatus, Handles
  <2>2. \A d \in Captures : handle[d] # 0 => handle[d] \in 1 .. Len(filter[d])
    BY DEF TypeOK
  <2>3. \A d \in Captures : handle[d] # 0 => filter'[d][handle[d]] = filter[d][handle[d]]
    BY <2>1, <2>2, OpenTypes
  <2> QED BY <2>1, <2>3, FreshKept
<1>4. ASSUME NEW c \in Captures, startCapture(c) PROVE FreshPass' /\ OpenedFirst'
  <2>1. /\ UNCHANGED <<packets, stale>> /\ handle[c] = 0
        /\ \A d \in Captures : d # c => handle'[d] = handle[d] /\ filter'[d] = filter[d]
    BY <1>4 DEF startCapture, MustOpen, HandlesStatus, Handles, TypeOK
  <2> QED BY <2>1, FreshKept
<1>5. ASSUME NEW c \in Captures, updateFilter(c) PROVE FreshPass' /\ OpenedFirst'
  <2>1. /\ UNCHANGED <<packets, handle>> /\ handle[c] # 0
        /\ stale' = [stale EXCEPT ![c] = Len(packets[c])]
    BY <1>5 DEF updateFilter, SetsFilter
  <2>2. \A d \in Captures : d # c => filter'[d] = filter[d]
    BY <1>5 DEF updateFilter, TypeOK
  <2>3. OpenedFirst'
    BY <2>1 DEF OpenedFirst
  <2>4. ASSUME NEW d \in Captures, NEW i \in DOMAIN packets[d], i > stale'[d] PROVE Passes(d, i)'
    <3>1. packets[d] \in Seq(Packets)
      BY DEF TypeOK
    <3>2. i \in 1 .. Len(packets[d]) /\ Len(packets[d]) \in Nat
      BY <3>1
    <3>3. d # c
      BY <2>1, <2>4, <3>2 DEF TypeOK
    <3> QED BY <2>1, <2>2, <2>4, <3>3 DEF FreshPass, Passes, TypeOK
  <2>5. FreshPass'
    BY <2>1, <2>4 DEF FreshPass
  <2> QED BY <2>3, <2>5
<1>6. ASSUME NEW c \in Captures, Receive(c) PROVE FreshPass' /\ OpenedFirst'
  BY <1>1, <1>3, <1>4, <1>5, <1>6 DEF Receive, setOtherStatus, ensureRunning, OpenLiveFails,
       HandlesStatus, Handles, HandlesAddrs, updateFilterFails, updateNilHandle, SetsFilter
<1>7. ASSUME NEW c \in Captures, NEW p \in Packets, Captured(c, p) PROVE FreshPass' /\ OpenedFirst'
  <2>1. /\ packets[c] \in Seq(Packets)
        /\ packets' = [packets EXCEPT ![c] = Append(packets[c], p)]
        /\ UNCHANGED <<handle, filter, stale>>
    BY <1>7 DEF Captured, actorVars, TypeOK
  <2>2. handle[c] # 0 /\ Accepts(filter[c][handle[c]], p)
    BY <1>7 DEF Captured, OneLoopEach
  <2>3. /\ packets'[c] = Append(packets[c], p)
        /\ \A d \in Captures : d # c => packets'[d] = packets[d]
    BY <2>1 DEF TypeOK
  <2>4. \A i \in DOMAIN packets'[c] :
          \/ i \in DOMAIN packets[c] /\ packets'[c][i] = packets[c][i]
          \/ packets'[c][i] = p
    BY <2>1, <2>3
  <2>5. FreshPass'
    BY <2>1, <2>2, <2>3, <2>4 DEF FreshPass, Passes
  <2>6. OpenedFirst'
    BY <2>1, <2>2, <2>3 DEF OpenedFirst
  <2> QED BY <2>5, <2>6
<1>8. ASSUME NEW c \in Captures, Packet(c) PROVE FreshPass' /\ OpenedFirst'
  <2>1. /\ packets[c] \in Seq(Packets) /\ packets[c] # <<>> /\ stale[c] \in Nat
        /\ packets' = [packets EXCEPT ![c] = Tail(packets[c])]
        /\ stale' = [stale EXCEPT ![c] = IF stale[c] = 0 THEN 0 ELSE stale[c] - 1]
        /\ UNCHANGED <<handle, filter>>
    BY <1>8 DEF Packet, actorVars, TypeOK
  <2>2. /\ packets'[c] = Tail(packets[c]) /\ stale'[c] = (IF stale[c] = 0 THEN 0 ELSE stale[c] - 1)
        /\ \A d \in Captures : d # c => packets'[d] = packets[d] /\ stale'[d] = stale[d]
    BY <2>1 DEF TypeOK
  <2>3. \A i \in DOMAIN packets'[c] :
          i \in Nat /\ i + 1 \in DOMAIN packets[c] /\ packets'[c][i] = packets[c][i + 1]
    <3> DEFINE q == packets[c]
    <3>1. q \in Seq(Packets) /\ q # <<>> /\ packets'[c] = Tail(q)
      BY <2>1, <2>2
    <3> HIDE DEF q
    <3>2. \A i \in DOMAIN Tail(q) : i \in Nat /\ i + 1 \in DOMAIN q /\ Tail(q)[i] = q[i + 1]
      BY <3>1
    <3> QED BY <3>1, <3>2 DEF q
  <2>4. ASSUME NEW i \in DOMAIN packets'[c], i > stale'[c] PROVE Passes(c, i)'
    <3>1. i + 1 > stale[c]
      BY <2>1, <2>2, <2>3, <2>4
    <3>2. Passes(c, i + 1)
      BY <2>3, <3>1 DEF FreshPass
    <3> QED BY <2>1, <2>3, <3>2 DEF Passes
  <2>5. FreshPass'
    BY <2>1, <2>2, <2>4 DEF FreshPass, Passes
  <2>6. OpenedFirst'
    BY <2>1, <2>2 DEF OpenedFirst
  <2> QED BY <2>5, <2>6
<1>9. CASE UNCHANGED vars
  BY <1>1, <1>9 DEF vars, captureVars, actorVars
<1> QED BY <1>2, <1>6, <1>7, <1>8, <1>9 DEF Next

LEMMA FreshAlways == Spec => [](FreshPass /\ OpenedFirst)
<1>1. Init => FreshPass /\ OpenedFirst
  BY DEF Init, FreshPass, OpenedFirst
<1> QED BY <1>1, FreshNext, CaptureTypeCorrect, LoopForEachHandle, PTL DEF Spec

\* Once an update of the addresses has had its effect, and the packets that
\* were captured before it are through, every packet that a capture assembles
\* is from or to one of its addresses, if it has any.
THEOREM PacketsAskedFor == Spec => PacketsAsked
<1>1. TypeOK /\ Follows /\ FreshPass /\ [Next]_vars =>
        [\A c \in Captures :
           Assembles(c) /\ stale[c] = 0 /\ ~updating[c] /\ ~behind[c] /\ addr[c] # {} =>
             {Head(packets[c]).src, Head(packets[c]).dst} \cap addr[c] # {}]_vars
  <2> SUFFICES ASSUME TypeOK, Follows, FreshPass, NEW c \in Captures, Assembles(c), stale[c] = 0,
                      ~updating[c], ~behind[c], addr[c] # {}
               PROVE  {Head(packets[c]).src, Head(packets[c]).dst} \cap addr[c] # {}
    OBVIOUS
  <2>1. packets[c] \in Seq(Packets) /\ packets[c] # <<>>
    BY DEF Assembles, Packet, TypeOK
  <2>2. Head(packets[c]) = packets[c][1] /\ 1 \in DOMAIN packets[c] /\ 1 > 0
    BY <2>1
  <2> DEFINE p == Head(packets[c])
  <2>3. Passes(c, 1)
    BY <2>2 DEF FreshPass
  <2>4. Accepts(GenerateBPFStr(addr[c]), p)
    BY <2>2, <2>3 DEF Passes, Follows, FilterFollows
  <2>5. GenerateBPFStr(addr[c]) # {}
    <3>1. PICK a \in addr[c] : TRUE
      OBVIOUS
    <3>2. <<"src", a>> \in GenerateBPFStr(addr[c])
      BY DEF GenerateBPFStr
    <3> QED BY <3>2
  <2> HIDE DEF p
  <2>6. p.src \in addr[c] \/ p.dst \in addr[c]
    BY <2>4, <2>5 DEF Accepts, GenerateBPFStr
  <2> QED BY <2>6 DEF p
<1> QED BY <1>1, FollowsAlways, CaptureTypeCorrect, FreshAlways, PTL DEF Spec, PacketsAsked
=============================================================================
