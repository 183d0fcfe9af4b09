------------------------------- MODULE Capture -------------------------------
(***************************************************************************)
(* The capture manager and its captures: actors that handle one message at *)
(* a time, in the order of arrival, and the goroutine that each capture    *)
(* starts to take the packets of its handle from a channel.                *)
(*                                                                         *)
(* The manager keeps, for every device, a capture for the addresses listen *)
(* on and one for those connected to.  A message of the manager is handled *)
(* when it is sent; those of captures wait in mailboxes.  A message with   *)
(* an empty device name changes nothing, nor does a name that no capture   *)
(* has, and oldStatus is never read.                                       *)
(*                                                                         *)
(* External: libpcap, whose calls may fail; gopacket's goroutine, which    *)
(* puts the packets that pass a handle's filter in the channel, where they *)
(* stay whatever the filter becomes; and the supervision of protoactor,    *)
(* which restarts an actor that panics with the same struct and the next   *)
(* message.                                                                *)
(***************************************************************************)
EXTENDS Addresses

CONSTANTS
  Devices,
  Addrs,       \* the addresses in configurations
  Packets,     \* TCP packets, the others are skipped: records with a src and a dst
  Confs,       \* configurations that are sent
  SetStatuses, \* statuses that are set
  ChannelSize, \* the size of the channel of packets, 1000 in gopacket
  MaxMessages, \* bound: messages to the manager
  MaxFailures  \* bound: failures of libpcap

Captures == Devices \X {"listen", "connect"}
Of(d) == {<<d, "listen">>, <<d, "connect">>}

\* What captureConfs has for a device.
Conf == [listen : SUBSET Addrs, connect : SUBSET Addrs]

Statuses == {"NewCreated", "Ready", "Staring", "Running", "Stoping", "Stoppted"}

ASSUME CaptureAssumption ==
  /\ \A p \in Packets : {"src", "dst"} \subseteq DOMAIN p
  /\ Confs \subseteq Conf
  /\ SetStatuses \subseteq Statuses
  /\ ChannelSize \in Nat
  /\ MaxMessages \in Nat
  /\ MaxFailures \in Nat

VARIABLES
  conf,     \* captureConfs
  captures, \* the devices that have captures
  mailbox,  \* the messages each capture has not handled
  addr, bpf, status, interStatus, \* the fields of each capture
  handle,   \* which of the handles it opened, 0 for nil
  filter,   \* the filters of those handles
  loops,    \* the goroutines it started
  updating, \* whether it is about to set the filter for new addresses
  packets,  \* the packets captured that it has not received
  stale,    \* history: how many of them were captured under an earlier filter
  behind,   \* history: whether the last update of addresses had no effect
  messages, failures

actorVars == <<addr, bpf, status, interStatus, handle, filter, loops, updating, behind>>
captureVars == <<actorVars, packets, stale>>
vars == <<conf, captures, mailbox, captureVars, messages, failures>>

Init ==
  /\ conf = [d \in Devices |-> [listen |-> {}, connect |-> {}]]
  /\ captures = {}
  /\ mailbox = [c \in Captures |-> <<>>]
  /\ addr = [c \in Captures |-> {}]
  /\ bpf = [c \in Captures |-> {}]
  /\ status = [c \in Captures |-> "NewCreated"]
  /\ interStatus = [c \in Captures |-> "Ready"]
  /\ handle = [c \in Captures |-> 0]
  /\ filter = [c \in Captures |-> <<>>]
  /\ loops = [c \in Captures |-> 0]
  /\ updating = [c \in Captures |-> FALSE]
  /\ packets = [c \in Captures |-> <<>>]
  /\ stale = [c \in Captures |-> 0]
  /\ behind = [c \in Captures |-> FALSE]
  /\ messages = 0
  /\ failures = 0

-----------------------------------------------------------------------------
(* The manager.                                                            *)

AddrUpdateMsg(addrs) == [type |-> "addr", addrs |-> addrs, status |-> "none"]
CaptureStatusSetMsg(s) == [type |-> "status", addrs |-> {}, status |-> s]

\* ctx.Send of m to the captures in cs.
Send(cs, m) == mailbox' = [c \in Captures |-> IF c \in cs THEN Append(mailbox[c], m) ELSE mailbox[c]]

Receives ==
  /\ messages < MaxMessages
  /\ messages' = messages + 1
  /\ UNCHANGED failures

\* The first configuration of a device spawns its captures.
newCaptures(d, new) ==
  /\ Receives
  /\ d \notin captures
  /\ conf' = [conf EXCEPT ![d] = new]
  /\ captures' = captures \cup {d}
  /\ addr' = [c \in Captures |-> IF c[1] = d THEN new[c[2]] ELSE addr[c]]
  /\ bpf' = [c \in Captures |-> IF c[1] = d THEN GenerateBPFStr(new[c[2]]) ELSE bpf[c]]
  /\ UNCHANGED <<mailbox, status, interStatus, handle, filter, loops, updating, behind, packets, stale>>

\* Mutant: the captures are sent the configuration that was there.
updateCapturesOld(d, new) ==
  /\ Receives
  /\ d \in captures
  /\ conf' = [conf EXCEPT ![d] = new]
  /\ Send(Of(d), AddrUpdateMsg(conf[d].listen))
  /\ UNCHANGED <<captures, captureVars>>

\* A later one is sent to both captures, its listen addresses to each.
updateCaptures(d, new) ==
  /\ Receives
  /\ d \in captures
  /\ conf' = [conf EXCEPT ![d] = new]
  /\ Send(Of(d), AddrUpdateMsg(new.listen))
  /\ UNCHANGED <<captures, captureVars>>

\* A status for the captures named, or all.
setStatus(cs, s) ==
  /\ Receives
  /\ Send({c \in cs : c[1] \in captures}, CaptureStatusSetMsg(s))
  /\ UNCHANGED <<conf, captures, captureVars>>

-----------------------------------------------------------------------------
(* A capture.                                                              *)

\* Receive handles message m.
Handles(c, m) ==
  /\ ~updating[c]
  /\ mailbox[c] # <<>>
  /\ m = Head(mailbox[c])
  /\ mailbox' = [mailbox EXCEPT ![c] = Tail(@)]
  /\ UNCHANGED <<conf, captures, behind, packets, messages>>

HandlesStatus(c, s) ==
  /\ Handles(c, CaptureStatusSetMsg(s))
  /\ status' = [status EXCEPT ![c] = s]
  /\ UNCHANGED <<addr, bpf, updating, stale>>

libpcapFails == failures < MaxFailures /\ failures' = failures + 1

\* Every status but Running: ensureStopped does nothing, the others are not supported.
setOtherStatus(c) ==
  /\ \E s \in Statuses \ {"Running"} : HandlesStatus(c, s)
  /\ UNCHANGED <<interStatus, handle, filter, loops, failures>>

\* ensureRunning without a filter, or with a handle already.
ensureRunning(c) ==
  /\ bpf[c] = {} \/ handle[c] # 0
  /\ HandlesStatus(c, "Running")
  /\ interStatus' = [interStatus EXCEPT ![c] = IF bpf[c] = {} THEN @ ELSE "Working"]
  /\ UNCHANGED <<handle, filter, loops, failures>>

MustOpen(c) == bpf[c] # {} /\ handle[c] = 0

\* Mutant: the handle is kept although there is none.
OpenLiveFailsKept(c) ==
  /\ MustOpen(c)
  /\ HandlesStatus(c, "Running")
  /\ libpcapFails
  /\ handle' = [handle EXCEPT ![c] = Len(filter[c]) + 1]
  /\ UNCHANGED <<interStatus, filter, loops>>

OpenLiveFails(c) ==
  /\ MustOpen(c)
  /\ HandlesStatus(c, "Running")
  /\ libpcapFails
  /\ UNCHANGED <<interStatus, handle, filter, loops>>

\* Mutant: the handle is kept although it has no filter.
SetBPFFilterFailsKept(c) ==
  /\ MustOpen(c)
  /\ HandlesStatus(c, "Running")
  /\ libpcapFails
  /\ filter' = [filter EXCEPT ![c] = Append(@, {})]
  /\ handle' = [handle EXCEPT ![c] = Len(filter[c]) + 1]
  /\ UNCHANGED <<interStatus, loops>>

\* The handle is neither kept nor closed.
SetBPFFilterFails(c) ==
  /\ MustOpen(c)
  /\ HandlesStatus(c, "Running")
  /\ libpcapFails
  /\ filter' = [filter EXCEPT ![c] = Append(@, {})]
  /\ UNCHANGED <<interStatus, handle, loops>>

startCapture(c) ==
  /\ MustOpen(c)
  /\ HandlesStatus(c, "Running")
  /\ filter' = [filter EXCEPT ![c] = Append(@, bpf[c])]
  /\ handle' = [handle EXCEPT ![c] = Len(filter[c]) + 1]
  /\ loops' = [loops EXCEPT ![c] = @ + 1]
  /\ interStatus' = [interStatus EXCEPT ![c] = "Working"]
  /\ UNCHANGED failures

\* processAddrUpdateMsg: first the addresses.
HandlesAddrs(c) ==
  /\ \E addrs \in SUBSET Addrs :
       /\ Handles(c, AddrUpdateMsg(addrs))
       /\ addr' = [addr EXCEPT ![c] = addrs]
  /\ updating' = [updating EXCEPT ![c] = TRUE]
  /\ UNCHANGED <<bpf, status, interStatus, handle, filter, loops, stale, failures>>

\* Then the filter, which has an effect if worked.
SetsFilter(c, worked) ==
  /\ updating[c]
  /\ updating' = [updating EXCEPT ![c] = FALSE]
  /\ behind' = [behind EXCEPT ![c] = ~worked]
  /\ UNCHANGED <<conf, captures, addr, bpf, status, interStatus, handle, loops, packets, messages>>

\* Mutant: the filter the capture was made with is set again.
updateFilterOld(c) ==
  /\ handle[c] # 0
  /\ SetsFilter(c, TRUE)
  /\ filter' = [filter EXCEPT ![c][handle[c]] = bpf[c]]
  /\ stale' = [stale EXCEPT ![c] = Len(packets[c])]
  /\ UNCHANGED <<mailbox, failures>>

\* The open handle gets the new filter, bpfStr does not.
updateFilter(c) ==
  /\ handle[c] # 0
  /\ SetsFilter(c, TRUE)
  /\ filter' = [filter EXCEPT ![c][handle[c]] = GenerateBPFStr(addr[c])]
  /\ stale' = [stale EXCEPT ![c] = Len(packets[c])]
  /\ UNCHANGED <<mailbox, failures>>

\* The error of SetBPFFilter is ignored.
updateFilterFails(c) ==
  /\ handle[c] # 0
  /\ SetsFilter(c, FALSE)
  /\ libpcapFails
  /\ UNCHANGED <<mailbox, filter, stale>>

\* Mutant: the message that made it panic is handled again after the restart.
updateNilHandleAgain(c) ==
  /\ handle[c] = 0
  /\ SetsFilter(c, FALSE)
  /\ mailbox' = [mailbox EXCEPT ![c] = <<AddrUpdateMsg(addr[c])>> \o @]
  /\ UNCHANGED <<filter, stale, failures>>

\* The handle is nil: the actor panics and is restarted.
updateNilHandle(c) ==
  /\ handle[c] = 0
  /\ SetsFilter(c, FALSE)
  /\ UNCHANGED <<mailbox, filter, stale, failures>>

-----------------------------------------------------------------------------
(* The packets.                                                            *)

\* gopacket's goroutine reads a packet that passes the filter, if the one it
\* read before is in the channel.
Captured(c, p) ==
  /\ loops[c] > 0
  /\ Accepts(filter[c][handle[c]], p)
  /\ Len(packets[c]) <= ChannelSize
  /\ packets' = [packets EXCEPT ![c] = Append(@, p)]
  /\ UNCHANGED <<conf, captures, mailbox, actorVars, stale, messages, failures>>

\* The capture goroutine receives a packet.
Packet(c) ==
  /\ loops[c] > 0
  /\ packets[c] # <<>>
  /\ packets' = [packets EXCEPT ![c] = Tail(@)]
  /\ stale' = [stale EXCEPT ![c] = IF @ = 0 THEN 0 ELSE @ - 1]
  /\ UNCHANGED <<conf, captures, mailbox, actorVars, messages, failures>>

\* It is given to the assembler unless the capture is paused, which nothing
\* makes it.
Assembles(c) == Packet(c) /\ interStatus[c] # "Paused"

-----------------------------------------------------------------------------
Receive(c) ==
  \/ setOtherStatus(c) \/ ensureRunning(c)
  \/ OpenLiveFails(c) \/ SetBPFFilterFails(c) \/ startCapture(c)
  \/ HandlesAddrs(c) \/ updateFilter(c) \/ updateFilterFails(c) \/ updateNilHandle(c)

ManagerReceive ==
  \/ \E d \in Devices, new \in Confs : newCaptures(d, new) \/ updateCaptures(d, new)
  \/ \E cs \in SUBSET Captures, s \in SetStatuses : setStatus(cs, s)

Next ==
  \/ ManagerReceive
  \/ \E c \in Captures : Receive(c) \/ Packet(c) \/ \E p \in Packets : Captured(c, p)

Spec == Init /\ [][Next]_vars

\* An actor with messages, or inside a handler, is scheduled.
FairSpec == Spec /\ \A c \in Captures : WF_vars(Receive(c))

-----------------------------------------------------------------------------
Message == [type : {"addr", "status"}, addrs : SUBSET Addrs, status : Statuses \cup {"none"}]

Filter == SUBSET ({"dst", "src"} \X Addrs)

\* Every variable has the type of what it stands for in the code.
TypeOK ==
  /\ conf \in [Devices -> Conf]
  /\ captures \in SUBSET Devices
  /\ mailbox \in [Captures -> Seq(Message)]
  /\ addr \in [Captures -> SUBSET Addrs]
  /\ bpf \in [Captures -> Filter]
  /\ status \in [Captures -> Statuses]
  /\ interStatus \in [Captures -> {"Ready", "Working", "Paused"}]
  /\ filter \in [Captures -> Seq(Filter)]
  /\ handle \in [Captures -> Nat]
  /\ \A c \in Captures : handle[c] \in 0 .. Len(filter[c])
  /\ loops \in [Captures -> Nat]
  /\ updating \in [Captures -> BOOLEAN]
  /\ packets \in [Captures -> Seq(Packets)]
  /\ \A c \in Captures : Len(packets[c]) <= ChannelSize + 1
  /\ stale \in [Captures -> Nat]
  /\ \A c \in Captures : stale[c] <= Len(packets[c])
  /\ behind \in [Captures -> BOOLEAN]
  /\ messages \in 0 .. MaxMessages
  /\ failures \in 0 .. MaxFailures

\* A capture has one goroutine from the moment it has a handle, whichever of
\* its starts failed and however often it was told to run, stop and run again.
OneLoopEach ==
  \A c \in Captures :
    /\ loops[c] = IF handle[c] = 0 THEN 0 ELSE 1
    /\ interStatus[c] = "Working" <=> handle[c] # 0

Updates(c) == {i \in DOMAIN mailbox[c] : mailbox[c][i].type = "addr"}

\* When a listen capture has handled its updates, and the last one took effect,
\* its handle has the filter of the device's latest configuration.
ListensToConf ==
  \A d \in captures :
    LET c == <<d, "listen">>
    IN  Updates(c) = {} /\ ~updating[c] /\ ~behind[c] /\ handle[c] # 0 =>
          filter[c][handle[c]] = GenerateBPFStr(conf[d].listen)

\* Once an update of the addresses has had its effect, and the packets that
\* were captured before it are through, every packet that a capture assembles
\* is from or to one of its addresses, if it has any.
PacketsAsked ==
  [][\A c \in Captures :
       Assembles(c) /\ stale[c] = 0 /\ ~updating[c] /\ ~behind[c] /\ addr[c] # {} =>
         {Head(packets[c]).src, Head(packets[c]).dst} \cap addr[c] # {}]_vars

\* A capture with addresses that is told to run does, once libpcap works.
RunningStarts ==
  \A c \in Captures :
    failures = MaxFailures /\ bpf[c] # {}
      /\ (\E i \in DOMAIN mailbox[c] : mailbox[c][i].status = "Running")
    ~> handle[c] # 0
=============================================================================
