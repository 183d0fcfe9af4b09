------------------------------ MODULE Addresses ------------------------------
(***************************************************************************)
(* The filter that is built from a capture's addresses, and which end of a *)
(* flow is taken for the server.  An address is a host with a port.        *)
(***************************************************************************)
EXTENDS Integers, Sequences

\* generateBPFV2: the disjunction of one condition on the destination and one
\* on the source for each address, as the set of these; {} is the empty string.
\* GenerateBPFStr calls it for listen and connect addresses alike.
GenerateBPFStr(addrs) == {"dst", "src"} \X addrs

\* What libpcap lets through: every packet if the filter is empty.
Accepts(filter, packet) ==
  \/ filter = {}
  \/ <<"src", packet.src>> \in filter
  \/ <<"dst", packet.dst>> \in filter

\* The index of the first of addrs that contains, as a string, one end of the
\* flow; 0 if there is none.  within[a] are the addresses that contain a.
FirstHit(src, dst, addrs, within) ==
  LET hits == {i \in DOMAIN addrs : addrs[i] \in within[src] \cup within[dst]}
  IN  IF hits = {} THEN 0 ELSE CHOOSE i \in hits : \A j \in hits : i <= j

NoEnds == [client |-> "none", server |-> "none"]

\* Mutant: all addresses are tried for the source before any for the destination.
distinguishSrcFirst(src, dst, addrs, within) ==
  IF \E i \in DOMAIN addrs : addrs[i] \in within[src] THEN [client |-> dst, server |-> src]
  ELSE IF \E i \in DOMAIN addrs : addrs[i] \in within[dst] THEN [client |-> src, server |-> dst]
  ELSE NoEnds

\* The source is tried first.
distinguishStreamDrc(src, dst, addrs, within) ==
  LET i == FirstHit(src, dst, addrs, within)
  IN  IF i = 0 THEN NoEnds
      ELSE IF addrs[i] \in within[src] THEN [client |-> dst, server |-> src]
      ELSE [client |-> src, server |-> dst]

\* getInfo: the connection and the direction of a flow.
getInfo(src, dst, addrs, within) ==
  LET ends == distinguishStreamDrc(src, dst, addrs, within)
  IN  IF ends = NoEnds THEN [conn |-> NoEnds, type |-> "none"]
      ELSE [conn |-> ends, type |-> IF ends.client = src THEN "c2s" ELSE "s2c"]
=============================================================================
