---------------------------- MODULE ClusterSubnet ----------------------------
(***************************************************************************)
(* parseClusterSubnetEntries and cidrsOverlap (cmd/ovnkube/ovnkube.go):    *)
(* the --cluster-subnet value "cidr[/hostlen],..." turned into the list of *)
(* CIDRNetworkEntry the cluster controller allocates host subnets from.    *)
(*                                                                         *)
(* Addresses are W-bit numbers.  An entry of the input is a record: the   *)
(* address and prefix length written before and after the first '/', and *)
(* the form of what follows: "absent" (no second '/'), "malformed" (no '/' *)
(* at all or more than two), "notnum" (strconv.ParseUint fails) or "num", *)
(* with hostLen the number written (0 otherwise).  A prefix length above  *)
(* W is one that net.ParseCIDR rejects.  RunOvnKube calls the parser as   *)
(* one step of the start of ovnkube.                                       *)
(***************************************************************************)
EXTENDS Naturals, Sequences

CONSTANTS
    W,               \* address width in bits
    HostLens,        \* host-subnet lengths that may be written
    DefaultHostLen,  \* the backwards-compatible default (24)
    MaxEntries       \* most comma-separated entries in the value

VARIABLES
    input,   \* the entries of the --cluster-subnet value (<< >>: not held)
    result   \* what parseClusterSubnetEntries returned, or NotParsed

Addrs == 0..(2^W - 1)

EntryForms ==
    [ip : Addrs, prefix : 0..(W + 1), host : {"absent", "malformed", "notnum"},
     hostLen : {0}]
    \cup [ip : Addrs, prefix : 0..(W + 1), host : {"num"}, hostLen : HostLens]

\* net.ParseCIDR: the network address (host bits cleared) and the size.
Network(ip, prefix) == ip - (ip % 2^(W - prefix))

Size(c) == 2^(W - c.prefix)

\* (*net.IPNet).Contains(ip)
Contains(c, ip) == c.ip <= ip /\ ip < c.ip + Size(c)

\* Mutant: only the new CIDR is asked whether it holds an earlier network.
CidrsOverlapOneWay(cidr, list) ==
    \E k \in 1..Len(list) : Contains(cidr, list[k].cidr.ip)

\* cidrsOverlap(cidr, cidrList)
CidrsOverlap(cidr, list) ==
    \E k \in 1..Len(list) :
        Contains(cidr, list[k].cidr.ip) \/ Contains(list[k].cidr, cidr.ip)

Error(msg) == [err |-> msg, entries |-> << >>]

(***************************************************************************)
(* The loop over clusterEntriesList, returning at the first error, with    *)
(* parsed the parsedClusterList built so far.                              *)
(***************************************************************************)
RECURSIVE ParseEntries(_, _)
ParseEntries(entries, parsed) ==
    IF entries = << >> THEN [err |-> "none", entries |-> parsed]
    ELSE
      LET e == Head(entries)
          cidr == [ip |-> Network(e.ip, e.prefix), prefix |-> e.prefix]
          hostLen == IF e.host = "absent" THEN DefaultHostLen ELSE e.hostLen
      IN CASE e.host = "malformed" -> Error("cluster-cidr not formatted properly")
           [] e.host = "notnum"    -> Error("invalid syntax")
           [] e.prefix > W         -> Error("invalid CIDR address")
           [] CidrsOverlap(cidr, parsed) ->
                Error("CIDR overlaps with another cluster network CIDR")
           [] OTHER ->
                ParseEntries(Tail(entries),
                             Append(parsed, [cidr |-> cidr, hostLen |-> hostLen]))

\* parseClusterSubnetEntries(clusterSubnetCmd)
ParseClusterSubnetEntries(entries) == ParseEntries(entries, << >>)

NotParsed == [err |-> "not parsed", entries |-> << >>]

\* The --cluster-subnet values of up to MaxEntries entries.
Inputs == UNION {[1..n -> EntryForms] : n \in 1..MaxEntries}

-----------------------------------------------------------------------------
(***************************************************************************)
(* Reference: the value is accepted exactly when every entry is well       *)
(* formed and the address ranges of the entries are pairwise disjoint (the *)
(* ClusterCIDR invariant of spec.md section 3); the result lists each      *)
(* entry's network and host length, in input order.                        *)
(***************************************************************************)
AddrRange(e) ==
    LET n == Network(e.ip, e.prefix) IN n..(n + 2^(W - e.prefix) - 1)

WellFormed(e) == e.host \notin {"malformed", "notnum"} /\ e.prefix <= W

ReferenceAccepts(entries) ==
    /\ \A k \in 1..Len(entries) : WellFormed(entries[k])
    /\ \A j, k \in 1..Len(entries) :
          j < k => AddrRange(entries[j]) \cap AddrRange(entries[k]) = {}

\* parseClusterSubnetEntries, with cidrsOverlap, accepts exactly the lists
\* of well-formed, pairwise disjoint CIDRs, and returns their networks with
\* the written or default host-subnet length, in order.
ParserMatchesReference ==
    result # NotParsed /\ input # << >> =>
        /\ (result.err = "none") = ReferenceAccepts(input)
        /\ result.err = "none" =>
              result.entries =
                [k \in 1..Len(input) |->
                    [cidr |-> [ip |-> Network(input[k].ip, input[k].prefix),
                               prefix |-> input[k].prefix],
                     hostLen |-> IF input[k].host = "absent" THEN DefaultHostLen
                                 ELSE input[k].hostLen]]

=============================================================================
