----------------------------- MODULE OvnAddress -----------------------------
(***************************************************************************)
(* newOvnDBAuth (pkg/config/config.go): parsing of an OVN database         *)
(* connection string such as "ssl://1.2.3.4:6641,ssl://1.2.3.5:6641" into  *)
(* the scheme and the client address "ssl:1.2.3.4:6641,ssl:1.2.3.5:6641", *)
(* and the check of the client certificate options against the scheme.    *)
(*                                                                         *)
(* A string is a sequence of tokens: the separators ":", "," and "/", and *)
(* opaque words (schemes, IPv4 literals, DNS names, ports).  Splitting and *)
(* joining act on separators exactly as strings.Split and strings.Join;    *)
(* a field is an IP literal only when it is exactly one IP word.           *)
(***************************************************************************)
EXTENDS Naturals, Sequences, SequencesExt

CONSTANTS
    IPs,    \* words that net.ParseIP accepts
    Ports   \* port words

\* strings.Split(s, sep): the fields between occurrences of sep.
RECURSIVE Split(_, _)
Split(s, sep) ==
    IF \A k \in 1..Len(s) : s[k] # sep
      THEN << s >>
      ELSE LET k == CHOOSE k \in 1..Len(s) :
                      s[k] = sep /\ \A j \in 1..(k - 1) : s[j] # sep
           IN << SubSeq(s, 1, k - 1) >> \o Split(SubSeq(s, k + 1, Len(s)), sep)

\* strings.Replace(s, "//", "", -1): drop every non-overlapping "//", left
\* to right.  (SequencesExt's ReplaceAllSubSeqs enumerates all splittings of
\* s and is out of TLC's reach for whole input sets.)
RECURSIVE DropDoubleSlash(_)
DropDoubleSlash(s) ==
    CASE Len(s) >= 2 /\ s[1] = "/" /\ s[2] = "/" -> DropDoubleSlash(Tail(Tail(s)))
      [] s = << >> -> << >>
      [] OTHER -> << Head(s) >> \o DropDoubleSlash(Tail(s))

\* strings.Join(fields, sep)
Join(fields, sep) ==
    IF fields = << >> THEN << >>
    ELSE FoldLeft(LAMBDA acc, f : acc \o << sep >> \o f, Head(fields), Tail(fields))

\* net.ParseIP(host) != nil
IsIP(field) == Len(field) = 1 /\ field[1] \in IPs

NoCerts(key, cert, ca) == key = "" /\ cert = "" /\ ca = ""

\* The OvnDBScheme values, and << >> for no OvnDBAuth.
Schemes == {<< >>, << "unix" >>, << "tcp" >>, << "ssl" >>}

\* An OvnDBAuth (scheme, OvnAddressForClient and the ssl client files), or
\* the error newOvnDBAuth returned.
Result(err, scheme, address) ==
    [err |-> err, scheme |-> scheme, address |-> address, certs |-> << "", "", "" >>]

(***************************************************************************)
(* The loop over ovnAddresses, returning at the first error.  scheme is    *)
(* the first entry's scheme field (<< >> plays Go's ""), address the       *)
(* OvnAddressForClient built so far.  net.SplitHostPort cannot fail on     *)
(* host:port when neither part holds ':' or brackets, so that error path  *)
(* is not reachable here.                                                  *)
(***************************************************************************)
RECURSIVE ParseEntries(_, _, _)
ParseEntries(entries, scheme, address) ==
    IF entries = << >> THEN Result("none", scheme, address)
    ELSE
      LET splits == Split(Head(entries), ":")
      IN CASE Len(splits) # 3 ->
                Result("Failed to parse OVN address", << >>, << >>)
           [] scheme # << >> /\ scheme # splits[1] ->
                Result("Invalid protocols in OVN address", << >>, << >>)
           [] ~IsIP(splits[2]) ->
                Result("must be an IP address, not a DNS name", << >>, << >>)
           [] OTHER ->
                LET s == IF scheme = << >> THEN splits[1] ELSE scheme
                    hostPort == s \o << ":" >> \o splits[2] \o << ":" >> \o splits[3]
                IN ParseEntries(Tail(entries), s,
                                IF address = << >> THEN hostPort
                                ELSE address \o << "," >> \o hostPort)

\* newOvnDBAuth(exec, ctlCmd, externalID, urlString, privkey, cert, cacert)
NewOvnDBAuth(url, key, cert, ca) ==
    IF url = << >>
      THEN IF NoCerts(key, cert, ca)
             THEN Result("none", << "unix" >>, << >>)
             ELSE Result("certificate or key given", << >>, << >>)
      ELSE
        LET stripped == DropDoubleSlash(url)
            r == ParseEntries(Split(stripped, ","), << >>, << >>)
        IN CASE r.err # "none" -> r
             [] r.scheme = << "ssl" >> ->
                  IF key = "" \/ cert = "" \/ ca = ""
                    THEN Result("must specify private key, certificate, and CA certificate", << >>, << >>)
                    ELSE [Result("none", << "ssl" >>, r.address) EXCEPT !.certs = << key, cert, ca >>]
             [] r.scheme = << "tcp" >> ->
                  IF NoCerts(key, cert, ca)
                    THEN Result("none", << "tcp" >>, r.address)
                    ELSE Result("certificate or key given", << >>, << >>)
             [] OTHER -> Result("unknown OVN DB scheme", << >>, << >>)

-----------------------------------------------------------------------------
(***************************************************************************)
(* The inputs: an address is written as up to MaxEntries entries, each a   *)
(* scheme, a separator (":" or "://" or a typo such as ":/"), a host and   *)
(* an optional port ("none": no ':' at all, "": a ':' with nothing after). *)
(***************************************************************************)
Render(e) ==
    << e.scheme >> \o e.sep \o (IF e.host = "" THEN << >> ELSE << e.host >>)
        \o (CASE e.port = "none" -> << >>
              [] e.port = ""     -> << ":" >>
              [] OTHER           -> << ":", e.port >>)

RenderAddress(entries) ==
    Join([k \in 1..Len(entries) |-> Render(entries[k])], ",")

-----------------------------------------------------------------------------
(***************************************************************************)
(* Reference: the connection strings that spec.md section 6 and the unit   *)
(* tests call valid.  "<scheme>:<ip>:<port>[,...]", scheme tcp or ssl      *)
(* (written with or without "//"), one scheme for all entries, a numeric  *)
(* IP host and a port.  ssl needs all three client files and tcp none; an *)
(* empty address is the local unix socket and takes no files.  The client *)
(* address is the "scheme:ip:port" form of each entry, in order.          *)
(***************************************************************************)
WellFormedEntry(e) ==
    /\ e.sep \in {<< ":" >>, << ":", "/", "/" >>}
    /\ e.host \in IPs
    /\ e.port \in Ports

ReferenceParse(entries, key, cert, ca) ==
    IF entries = << >>
      THEN NoCerts(key, cert, ca)
      ELSE /\ \A k \in 1..Len(entries) :
                 WellFormedEntry(entries[k]) /\ entries[k].scheme = entries[1].scheme
           /\ \/ entries[1].scheme = "ssl" /\ key # "" /\ cert # "" /\ ca # ""
              \/ entries[1].scheme = "tcp" /\ NoCerts(key, cert, ca)

ReferenceAddress(entries) ==
    Join([k \in 1..Len(entries) |->
             << entries[k].scheme, ":", entries[k].host, ":", entries[k].port >>], ",")

=============================================================================
