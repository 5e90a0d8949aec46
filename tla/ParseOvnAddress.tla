--------------------------- MODULE ParseOvnAddress ---------------------------
(***************************************************************************)
(* newOvnDBAuth applied to every connection string of a bounded set, each  *)
(* compared with the reference grammar of OvnAddress.                      *)
(***************************************************************************)
EXTENDS OvnAddress

CONSTANTS
    Names,       \* words that are DNS names (net.ParseIP returns nil)
    EntryForms,  \* the address entries a user may write (records, see Render)
    MaxEntries,  \* most comma-separated entries in one address
    CertChoices  \* <<privkey, cert, cacert>> option triples ("" = not given)

VARIABLES
    input,   \* the address string's entries and the certificate options
    result   \* what newOvnDBAuth returned, or NotParsed

vars == <<input, result>>

Inputs ==
    [entries : UNION {[1..n -> EntryForms] : n \in 0..MaxEntries},
     certs : CertChoices]

NotParsed == Result("not parsed", << >>, << >>)

Init ==
    /\ input \in Inputs
    /\ result = NotParsed

\* newOvnDBAuth(..., urlString, privkey, cert, cacert) on the rendered input
Parse ==
    /\ result = NotParsed
    /\ result' = NewOvnDBAuth(RenderAddress(input.entries),
                              input.certs[1], input.certs[2], input.certs[3])
    /\ UNCHANGED input

Next == Parse

Spec == Init /\ [][Next]_vars

-----------------------------------------------------------------------------
\* newOvnDBAuth accepts exactly the connection strings of the reference, and
\* for those returns their scheme and "scheme:ip:port,..." client address.
\* The reference asks every entry for a port, as config_test.go's "the OVN
\* URL has no port" expects: net.SplitHostPort in newOvnDBAuth takes
\* "4.3.2.1:" as host and an empty port, so that entry is accepted.
ParserMatchesReference ==
    result # NotParsed =>
        LET ok == ReferenceParse(input.entries, input.certs[1], input.certs[2], input.certs[3])
        IN /\ (result.err = "none") = ok
           /\ ok /\ input.entries # << >> =>
                /\ result.scheme = << input.entries[1].scheme >>
                /\ result.address = ReferenceAddress(input.entries)
                /\ result.scheme = << "ssl" >> => result.certs = input.certs

=============================================================================
