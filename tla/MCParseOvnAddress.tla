------------------------- MODULE MCParseOvnAddress -------------------------
(* Instantiates ParseOvnAddress: two IPs (so entry order shows), one DNS name,  *)
(* one port, the three schemes the tests use, up to two entries.          *)
EXTENDS ParseOvnAddress

MCIPs == {"1.2.3.4", "6.5.4.3"}
MCNames == {"foobar.org"}
MCPorts == {"6641"}

\* Entries with a port given as digits, or left out entirely.
MCEntryForms ==
    [scheme : {"ssl", "tcp", "blah"},
     sep : {<< ":" >>, << ":", "/", "/" >>, << ":", "/" >>},
     host : MCIPs \cup MCNames \cup {""},
     port : MCPorts \cup {"none"}]

\* Full addresses whose ':' is followed by a port or by nothing
\* ("ssl://1.2.3.4:").
MCEntryFormsEmptyPort ==
    [scheme : {"ssl", "tcp"},
     sep : {<< ":", "/", "/" >>},
     host : MCIPs,
     port : MCPorts \cup {""}]

\* Both sets: the entries users write, and the empty port.
MCEntryFormsAll == MCEntryForms \cup MCEntryFormsEmptyPort

MCCertChoices == {<< "", "", "" >>, << "k", "c", "ca" >>, << "k", "", "" >>, << "k", "c", "" >>}
=============================================================================
