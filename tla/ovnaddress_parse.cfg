CONSTANTS
    IPs <- MCIPs
    Names <- MCNames
    Ports <- MCPorts
    EntryForms <- MCEntryFormsAll
    MaxEntries = 2
    CertChoices <- MCCertChoices
SPECIFICATION Spec
INVARIANT ParserMatchesReference
CHECK_DEADLOCK FALSE
