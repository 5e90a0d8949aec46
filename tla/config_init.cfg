CONSTANTS
    IPs <- MCIPs
    Ports <- MCPorts
    OvsNbChoices <- MCOvsNbChoices
    DefaultCerts <- MCDefaultCerts
    Builtin <- MCBuiltin
    CliChoices <- MCCliChoices
    FileChoices <- MCFileChoices
    ExtIdChoices <- MCExtIdChoices
    DefaultsChoices <- MCDefaultsChoices
    ExistingPaths <- MCExistingPaths
    OvnCliChoices <- MCOvnCliChoices
    OvnFileChoices <- MCOvnFileChoices
SPECIFICATION CfgSpec
INVARIANT LayeredWhenFresh OvnLayered
