CONSTANTS
    IPs <- MCIPs
    Ports <- MCPorts
    MasterIPs <- MCMasterIPs
    CertFiles <- MCCertFiles
    AuthChoices <- MCAuthChoices
    VsctlMayFail = FALSE
SPECIFICATION SpecWithUpdate
INVARIANT ExternalIdsParse
