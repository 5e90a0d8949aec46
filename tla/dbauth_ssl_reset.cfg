CONSTANTS
    IPs <- MCIPs
    Ports <- MCPorts
    MasterIPs <- MCMasterIPs
    CertFiles <- MCCertFiles
    AuthChoices <- MCAuthChoices
    VsctlMayFail = TRUE
SPECIFICATION Spec
INVARIANT SslRemoteHasSslSettings
