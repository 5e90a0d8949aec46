CONSTANTS
    LocalSubnets <- MCLocalSubnets
    ClusterSubnets <- MCClusterSubnets
    ServiceChoices <- MCServiceChoices
    RouterMacs <- MCRouterMacs
    PortMacs <- MCPortMacs
    CmdMayFail = TRUE
    MaxFaults = 3
    OS = "linux"
SPECIFICATION Spec
INVARIANT ConfiguredWhenDone
PROPERTY EventuallyConfigured
