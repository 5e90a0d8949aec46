CONSTANTS
    LocalSubnets <- MCLocalSubnets
    ClusterSubnets <- MCClusterSubnets
    ServiceChoices <- MCServiceChoices
    RouterMacs <- MCRouterMacs
    PortMacs <- MCPortMacs
    CmdMayFail = FALSE
    MaxFaults = 1
    OS = "windows"
SPECIFICATION SpecWindows
INVARIANT ConfiguredWhenDone
