------------------------ MODULE ManagementPortWindows ------------------------
(***************************************************************************)
(* configureManagementPortWindows (the GOOS == "windows" branch of         *)
(* configureManagementPort): PowerShell, netsh and route take the place of *)
(* ip link, addr, route and neigh.                                         *)
(***************************************************************************)
EXTENDS ManagementPort

\* Enable-NetAdapter -IncludeHidden k8s-<node>
WinUp ==
    /\ pc = "winup"
    /\ linkUp' = TRUE
    /\ pc' = "getaddr"
    /\ UNCHANGED <<subnet, services, brInt, portMac, lsp, routerMac, addrs,
                   routes, neigh, k, readMac, faults>>

\* Get-NetIPAddress -InterfaceAlias k8s-<node>: it fails when the interface
\* has no address; any error means "no address" to the code.
GetAddr ==
    /\ pc = "getaddr"
    /\ \/ addrs # {} /\ pc' = "removeaddr" /\ UNCHANGED faults
       \/ addrs = {} /\ pc' = "newaddr" /\ UNCHANGED faults
       \/ /\ CmdMayFail
          /\ faults < MaxFaults
          /\ faults' = faults + 1
          /\ pc' = "newaddr"
    /\ UNCHANGED <<subnet, services, brInt, portMac, lsp, routerMac, linkUp,
                   addrs, routes, neigh, k, readMac>>

\* Remove-NetIPAddress -InterfaceAlias k8s-<node> -Confirm:$false
RemoveAddr ==
    /\ pc = "removeaddr"
    /\ addrs' = {}
    /\ pc' = "newaddr"
    /\ UNCHANGED <<subnet, services, brInt, portMac, lsp, routerMac, linkUp,
                   routes, neigh, k, readMac, faults>>

\* New-NetIPAddress -IPAddress <portIP> -PrefixLength <n>, then netsh's MTU
\* setting and the lookup of the interface index, which may each fail.
NewAddr ==
    /\ pc = "newaddr"
    /\ \/ /\ PortIPMask(subnet) \notin addrs
          /\ addrs' = addrs \cup {PortIPMask(subnet)}
          /\ RouteLoopFrom(1, "winroute", "done")
       \/ /\ PortIPMask(subnet) \in addrs
          /\ pc' = "failed"
          /\ UNCHANGED <<addrs, k>>
    /\ UNCHANGED <<subnet, services, brInt, portMac, lsp, routerMac, linkUp,
                   routes, neigh, readMac, faults>>

\* route print -4 <dst>; when its output holds <dst> the route is kept as it
\* is, else (also when route print failed) route -p add <dst> mask <m>
\* <routerIP>, which fails on an identical route.
WinRoute ==
    LET dst == Dsts[k]
        new == [dst |-> dst, via |-> RouterIP(subnet)]
    IN /\ pc = "winroute"
       /\ \/ /\ RoutesTo(dst) # {}
             /\ RouteLoopFrom(k + 1, "winroute", "done")
             /\ UNCHANGED routes
          \/ /\ RoutesTo(dst) = {} \/ CmdMayFail
             /\ \/ /\ new \notin routes
                   /\ routes' = routes \cup {new}
                   /\ RouteLoopFrom(k + 1, "winroute", "done")
                \/ /\ new \in routes
                   /\ pc' = "failed"
                   /\ UNCHANGED <<routes, k>>
       /\ UNCHANGED <<subnet, services, brInt, portMac, lsp, routerMac, linkUp,
                      addrs, neigh, readMac, faults>>

NextWindows ==
    \/ CreateSteps
    \/ WinUp \/ GetAddr \/ RemoveAddr \/ NewAddr \/ WinRoute
    \/ Retry \/ Environment

SpecWindows == Init /\ [][NextWindows]_vars

=============================================================================
