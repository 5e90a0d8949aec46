--------------------------- MODULE ManagementPort ---------------------------
(***************************************************************************)
(* CreateManagementPort, configureManagementPort and its Windows branch   *)
(* (pkg/ovn management port, the second file under pkg/config/config.go): *)
(* the node's OVS internal port k8s-<node>, its logical switch port, and   *)
(* the host's address, routes and neighbour entry for the node's router.   *)
(*                                                                         *)
(* Every command (ovs-vsctl, ovn-nbctl, ip) is one step and may fail; the *)
(* function then returns the error and the node start-up panics.  The      *)
(* process may die at any step and the node runs CreateManagementPort     *)
(* again, possibly with a new host subnet (the node was given another     *)
(* subnet).  OVS, the northbound database and the kernel state persist.   *)
(* The master may re-create the node's router port with a new MAC.        *)
(***************************************************************************)
EXTENDS Naturals, Sequences, FiniteSets

CONSTANTS
    LocalSubnets,    \* host subnets [base, len] the node may be given
    ClusterSubnets,  \* the cluster subnet list (route destinations)
    ServiceChoices,  \* clusterServicesSubnet values ("" = none)
    RouterMacs,      \* MACs the stor-<node> port may carry
    PortMacs,        \* MACs OVS may give the internal interface
    CmdMayFail,      \* TRUE: any command may return an error
    MaxFaults,       \* bound on failed commands and crashes in a behaviour
    OS               \* runtime.GOOS: "linux" or "windows"

ASSUME CmdMayFail \in BOOLEAN /\ MaxFaults \in Nat /\ OS \in {"linux", "windows"}

NoMac == "[]"   \* mac_in_use of an interface OVS has not set up

VARIABLES
    subnet,      \* localSubnet of this run
    services,    \* clusterServicesSubnet ("" = none)
    brInt,       \* br-int exists
    portMac,     \* mac_in_use of k8s-<node>, NoMac while it does not exist
    lsp,         \* addresses of NB port k8s-<node>: <<mac, ip>> or << >>
    routerMac,   \* addresses of NB port stor-<node> (written by the master)
    linkUp,      \* the interface is up
    addrs,       \* addresses on the interface, [ip, len] records
    routes,      \* host routes, [dst, via] records
    neigh,       \* permanent neighbour entries, [ip, mac] records
    pc,          \* position in CreateManagementPort
    k,           \* index into Dsts in the route loops
    readMac,     \* [port, router]: the MACs this run read
    faults       \* command failures and crashes so far

vars == <<subnet, services, brInt, portMac, lsp, routerMac, linkUp, addrs,
          routes, neigh, pc, k, readMac, faults>>

\* ip = util.NextIP(ip): the router port's address, and the next one.
RouterIP(s) == s.base + 1
PortIP(s) == s.base + 2

\* portIPMask == fmt.Sprintf("%s/%d", portIP, n)
PortIPMask(s) == [ip |-> PortIP(s), len |-> s.len]

\* The route destinations, in order: the clusterSubnet loop, then
\* clusterServicesSubnet when it is not "".
Dsts == ClusterSubnets \o (IF services = "" THEN << >> ELSE << services >>)

RoutesTo(dst) == {r \in routes : r.dst = dst}

\* The positions at which an ovs-vsctl, ovn-nbctl, ip or PowerShell
\* command runs whose error CreateManagementPort returns.
CmdSteps == {"addbr", "addport", "getmac", "lspadd", "getrmac", "linkup",
             "flush", "addradd", "rflush", "radd",
             "winup", "removeaddr", "newaddr", "winroute"}

Init ==
    /\ subnet \in LocalSubnets
    /\ services \in ServiceChoices
    /\ brInt = FALSE
    /\ portMac = NoMac
    /\ lsp = << >>
    /\ routerMac \in RouterMacs
    /\ linkUp = FALSE
    /\ addrs = {}
    /\ routes = {}
    /\ neigh = {}
    /\ pc = "addbr"
    /\ k = 1
    /\ readMac = [port |-> NoMac, router |-> NoMac]
    /\ faults = 0

-----------------------------------------------------------------------------
(***************************************************************************)
(* CreateManagementPort, up to the call of configureManagementPort.        *)
(***************************************************************************)
\* ovs-vsctl --may-exist add-br br-int
AddBr ==
    /\ pc = "addbr"
    /\ brInt' = TRUE
    /\ pc' = "addport"
    /\ UNCHANGED <<subnet, services, portMac, lsp, routerMac, linkUp, addrs,
                   routes, neigh, k, readMac, faults>>

\* ovs-vsctl --may-exist add-port br-int k8s-<node> -- set interface ...
\* type=internal: OVS gives a new interface a MAC; an existing one keeps it.
AddPort ==
    /\ pc = "addport"
    /\ portMac' \in IF portMac = NoMac THEN PortMacs ELSE {portMac}
    /\ pc' = "getmac"
    /\ UNCHANGED <<subnet, services, brInt, lsp, routerMac, linkUp, addrs,
                   routes, neigh, k, readMac, faults>>

\* ovs-vsctl --if-exists get interface k8s-<node> mac_in_use; "[]" is an
\* error.  (The Windows all-zero MAC refetch is not modelled: the MACs of
\* PortMacs are real ones.)
GetMac ==
    /\ pc = "getmac"
    /\ \/ /\ portMac # NoMac
          /\ readMac' = [readMac EXCEPT !.port = portMac]
          /\ pc' = "lspadd"
       \/ /\ portMac = NoMac
          /\ pc' = "failed"
          /\ UNCHANGED readMac
    /\ UNCHANGED <<subnet, services, brInt, portMac, lsp, routerMac, linkUp,
                   addrs, routes, neigh, k, faults>>

\* ovn-nbctl --may-exist lsp-add <node> k8s-<node> -- lsp-set-addresses
\* k8s-<node> "<mac> <portIP>"
LspAdd ==
    /\ pc = "lspadd"
    /\ lsp' = << readMac.port, PortIP(subnet) >>
    /\ pc' = "getrmac"
    /\ UNCHANGED <<subnet, services, brInt, portMac, routerMac, linkUp, addrs,
                   routes, neigh, k, readMac, faults>>

\* ovn-nbctl lsp-get-addresses stor-<node>, then configureManagementPort,
\* which on Windows returns configureManagementPortWindows.
GetRouterMac ==
    /\ pc = "getrmac"
    /\ readMac' = [readMac EXCEPT !.router = routerMac]
    /\ pc' = IF OS = "windows" THEN "winup" ELSE "linkup"
    /\ UNCHANGED <<subnet, services, brInt, portMac, lsp, routerMac, linkUp,
                   addrs, routes, neigh, k, faults>>

-----------------------------------------------------------------------------
(***************************************************************************)
(* configureManagementPort on Linux: ip link, addr, route, neigh.          *)
(***************************************************************************)
\* After the address, or after route k: the next route, or what follows.
RouteLoopFrom(i, loop, after) ==
    IF i <= Len(Dsts) THEN pc' = loop /\ k' = i ELSE pc' = after /\ k' = k

\* ip link set k8s-<node> up
LinkUp ==
    /\ pc = "linkup"
    /\ linkUp' = TRUE
    /\ pc' = "flush"
    /\ UNCHANGED <<subnet, services, brInt, portMac, lsp, routerMac, addrs,
                   routes, neigh, k, readMac, faults>>

\* Mutant: the address flush runs but removes nothing.
FlushAddrsKeep(a) == a

\* The addresses left on a device by "ip addr flush dev".
FlushAddrs(a) == {}

\* ip addr flush dev k8s-<node>
AddrFlush ==
    /\ pc = "flush"
    /\ addrs' = FlushAddrs(addrs)
    /\ pc' = "addradd"
    /\ UNCHANGED <<subnet, services, brInt, portMac, lsp, routerMac, linkUp,
                   routes, neigh, k, readMac, faults>>

\* ip addr add <portIPMask> dev k8s-<node>: EEXIST if it is there already.
AddrAdd ==
    /\ pc = "addradd"
    /\ \/ /\ PortIPMask(subnet) \notin addrs
          /\ addrs' = addrs \cup {PortIPMask(subnet)}
          /\ RouteLoopFrom(1, "rflush", "neigh")
       \/ /\ PortIPMask(subnet) \in addrs
          /\ pc' = "failed"
          /\ UNCHANGED <<addrs, k>>
    /\ UNCHANGED <<subnet, services, brInt, portMac, lsp, routerMac, linkUp,
                   routes, neigh, readMac, faults>>

\* Mutant: the route flush runs but removes nothing.
FlushRoutesKeep(r, dst) == r

\* The routes left by "ip route flush <dst>".
FlushRoutes(r, dst) == {x \in r : x.dst # dst}

\* ip route flush <dst>
RouteFlush ==
    /\ pc = "rflush"
    /\ routes' = FlushRoutes(routes, Dsts[k])
    /\ pc' = "radd"
    /\ UNCHANGED <<subnet, services, brInt, portMac, lsp, routerMac, linkUp,
                   addrs, neigh, k, readMac, faults>>

\* ip route add <dst> via <routerIP>: EEXIST if <dst> has a route.
RouteAdd ==
    /\ pc = "radd"
    /\ \/ /\ RoutesTo(Dsts[k]) = {}
          /\ routes' = routes \cup {[dst |-> Dsts[k], via |-> RouterIP(subnet)]}
          /\ RouteLoopFrom(k + 1, "rflush", "neigh")
       \/ /\ RoutesTo(Dsts[k]) # {}
          /\ pc' = "failed"
          /\ UNCHANGED <<routes, k>>
    /\ UNCHANGED <<subnet, services, brInt, portMac, lsp, routerMac, linkUp,
                   addrs, neigh, readMac, faults>>

\* ip neigh add <routerIP> dev k8s-<node> lladdr <routerMac>: an existing
\* entry for routerIP makes it fail with EEXIST.  Its error is returned only
\* when os.IsNotExist(err), which an exit status of ip never is, so every
\* failure is ignored and CreateManagementPort returns nil.
NeighAdd ==
    /\ pc = "neigh"
    /\ \/ /\ \A e \in neigh : e.ip # RouterIP(subnet)
          /\ neigh' = neigh \cup {[ip |-> RouterIP(subnet), mac |-> readMac.router]}
       \/ /\ (\E e \in neigh : e.ip = RouterIP(subnet)) \/ CmdMayFail
          /\ UNCHANGED neigh
    /\ pc' = "done"
    /\ UNCHANGED <<subnet, services, brInt, portMac, lsp, routerMac, linkUp,
                   addrs, routes, k, readMac, faults>>

-----------------------------------------------------------------------------
\* The command at pc returns an error (ovs-vsctl, ovn-nbctl or ip exits
\* non-zero) without changing anything, and CreateManagementPort returns it.
CmdFails ==
    /\ CmdMayFail
    /\ faults < MaxFaults
    /\ pc \in CmdSteps
    /\ pc' = "failed"
    /\ faults' = faults + 1
    /\ UNCHANGED <<subnet, services, brInt, portMac, lsp, routerMac, linkUp,
                   addrs, routes, neigh, k, readMac>>

\* CreateManagementPort runs again from the top, maybe for another host
\* subnet.  OVS, the NB database and the host keep their state.
RunAgain ==
    /\ subnet' \in LocalSubnets
    /\ pc' = "addbr"
    /\ k' = 1
    /\ readMac' = [port |-> NoMac, router |-> NoMac]
    /\ UNCHANGED <<services, brInt, portMac, lsp, routerMac, linkUp, addrs,
                   routes, neigh>>

\* A returned error is fatal to the node start-up; the kubelet (or the
\* supervisor) starts ovnkube again.
Retry ==
    /\ pc = "failed"
    /\ RunAgain
    /\ UNCHANGED faults

\* The process is killed at any point and started again.
Crash ==
    /\ pc # "failed"
    /\ faults < MaxFaults
    /\ RunAgain
    /\ faults' = faults + 1

\* The master re-creates stor-<node> with another MAC.
ChangeRouterMac ==
    /\ routerMac' \in RouterMacs \ {routerMac}
    /\ UNCHANGED <<subnet, services, brInt, portMac, lsp, linkUp, addrs, routes,
                   neigh, pc, k, readMac, faults>>

\* The steps of CreateManagementPort up to configureManagementPort.
CreateSteps == AddBr \/ AddPort \/ GetMac \/ LspAdd \/ GetRouterMac

\* The steps of configureManagementPort on Linux.
ConfigureSteps ==
    LinkUp \/ AddrFlush \/ AddrAdd \/ RouteFlush \/ RouteAdd \/ NeighAdd

Environment == CmdFails \/ Crash \/ ChangeRouterMac

Next == CreateSteps \/ ConfigureSteps \/ Retry \/ Environment

\* A live ovnkube runs its next command, and a failed one is restarted:
\* runOvnKube panics on the error and the node's pod or unit restarts it.
\* Failures, kills and MAC changes come from outside and are not fair.
Fairness ==
    /\ WF_vars(CreateSteps)
    /\ WF_vars(ConfigureSteps)
    /\ WF_vars(Retry)

Spec == Init /\ [][Next]_vars /\ Fairness

-----------------------------------------------------------------------------
\* When CreateManagementPort returns nil the node reaches its pods through
\* k8s-<node>: the interface is up with exactly the port address of this
\* run's subnet, each cluster and service subnet is routed only via this
\* subnet's router IP, and the NB port advertises the interface's MAC and
\* that address -- whatever earlier, failed or differently configured runs
\* left behind on the host.
ConfiguredWhenDone ==
    pc = "done" =>
        /\ linkUp
        /\ addrs = {PortIPMask(subnet)}
        /\ \A i \in 1..Len(Dsts) :
              RoutesTo(Dsts[i]) = {[dst |-> Dsts[i], via |-> RouterIP(subnet)]}
        /\ lsp = << portMac, PortIP(subnet) >>

\* Once commands stop failing and the process stops being killed, a node
\* that keeps re-running CreateManagementPort after each error ends with a
\* run that returns nil and is never undone: what earlier failed or killed
\* runs left on the host (addresses, routes, neighbour entries) never makes
\* a later run fail for ever.
EventuallyConfigured == <>[](pc = "done")

=============================================================================
