----------------------------- MODULE RunOvnKube -----------------------------
(***************************************************************************)
(* runOvnKube (cmd/ovnkube/ovnkube.go), the action of the ovnkube command, *)
(* and how main turns its outcome into the exit status.                    *)
(*                                                                         *)
(* Each call to code outside this file (InitConfig, SetExec, setupPIDFile, *)
(* NewClientset, NewWatchFactory, StartClusterMaster, StartClusterNode,    *)
(* RebuildOVNDatabase, ovnController.Run) succeeds or fails; the cluster   *)
(* subnet is parsed by parseClusterSubnetEntries of ClusterSubnet.  The    *)
(* mode flags are fixed at the start; the others are chosen at the step   *)
(* that first reads them, as nothing before depends on them.  The pidfile *)
(* protocol between processes is PidFile's.                                *)
(*                                                                         *)
(* An error returned from runOvnKube reaches logrus.Fatal in main: exit    *)
(* status 1.  A panic ends a Go program with status 2.  The windows-master *)
(* check and the missing-token check panic like the calls after them.     *)
(* With --pidfile, setupPIDFile arms a goroutine that on SIGTERM or SIGINT *)
(* removes the pidfile and calls os.Exit(1), at any later point.          *)
(***************************************************************************)
EXTENDS ClusterSubnet

Modes == {"master", "node", "net"}

VARIABLES
    pc,          \* the next statement of runOvnKube, or "end"
    master,      \* --init-master is set
    node,        \* --init-node is set
    ha,          \* clusterController.OvnHA
    net,         \* --net-controller
    pidfile,     \* --pidfile is not ""
    started,     \* controllers started: StartClusterMaster/Node, Run
    status       \* "running", "serving" (select {}) or "exit n"

vars == <<input, result, pc, master, node, ha, net, pidfile, started, status>>

Requested == {m \in Modes : CASE m = "master" -> master
                              [] m = "node" -> node
                              [] m = "net" -> net}

Init ==
    /\ input = << >>
    /\ result = NotParsed
    /\ pc = "InitConfig"
    /\ master \in BOOLEAN
    /\ node \in BOOLEAN
    /\ ha = FALSE
    /\ net \in BOOLEAN
    /\ pidfile \in BOOLEAN
    /\ started = {}
    /\ status = "running"

\* The program ends: return err (logrus.Fatal, 1), panic (2) or return nil (0).
Exit(code) == pc' = "end" /\ status' = code

Goto(next) == pc' = next /\ UNCHANGED status

\* A step that calls code outside this file: it succeeds (next) or fails.
Call(step, next, failure) ==
    /\ pc = step
    /\ Goto(next) \/ Exit(failure)
    /\ UNCHANGED <<input, result, master, node, ha, net, pidfile, started>>

\* _, err := config.InitConfig(...); if err != nil { return err }
InitConfig == Call("InitConfig", "SetExec", "exit 1")

\* if err = util.SetExec(exec); err != nil { return err }
SetExec == Call("SetExec", "setupPIDFile", "exit 1")

\* if pidfile != "" { defer delPidfile; setupPIDFile }: no pidfile or the
\* pid written; else refused (os.Exit(1)) or a read error (return err).
SetupPIDFile ==
    IF pidfile THEN Call("setupPIDFile", "NewClientset", "exit 1")
    ELSE /\ pc = "setupPIDFile"
         /\ Goto("NewClientset")
         /\ UNCHANGED <<input, result, master, node, ha, net, pidfile, started>>

\* clientset, err := util.NewClientset(...); if err != nil { panic }
NewClientset == Call("NewClientset", "NewWatchFactory", "exit 2")

\* factory, err := factory.NewWatchFactory(...); if err != nil { panic }
NewWatchFactory == Call("NewWatchFactory", "cluster", "exit 2")

\* if master != "" || node != "": the gateway flags and OvnHA.
ClusterFlags ==
    /\ pc = "cluster"
    /\ IF master \/ node
         THEN /\ ha' \in BOOLEAN
              /\ Goto("parseClusterSubnetEntries")
         ELSE /\ Goto("netController")
              /\ UNCHANGED ha
    /\ UNCHANGED <<input, result, master, node, net, pidfile, started>>

\* clusterController.ClusterIPNet, err = parseClusterSubnetEntries(...)
\* if err != nil { panic }
ParseClusterSubnet ==
    /\ pc = "parseClusterSubnetEntries"
    /\ \E i \in Inputs :
          /\ input' = i
          /\ result' = ParseClusterSubnetEntries(i)
    /\ IF result'.err = "none" THEN Goto("services") ELSE Exit("exit 2")
    /\ UNCHANGED <<master, node, ha, net, pidfile, started>>

\* service-cluster-ip-range: "" skips net.ParseCIDR; a value it rejects
\* panics.  The --cluster-subnet string is not read again.
ServicesSubnet ==
    /\ pc = "services"
    /\ Goto("StartClusterMaster") \/ Exit("exit 2")
    /\ input' = << >>
    /\ UNCHANGED <<result, master, node, ha, net, pidfile, started>>

\* if master != "": panic on windows, else StartClusterMaster (panic on error)
StartClusterMaster ==
    /\ pc = "StartClusterMaster"
    /\ IF master
         THEN \/ /\ Goto("StartClusterNode")
                 /\ started' = started \cup {"master"}
              \/ Exit("exit 2") /\ UNCHANGED started
         ELSE Goto("StartClusterNode") /\ UNCHANGED started
    /\ UNCHANGED <<input, result, master, node, ha, net, pidfile>>

\* if node != "": panic without config.Kubernetes.Token, else
\* StartClusterNode (panic on error)
StartClusterNode ==
    /\ pc = "StartClusterNode"
    /\ IF node
         THEN \/ /\ Goto("netController")
                 /\ started' = started \cup {"node"}
              \/ Exit("exit 2") /\ UNCHANGED started
         ELSE Goto("netController") /\ UNCHANGED started
    /\ UNCHANGED <<input, result, master, node, ha, net, pidfile>>

\* if netController { if OvnHA { RebuildOVNDatabase } ... }
NetController ==
    /\ pc = "netController"
    /\ Goto(CASE ~net -> "select" [] ha -> "RebuildOVNDatabase" [] OTHER -> "Run")
    /\ UNCHANGED <<input, result, master, node, ha, net, pidfile, started>>

\* err := clusterController.RebuildOVNDatabase(master, ...): panic on error
RebuildOVNDatabase == Call("RebuildOVNDatabase", "Run", "exit 2")

\* if err := ovnController.Run(); err != nil { panic }
Run ==
    /\ pc = "Run"
    /\ \/ Goto("select") /\ started' = started \cup {"net"}
       \/ Exit("exit 2") /\ UNCHANGED started
    /\ UNCHANGED <<input, result, master, node, ha, net, pidfile>>

\* Mutant: only "if master != "" || netController" blocks.
SelectMasterOrNet ==
    /\ pc = "select"
    /\ IF master \/ net
         THEN pc' = "end" /\ status' = "serving"
         ELSE Exit("exit 0")
    /\ UNCHANGED <<input, result, master, node, ha, net, pidfile, started>>

\* select {} when master, net-controller or node is set; else return nil.
Select ==
    /\ pc = "select"
    /\ IF master \/ net \/ node
         THEN pc' = "end" /\ status' = "serving"
         ELSE Exit("exit 0")
    /\ UNCHANGED <<input, result, master, node, ha, net, pidfile, started>>

\* The handler setupPIDFile armed gets SIGTERM or SIGINT: delPidfile, then
\* os.Exit(1), from any later step or while serving.
SignalExit ==
    /\ pidfile
    /\ pc \notin {"InitConfig", "SetExec", "setupPIDFile"}
    /\ status \in {"running", "serving"}
    /\ Exit("exit 1")
    /\ UNCHANGED <<input, result, master, node, ha, net, pidfile, started>>

Next ==
    \/ InitConfig \/ SetExec \/ SetupPIDFile \/ NewClientset \/ NewWatchFactory
    \/ ClusterFlags \/ ParseClusterSubnet \/ ServicesSubnet
    \/ StartClusterMaster \/ StartClusterNode
    \/ NetController \/ RebuildOVNDatabase \/ Run \/ Select
    \/ SignalExit

Spec == Init /\ [][Next]_vars

-----------------------------------------------------------------------------
\* The abstract start: requested from the mode flags, running from the
\* controllers started, and the state from how runOvnKube ended.
Startup == INSTANCE OvnKubeStartup WITH
    requested <- Requested,
    running <- started,
    state <- CASE status = "running" -> "starting"
               [] status = "serving" -> "serving"
               [] status = "exit 0" -> "returned"
               [] OTHER -> "failed"

\* runOvnKube implements OvnKubeStartup: it starts only controllers asked
\* for, keeps running (select {}) only with every controller it was asked
\* for started, and returns nil (exit 0) only when asked for none -- the two
\* "run forever" branches after the mode dispatch; every error return,
\* panic and signal exit is a failure, and a serving process ends only so.
StartupRefinement == Startup!Spec

=============================================================================
