# TLA+ models of ovnkube's startup, configuration and node plumbing

This directory holds TLA+ models of the ovn-kubernetes `ovnkube` binary. It
covers the parts whose code is in this repository snapshot:

* `go-controller/cmd/ovnkube/ovnkube.go`: `main`, `runOvnKube`, the pidfile
  protocol, and `parseClusterSubnetEntries`.
* `go-controller/pkg/config/config.go`, lines 1-893: the layered
  configuration (`InitConfigWithPath`) and the OVN database connection
  (`OvnDBAuth`).
* `go-controller/pkg/config/config.go`, lines 894-1172: a second Go file that
  was concatenated onto the same path, the node management port
  (`CreateManagementPort`, `configureManagementPort`).
* `config_test.go`: the unit tests. They are not modelled. They are read for
  the behaviour they expect.

`spec.md` describes a larger system (allocators and reconcilers). The source
of those parts is not in `src/`. They are modelled from the spec only where
they interact with code that is in `src/`, and every such definition is marked
`spec_modelled` in `PROJECT.json`.

## 1. Inventory

### Components, their state and operations

| Component | Source | State | Operations |
|---|---|---|---|
| **PidFile**: single-instance guard | ovnkube.go 108-176 | the pidfile on disk (absent, empty, or holding a pid); `/proc/<pid>` liveness; per process: main goroutine position, SIGTERM-handler goroutine, open fd | `setupPIDFile` (install handler, stat, write or read + /proc check, exit), `delPidfile` (stat + remove), deferred `delPidfile` on return or panic, the SIGTERM handler |
| **Supervisor**: `runOvnKube` lifecycle | ovnkube.go 157-270 | mode flags (master / node / net-controller / ha), phase | InitConfig, SetExec, pidfile, clientset, watch factory, StartClusterMaster, StartClusterNode (needs a token), RebuildOVNDatabase (ha), ovnController.Run, block forever |
| **ClusterSubnet parser** | ovnkube.go 272-324 | pure function | split on `,`, then on `/`; host-subnet length defaults to 24; `net.ParseCIDR` masks host bits; rejects an entry that overlaps an earlier one (`cidrsOverlap`) |
| **Config layering** | config.go 20-211, 503-683 | globals `Default`, `Logging`, `CNI`, `Kubernetes`, `OvnNorth`, `OvnSouth`; saved copies for tests | `overrideFields` (a non-zero source field wins), `buildKubernetesConfig`, `buildOvnAuth`, `InitConfigWithPath`, `RestoreDefaultConfig` |
| **OvnDBAuth address parser** | config.go 707-787 | pure function | strip `//`, split on `,` and `:`, require one scheme, require an IP host, build `OvnAddressForClient`, check certificates against the scheme |
| **OvnDBAuth setup** | config.go 451-501, 789-893 | OVS `external_ids` (`ovn-nb`, `ovn-remote`), the OVS SSL settings, the CA file | `SetDBAuth` (check key and cert, bootstrap the CA, then for SB `del-ssl` and `set-ssl`, then set the external id), `updateIP`, `UpdateOvnNodeAuth` |
| **ManagementPort** | config.go 913-1172 | host interface (up, addresses), routes for each cluster subnet and for the services subnet, neighbour entry for the router IP, OVS `br-int` port, NB logical port `k8s-<node>` | `CreateManagementPort`, `configureManagementPort` (Linux and Windows) |
| **IPAM / reconcilers** (spec only) | spec.md §4.1, §4.4, §4.5 | host-subnet bitmap, per-node address bitmap | allocate, reserve, release. Not modelled: their code is not in `src/` |
| **Vagrant provisioning script** | unnamed/part_000 | none | shell bring-up of a test cluster. Not modelled: its branches are hand-edited knobs, and the ovnkube command line it builds has the forms the parser and `RunOvnKube` runs already cover |

### How they interact

`main` calls `runOvnKube`. `runOvnKube` calls `config.InitConfig` first. That
call fills the package globals, and every later step reads them. It then
calls `setupPIDFile` and arms a SIGTERM handler goroutine. That goroutine
runs concurrently with the rest of startup. `runOvnKube` also parses
`cluster-subnet` and finally starts the cluster master, the cluster node, or
the net controller. Those components live outside this snapshot. They call
`OvnDBAuth.SetDBAuth`, `UpdateOvnNodeAuth` and `CreateManagementPort`.
Two ovnkube processes can start at the same moment, for example under a
supervisor restart or when an operator starts one by hand. They share only
the pidfile and `/proc`.

### Hard behaviours

* **Concurrency.** The pidfile check-then-write is run by several processes.
  Inside one process, the SIGTERM handler goroutine races the main
  goroutine's `WriteFile`.
* **Crash and restart.** A SIGKILL or `os.Exit` can land between the
  truncate and the write of `ioutil.WriteFile`. `/proc/<pid>` can belong to
  an unrelated process after pid reuse. A rerun of `configureManagementPort`
  can start from partial state that an earlier run left behind.
* **Partial failure.** `SetDBAuth` runs `del-ssl` before `set-ssl`.
  `UpdateOvnNodeAuth` updates north before south.
* **Zero values and parsing.** In `overrideFields`, a zero value never
  overrides a lower layer. The address parser splits on `:`. `updateIP`
  rebuilds the address string by hand.

### What makes each component correct

* PidFile: at most one ovnkube runs per pidfile. A start is refused only
  while another ovnkube is alive.
* ClusterSubnet: the accepted entries are pairwise disjoint. Each
  host-subnet length lies between the entry's prefix length and the address
  width (spec §3).
* Config: the effective value of each field comes from the highest layer
  that sets it: defaults < OVS external ids < file < CLI (spec §6).
* OvnDBAuth parser: it accepts exactly the well-formed single-scheme
  tcp/ssl lists. Its output is their `scheme:ip:port` normal form. An ssl
  address without client certificates is a ConfigError (spec §8 S6).
* OvnDBAuth setup: `ovn-remote` never names an ssl database unless OVS holds
  the SSL key and cert. `updateIP` yields a parseable address.
* ManagementPort: after a successful run, the host routes each cluster
  subnet via the router IP, and its neighbour entry maps the router IP to
  the current router MAC, even if an earlier run failed part-way.
  Management and router addresses never coincide with an endpoint address
  (spec §3).

## 2. Plan

Each item is one module with its MC module and cfgs. Status is in brackets.

1. `PidFile`: the single-instance protocol with several processes, signal
   handlers and SIGKILL. (built)
2. `SingleInstance`: the abstract lock that `PidFile` refines. (built)
2a. `OvnKubeStartup`: the abstract start of ovnkube that `RunOvnKube`
   refines. (built)
3. `OvnAddress` and `ParseOvnAddress`: the pure `newOvnDBAuth` parser over a
   token model of the address string, checked against a reference grammar.
   (built)
4. `OvnAuthConfig`: the `buildOvnAuth` layering. (built)
5. `ConfigInit`: the whole `InitConfigWithPath` pipeline and
   `RestoreDefaultConfig`. It composes `OvnAuthConfig`. (built)
6. `ClusterSubnet`: `parseClusterSubnetEntries` and `cidrsOverlap` as
   operators. (built)
7. `RunOvnKube`: `runOvnKube` and its exit status. It composes
   `ClusterSubnet` and refines `OvnKubeStartup`. (built)
8. `DBAuthSetup`: `SetDBAuth` and `UpdateOvnNodeAuth` as steps on OVS
   state. (built)
9. `ManagementPort` and `ManagementPortWindows`: the host interface, routes
   and neighbour state under bounded faults. (built)
10. `Ipam`: the spec-modelled allocator composed with `ManagementPort`'s
    choice of addresses. (not built: its code is not in `src/`)

## 3. Modules

| Module | Models | State (VARIABLES) | Actions |
|---|---|---|---|
| `PidFile` | `setupPIDFile`, `delPidfile`, the SIGTERM goroutine, the deferred `delPidfile` (ovnkube.go 108-176) | `pidfile` (Absent, Empty or a pid), per process `pc`, `handler`, `linked` (the open fd still names the file), `readPid` | `Start`, `StatPidfile`, `OpenPidfile`, `WritePid`, `ReadPidfile`, `ProcAlive`/`ProcStale`, `StartupPanics`, `DelStat`/`DelRemove`, `Signal`, `HandlerStat`/`HandlerRemove`, `Kill` |
| `SingleInstance` | what `--pidfile` promises: an abstract lock | `owner` | `Acquire(i)`, `Release(i)` |
| `OvnKubeStartup` | what the start of ovnkube promises, as an abstract spec | `requested`, `running`, `state` | `StartController(m)`, `Serve`, `Return`, `Fail` |
| `OvnAddress` | `newOvnDBAuth` (config.go 707-787), as operators | none | `Split`, `DropDoubleSlash`, `Join`, `ParseEntries` (RECURSIVE), `NewOvnDBAuth`; the reference `ReferenceParse` / `ReferenceAddress` |
| `ParseOvnAddress` | one call of `newOvnDBAuth` over every input of a bounded set | `input`, `result` | `Parse` |
| `OvnAuthConfig` | `buildOvnAuth` and the north-then-south calls of `InitConfigWithPath` (config.go 182-211, 537-567, 666-674) | `cli`, `file`, `ovsNb`, `readAddress`, `OvnNorth`, `OvnSouth`, `phase` | `BuildNorth`, `BuildSouth`; the abstract view `Effective` (highest layer that sets each field) |
| `ConfigInit` | `InitConfigWithPath` end to end, `buildKubernetesConfig`, `RestoreDefaultConfig` (config.go 20-211, 503-683) | those of `OvnAuthConfig`, plus `conf` (the Default, Logging, CNI and Kubernetes globals), `cliConf`, `cfg`, `extIds`, `defaults`, and the history variables `restored`, `fromRestore` | `OpenConfig`, `OverridePlain`, `BuildKubernetesConfig`, `North`, `South`, `RestoreDefaultConfig` |
| `ClusterSubnet` | `parseClusterSubnetEntries`, `cidrsOverlap` (ovnkube.go 275-324), as operators, and their reference | `input`, `result` | none of its own |
| `RunOvnKube` | `runOvnKube` (ovnkube.go 157-270), the `setupPIDFile` signal handler (118-125) and `main`'s exit status (101-104) | `input`, `result`, `pc`, `master`, `node`, `ha`, `net`, `pidfile`, `started`, `status` | `InitConfig`, `SetExec`, `SetupPIDFile`, `NewClientset`, `NewWatchFactory`, `ClusterFlags`, `ParseClusterSubnet`, `ServicesSubnet`, `StartClusterMaster`, `StartClusterNode`, `NetController`, `RebuildOVNDatabase`, `Run`, `Select`, `SignalExit` |
| `DBAuthSetup` | `SetDBAuth`, `ensureCACert`, `updateIP`, `UpdateOvnNodeAuth` (config.go 468-501, 699-705, 789-893) | `config`, `auth` (the live `OvnNorth`/`OvnSouth` client auth), `files` on disk, OVS `extIds`, the OVS SSL record `ovsSsl`, `pc` | `SetDBAuth(d)`, `EnsureCACert`, `DelSsl`, `SetSsl`, `SetExternalID`, `UpdateOvnNodeAuth(ip)`, `Restart` |
| `ManagementPort` | `CreateManagementPort` and the Linux branch of `configureManagementPort` (config.go 1025-1172) | `subnet`, `services`, `brInt`, `portMac`, NB `lsp`, `routerMac` of `stor-<node>`, `linkUp`, `addrs`, `routes`, `neigh`, `pc`, `k` (route loop index), `readMac`, `faults` | `AddBr`, `AddPort`, `GetMac`, `LspAdd`, `GetRouterMac`, `LinkUp`, `AddrFlush`, `AddrAdd`, `RouteFlush`, `RouteAdd`, `NeighAdd`; `Retry`; environment `CmdFails`, `Crash`, `ChangeRouterMac` |
| `ManagementPortWindows` | `configureManagementPortWindows` (config.go 913-1023) | as `ManagementPort` | `WinUp`, `GetAddr`, `RemoveAddr`, `NewAddr`, `WinRoute` |

Each `MC*` module gives the constants small values. The Go strings are
abstracted as follows:
* an address string is a sequence of tokens (separators and opaque words);
* IPs are small integers or model strings;
* a failing command is a disjunct that ends the call with an error.

How the actions correspond to the code:

* **One step per command.** Every external command (`ovs-vsctl`,
  `ovn-nbctl`, `ip`, PowerShell, `route`) is its own step. The model can
  therefore interleave a restart, or a change by the master, between any two
  of them.
* **Failing commands.** `VsctlMayFail` (in `DBAuthSetup`) and `CmdMayFail`
  (in `ManagementPort`) switch failures on. In `ManagementPort` a failure
  is the action `CmdFails`. It can fire at any command step, and it is
  bounded by `MaxFaults` together with `Crash`.
* **Fixed outcomes.** An outcome that the command's semantics fixes is not
  modelled as an optional failure. Two examples: `ip addr add` of an
  existing address always fails with EEXIST, and `ip neigh add` over an
  existing entry fails but its error is ignored.
* **Restarts.** In `ManagementPort` there are two kinds of rerun, with a
  possibly different host subnet:
  * `Retry` reruns a call that returned an error, as the restarted node
    does;
  * `Crash` is the process killed mid-call.

  OVS, the northbound database, files and kernel state survive either.
* **Layers.** In `ConfigInit`, one field stands for each of Default, Logging
  and CNI, because all their fields follow the same `overrideFields` rule.
  The Kubernetes fields are the ones that `buildKubernetesConfig` checks.
  `fromRestore` records whether the current call started from the built-in
  globals.
* **Command line.** A command line is a function from flag name to value.
  `CommandLine` and `OvnCommandLine` turn it into `cliConfig` through the
  `Destination` tables of `CommonFlags`, `K8sFlags`, `OvnNBFlags` and
  `OvnSBFlags` (`FlagField`, `OvnFlagField`). A flag that is not given
  leaves its field at zero, and a flag of a field that is not modelled
  changes nothing modelled. `RestoreDefaultConfig` restores the copies that
  `init()` saved (`SavedConf`, `SavedOvn`).
* **Flags.** In `RunOvnKube`, the mode flags (`--init-master`,
  `--init-node`, `--net-controller`) are fixed in `Init`. The other flags
  are chosen at the statement that first reads them, because nothing
  earlier depends on them. The
  cluster-subnet string is dropped once it has been parsed. Calls into code
  outside the snapshot either succeed or fail.

### Refinement

`PidFile` defines `Owner`: the one process that is past `setupPIDFile`, or
`Absent` when there is none. It maps that value to `SingleInstance`'s
`owner` and checks `LockRefinement == Lock!Spec` as a property. Every
`PidFile` step is then either `Acquire`, `Release`, or a stutter of the
lock.

The refinement holds with starts one at a time (`Sequential`), a writable
pidfile, and stops only after setup. It does not hold if any of these is
dropped:
* with concurrent starts, the stat-then-write check lets two processes own
  the lock;
* with a SIGTERM during setup, `pidfile_sigterm_during_setup` fails;
* with a failing open, a process runs without a pidfile.

`RunOvnKube` maps its state onto `OvnKubeStartup`, and checks
`StartupRefinement == Startup!Spec` as a property:
* `requested` is the set of modes given on the command line;
* `running` is the set of controllers started;
* `state` is `starting` while running, then `serving` at `select {}`,
  `returned` at exit 0, or `failed` for any error return, panic or
  signal-handler exit.

The abstract spec starts only controllers that were asked for. It serves
only once every one of them runs, and it returns only when none was asked
for. A serving process never returns: `Fail` is its only way out,
which is the `--pidfile` handler's `os.Exit(1)`. Without `--pidfile`, Go's
default handling kills the process on SIGTERM, which this model leaves out.

## 4. Runs

| Run | Expect | What it shows |
|---|---|---|
| `pidfile_restart` | pass | Three processes, sequential starts, kills, SIGTERMs and panics after setup, and a failing pidfile open. `NoFalseRefusal`: a start is refused only while another ovnkube lives. `Progress`: a start made while no other ovnkube is alive eventually leads to a running ovnkube. |
| `pidfile_lock` | pass | Under the same one-at-a-time starts, with a writable pidfile and stops only after setup, `PidFile` implements `SingleInstance` (`LockRefinement`). |
| `pidfile_sigterm_during_setup` | violation | A SIGTERM to a second process that is still in `setupPIDFile` runs `delPidfile` on the running owner's pidfile. The next start then runs beside the owner (`MutualExclusion`). |
| `pidfile_kill_during_setup` | violation | A kill between WriteFile's truncate and its write leaves an empty pidfile. `/proc//cmdline` always exists, so every later start is refused (`NoFalseRefusal`). |
| `ovnaddress_parse` | violation | Over every one- and two-entry string of 3 schemes, 3 separators, 2 IPs, a DNS name, an empty host, and a port that is present, missing, or empty after its `:`, with 4 certificate choices, `newOvnDBAuth` is compared with the reference grammar (`ParserMatchesReference`). The reference asks every entry for a port, as `config_test.go`'s "the OVN URL has no port" does. TLC finds `tcp://1.2.3.4:` accepted, with client address `tcp:1.2.3.4:`. |
| `config_init` | pass | `InitConfig` is called repeatedly, with and without `RestoreDefaultConfig` in between. `LayeredWhenFresh`: a call that starts from the built-in globals leaves every Default, Logging, CNI and Kubernetes field at its highest layer, and fails in `buildKubernetesConfig` only when the layered values are invalid. `OvnLayered`: every call builds north and south from its own layers. The OVS external ids may be set or missing. A call that asked for a missing API server id is left out of `LayeredWhenFresh` by name (`UnsetAPIServerId`); see the hazards. |
| `runovnkube_startup` | pass | Over every outcome of the startup calls, every mode combination and every one- or two-entry `--cluster-subnet` on 3-bit addresses: the parser accepts exactly the well-formed, pairwise disjoint lists (`ParserMatchesReference`). `runOvnKube` implements `OvnKubeStartup` (`StartupRefinement`): it serves only with every requested controller started, returns nil only when none was requested, and otherwise fails. With `--pidfile`, the signal handler may exit with status 1 at any later step, serving included; a serving process can only end that way. |
| `dbauth_setup` | pass | Across SetDBAuth calls, failing ovs-vsctl calls and restarts, and `UpdateOvnNodeAuth`, the process goes on only with both database addresses at InitConfig's values, or both moved to one master (`NoHalfMovedAuth`). When south cannot be updated because it lists two masters, north has already moved, the error is returned, and the process restarts. |
| `dbauth_ssl_reset` | violation | A repeated SetDBAuth for south runs `del-ssl` while `ovn-remote` already names the ssl database. A failed `set-ssl` leaves it without SSL settings (`SslRemoteHasSslSettings`). |
| `dbauth_update_ip` | violation | UpdateOvnNodeAuth turns `tcp:1.2.3.4:6641` into `tcp:6.5.4.36641`, and SetDBAuth writes it to OVS (`ExternalIdsParse`). |
| `mgmtport_linux` | pass | Up to three faults: failed commands, kills, restarts with another subnet, router MAC changes. `ConfiguredWhenDone`: when CreateManagementPort returns nil, the interface is up with exactly this run's address, every cluster and service subnet is routed only via this run's router IP, and the NB port advertises the interface's MAC and address. `EventuallyConfigured`: once the faults stop, the retried call ends configured for good. |
| `mgmtport_windows_routes` | violation | The `ConfiguredWhenDone` property on Windows. After a restart with a new subnet, the route via the old router IP stays, because `route print` finds the destination. |

Each property of a passing run has a mutant in `PROJECT.json`. A mutant is
a plausible bug in the mapped definition, and TLC finds the property
violated under the run's cfg. The mutants are:

* the `/proc` check accepting any pid;
* the stat result inverted;
* a pid read with a trailing newline;
* overrideFields without the zero test;
* `RestoreDefaultConfig` not restoring Kubernetes;
* a one-way overlap test;
* only the master / net-controller `select` blocking;
* UpdateOvnNodeAuth not returning a south error;
* an address flush that removes nothing;
* a route flush that removes nothing.

Some divergences are reproducible but are kept as hazards in
`PROJECT.json`, not as runs:
* **Concurrent starts.** With `Sequential = FALSE`, `MutualExclusion` fails
  at the stat-then-write window.
* **Empty external id.** With `K8sAPIServer` asked for and no
  `k8s-api-server` external id, `""` overwrites the built-in API server.
  `config_init` reaches this case. To see the violation, drop the
  `~UnsetAPIServerId` conjunct of `LayeredWhenFresh`.

## 5. Bounds

* **PidFile.**
  * Three processes are enough for `Progress`, which needs a dead writer, a
    refused start and a third start.
  * The stop points are every position (kill and SIGTERM runs) or only after
    setup (restart and lock runs).
* **Parsers.**
  * Addresses have two entries. That shows order, mixed schemes and the
    separator between entries.
  * `ClusterSubnet` uses 3-bit addresses with prefixes 0-4, where 4 is
    invalid. That covers nested, equal, adjacent and disjoint CIDRs in both
    orders.
* **ConfigInit.** The choices are small, with each layer able to set or
  leave each field:
  * four command lines, given as flags: none; `-mtu` with an https
    `-k8s-apiserver`; `-k8s-kubeconfig` with `-encap-type`; and a
    scheme-less server;
  * three config files: empty, set with an existing CA, and a missing CA;
  * external ids set, missing (`""`), or not asked for;
  * two OVN command lines and three OVN files.

  Calls repeat without bound, because the state is finite.
* **RunOvnKube.** Every flag combination is covered, and every call can
  succeed or fail. The cluster subnet uses the `ClusterSubnet` bounds.
* **DBAuthSetup.**
  * There are two IPs, two ports, and one master IP for `UpdateOvnNodeAuth`.
  * Six certificate files exist or not independently.
* **ManagementPort.**
  * Two /29 host subnets, one cluster subnet, a services subnet that is set
    or not, two router MACs, and one port MAC.
  * `MaxFaults` is 3 on Linux and 1 on Windows. Three faults is enough for
    a failure, a crash and a subnet change in one behaviour.
* **Run sizes.** Every passing run finishes within about a minute, with
  between about 5,000 and 300,000 distinct states.

## 6. Fairness

* **`PidFile`.** Its fairness is weak fairness of each process's
  main-goroutine steps and handler steps. The justification is that a live
  goroutine is scheduled and a file-system call returns. Kills, signals,
  panics and new starts are not fair. `Progress` holds only for a start
  made while no other ovnkube is alive. `Sequential = TRUE` serialises the
  entries into `setupPIDFile`, as a supervisor's one-at-a-time restart does.
* **`ManagementPort`.** Its fairness is weak fairness of the create and
  configure steps, and of `Retry`. A command that is not failed does
  return, and a node whose `CreateManagementPort` returned an error is
  restarted, because `runOvnKube` panics and the kubelet restarts the pod.
  `CmdFails`, `Crash` and `ChangeRouterMac` are not fair, and they are
  bounded by `MaxFaults`. That is why `EventuallyConfigured` is
  `<>[](pc = "done")`: it holds once the faults run out.
* **Other modules.** They check safety only. `RunOvnKube` and `ConfigInit`
  run to an end state without any fairness argument that adds something.

## 7. Not modelled

* **What the master, node and net controller do once started.** That code
  is not in this snapshot. `RunOvnKube` only records that each one started.
* **The Kubernetes `Token` and the log file.** The log file's errors are
  ignored. `Token` is only read by the node's token check, which is a
  nondeterministic panic in `RunOvnKube`.
* **The IPAM allocator and reconcilers of spec.md.** Their code is not in
  `src/`.
* **The Vagrant script** (`src/unnamed/part_000`). Its branches are knobs
  that are edited by hand. The connection strings and flags it passes to
  ovnkube have the forms that the `ovnaddress_parse` and
  `runovnkube_startup` inputs already cover.
* **Pid reuse by an unrelated program.** It is one more way to violate
  `NoFalseRefusal`, and it is listed as a hazard.
* **The Windows all-zero MAC refetch, and the MTU and interface-index
  commands.** The last two are folded into `NewAddr` as commands that may
  fail.
* **Host-subnet lengths.** `parseClusterSubnetEntries` does not check the
  spec's bound on host-subnet lengths, and the cluster-subnet reference
  does not state it yet.
* **Exit codes.** A configuration error that panics exits with status 2,
  where spec.md §6 gives 1. `RunOvnKube` models the statuses, and the
  divergence is listed as a hazard.

## 8. Findings

| Where | Kind | What |
|---|---|---|
| ovnkube.go:122 | code bug | The SIGTERM handler of a process still in `setupPIDFile` removes the running owner's pidfile, and the next start runs beside the owner (`pidfile_sigterm_during_setup`). |
| ovnkube.go:142 | code bug | An empty pidfile makes every later start fail, because `/proc//cmdline` always exists. |
| config.go:850 | code bug | `del-ssl` and `set-ssl` are two commands issued after `ovn-remote` is already ssl. A failure in between leaves ovn-controller with no SSL settings. |
| config.go:748 | divergence | `newOvnDBAuth` accepts an entry with an empty port, such as `tcp://1.2.3.4:` (`ovnaddress_parse`). |
| config.go:876 | code bug | `updateIP` drops the `:` before the port. |
| config.go:979 | code bug | On Windows, a route to a cluster subnet via a stale router IP is kept after the host subnet changes. |

`PROJECT.json` lists these findings with their runs. Its `hazards` list
names every place where a test would hardly reach the behaviour, and the
property that covers each one. It also covers the concurrent-start race
(ovnkube.go:128), the default ssl paths (config.go:550), the master started
before the node's token check (ovnkube.go:235), and the half-moved database
addresses of `UpdateOvnNodeAuth` (config.go:887, `NoHalfMovedAuth`).
