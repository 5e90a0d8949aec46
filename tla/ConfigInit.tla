----------------------------- MODULE ConfigInit -----------------------------
(***************************************************************************)
(* InitConfigWithPath as a whole (pkg/config/config.go), called again and  *)
(* again in one process, with RestoreDefaultConfig between calls or not.   *)
(*                                                                         *)
(* The package globals Default, Logging, CNI and Kubernetes are built by   *)
(* overrideFields over their current value: first the config file section, *)
(* then the command line; Kubernetes first takes the OVS external ids that *)
(* the Defaults flags ask for.  The globals are never reset by the call    *)
(* itself.  Then buildKubernetesConfig checks the kubeconfig and CA paths  *)
(* and the API server URL, and the north and south databases are built by  *)
(* the actions of OvnAuthConfig.                                           *)
(*                                                                         *)
(* conf holds one field of Default (MTU), of Logging (Level) and of CNI   *)
(* (ConfDir), and the checked fields of Kubernetes: every field of a      *)
(* section follows the same overrideFields rule.  An API server URL is     *)
(* the pair <<scheme, rest>> url.Parse splits it into, << >> when "".     *)
(***************************************************************************)
EXTENDS OvnAuthConfig

CONSTANTS
    Builtin,          \* the initial values of the globals (the var blocks)
    CliChoices,       \* cliConfig sections a command line may produce
    FileChoices,      \* cfg sections a parsed config file may hold
    ExtIdChoices,     \* [APIServer, CACert] read from OVS external_ids
    DefaultsChoices,  \* the Defaults argument (nil: every flag FALSE)
    ExistingPaths,    \* paths for which pathExists is true
    OvnCliChoices,    \* cliConfig.OvnNorth / OvnSouth, per direction
    OvnFileChoices    \* cfg.OvnNorth / OvnSouth, per direction

\* The zero value of every modelled field (overrideFields skips it).
ZeroConf == [MTU |-> 0, Level |-> 0, ConfDir |-> "",
             Kubeconfig |-> "", CACert |-> "", APIServer |-> << >>]

PlainFields == {"MTU", "Level", "ConfDir"}
K8sFields == {"Kubeconfig", "CACert", "APIServer"}

VARIABLES
    conf,         \* the globals Default, Logging, CNI, Kubernetes
    cliConf,      \* cliConfig of this call
    cfg,          \* cfg: what gcfg.ReadInto parsed (zero if no file)
    extIds,       \* what getOVSExternalID would return for this call
    defaults,     \* the Defaults argument of this call
    restored,     \* no InitConfig ran since start or RestoreDefaultConfig
    fromRestore   \* the current call started from restored globals

cfgVars == <<conf, cliConf, cfg, extIds, defaults, restored, fromRestore>>
ovnVars == <<cli, file, ovsNb, readAddress, OvnNorth, OvnSouth>>
allVars == <<cfgVars, ovnVars, phase>>

\* overrideFields(&dst, &src) for the fields of one section.
OverrideSection(dst, src, fields) ==
    [f \in DOMAIN dst |->
        IF f \in fields /\ src[f] # ZeroConf[f] THEN src[f] ELSE dst[f]]

\* CommonFlags and K8sFlags: the cliConfig field of each flag of a modelled
\* field (Destination).  The mode, pidfile, config-file, cluster-subnet and
\* service-cluster-ip-range flags have none: runOvnKube reads them.
FlagField ==
    [mtu |-> "MTU", loglevel |-> "Level"] @@ ("cni-conf-dir" :> "ConfDir")
    @@ ("k8s-kubeconfig" :> "Kubeconfig") @@ ("k8s-apiserver" :> "APIServer")
    @@ ("k8s-cacert" :> "CACert")

\* cliConfig.Default, Logging, CNI and Kubernetes after the command line.
CommandLine(args) == ParseFlags(FlagField, ZeroConf, args)

\* pathExists(path) for a path that is not "".
PathExists(p) == p \in ExistingPaths

\* The checks of buildKubernetesConfig after its overrides.
K8sValid(c) ==
    /\ c.Kubeconfig # "" => PathExists(c.Kubeconfig)
    /\ c.CACert # "" => PathExists(c.CACert)
    /\ c.APIServer # << >> /\ c.APIServer[1] \in {"http", "https"}

\* No call of InitConfigWithPath is in progress.
Returned == {"idle", "done", "failed", "k8sfailed"}

CfgVarsInit ==
    /\ conf = Builtin
    /\ cliConf = ZeroConf
    /\ cfg = ZeroConf
    /\ extIds = [APIServer |-> << >>, CACert |-> ""]
    /\ defaults = [OvnNorthAddress |-> FALSE, K8sAPIServer |-> FALSE, K8sCert |-> FALSE]
    /\ restored = TRUE
    /\ fromRestore = TRUE

CfgInit ==
    /\ CfgVarsInit
    /\ cli = [d \in Dirs |-> ZeroRaw]
    /\ file = [d \in Dirs |-> ZeroRaw]
    /\ ovsNb = << >>
    /\ readAddress = FALSE
    /\ OvnNorth = NoAuth
    /\ OvnSouth = NoAuth
    /\ phase = "idle"

-----------------------------------------------------------------------------
\* InitConfigWithPath up to the overrides: the command line is parsed, the
\* config file is opened and parsed.  A default path that does not exist
\* gives an empty cfg; an explicit path that does not exist, or a file gcfg
\* cannot parse, returns an error before any global changes.
OpenConfig ==
    /\ phase \in Returned
    /\ \E c \in CliChoices, ovnCli \in OvnCliChoices,
          d \in DefaultsChoices, x \in ExtIdChoices, nb \in OvsNbChoices :
          /\ cliConf' = c
          /\ cli' = ovnCli
          /\ defaults' = d
          /\ extIds' = x
          /\ ovsNb' = nb
          /\ readAddress' = d.OvnNorthAddress
    /\ \/ \E f \in FileChoices, ovnFile \in OvnFileChoices :
             /\ cfg' = f
             /\ file' = ovnFile
             /\ phase' = "plain"
       \/ /\ cfg' = ZeroConf
          /\ file' = [d \in Dirs |-> ZeroRaw]
          /\ phase' \in {"plain", "failed"}
    /\ fromRestore' = restored
    /\ restored' = FALSE
    /\ UNCHANGED <<conf, OvnNorth, OvnSouth>>

\* overrideFields for Default, then CNI, then Logging, file before command
\* line; the log file is set up with every error ignored.
OverridePlain ==
    /\ phase = "plain"
    /\ conf' = OverrideSection(OverrideSection(conf, cfg, PlainFields),
                               cliConf, PlainFields)
    /\ phase' = "k8s"
    /\ UNCHANGED <<cliConf, cfg, extIds, defaults, restored, fromRestore>>
    /\ UNCHANGED ovnVars

\* buildKubernetesConfig(exec, &cliConfig, &cfg, defaults)
BuildKubernetesConfig ==
    /\ phase = "k8s"
    /\ LET withExt == [conf EXCEPT
                         !.APIServer = IF defaults.K8sAPIServer
                                         THEN extIds.APIServer ELSE @,
                         !.CACert = IF defaults.K8sCert
                                      THEN extIds.CACert ELSE @]
           built == OverrideSection(OverrideSection(withExt, cfg, K8sFields),
                                    cliConf, K8sFields)
       IN /\ conf' = built
          /\ phase' = IF K8sValid(built) THEN "nb" ELSE "k8sfailed"
    /\ UNCHANGED <<cliConf, cfg, extIds, defaults, restored, fromRestore>>
    /\ UNCHANGED ovnVars

\* OvnNorth, err = buildOvnAuth(...); OvnSouth, err = buildOvnAuth(...)
North == BuildNorth /\ UNCHANGED cfgVars
South == BuildSouth /\ UNCHANGED cfgVars

\* init(): savedDefault, savedLogging, savedCNI and savedKubernetes are the
\* globals before any InitConfig, the var blocks' values; savedOvnNorth and
\* savedOvnSouth are zero.
SavedConf == Builtin
SavedOvn == NoAuth

\* Mutant: the Kubernetes global is not restored.
RestoreDefaultConfigKeepK8s ==
    /\ phase \in Returned
    /\ conf' = [f \in DOMAIN conf |-> IF f \in K8sFields THEN conf[f] ELSE SavedConf[f]]
    /\ OvnNorth' = SavedOvn
    /\ OvnSouth' = SavedOvn
    /\ restored' = TRUE
    /\ phase' = "idle"
    /\ UNCHANGED <<cliConf, cfg, extIds, defaults, fromRestore>>
    /\ UNCHANGED <<cli, file, ovsNb, readAddress>>

\* RestoreDefaultConfig: every global back to its saved initial value.
RestoreDefaultConfig ==
    /\ phase \in Returned
    /\ conf' = SavedConf
    /\ OvnNorth' = SavedOvn
    /\ OvnSouth' = SavedOvn
    /\ restored' = TRUE
    /\ phase' = "idle"
    /\ UNCHANGED <<cliConf, cfg, extIds, defaults, fromRestore>>
    /\ UNCHANGED <<cli, file, ovsNb, readAddress>>

CfgNext ==
    \/ OpenConfig \/ OverridePlain \/ BuildKubernetesConfig
    \/ North \/ South \/ RestoreDefaultConfig

CfgSpec == CfgInit /\ [][CfgNext]_allVars

-----------------------------------------------------------------------------
\* The value spec.md section 6 gives a field: the highest of command line,
\* config file, discovered external id (only when asked for and set) and
\* built-in default.
Layered(f) ==
    LET discovered ==
          CASE f = "APIServer" /\ defaults.K8sAPIServer -> extIds.APIServer
            [] f = "CACert" /\ defaults.K8sCert -> extIds.CACert
            [] OTHER -> ZeroConf[f]
        layers == << cliConf[f], cfg[f], discovered, Builtin[f] >>
        set == {i \in 1..4 : layers[i] # ZeroConf[f]}
    IN IF set = {} THEN ZeroConf[f] ELSE layers[Min(set)]

\* Discovery of the API server was asked for and OVS has no k8s-api-server
\* id: getOVSExternalID returns "" and buildKubernetesConfig stores it over
\* the built-in server, where spec.md section 6 keeps the default.  The
\* property below leaves this case to the hazard list.
UnsetAPIServerId == defaults.K8sAPIServer /\ extIds.APIServer = << >>

\* An InitConfig call that started from the built-in globals (the first in
\* the process, or the first after RestoreDefaultConfig, as every unit test
\* does) and got past buildKubernetesConfig has left every global at the
\* value of its highest layer, and such a call fails in
\* buildKubernetesConfig only when the layered Kubernetes values are
\* invalid: the overrideFields chains over the globals, the external-id
\* defaults, and RestoreDefaultConfig resetting every global that a
\* previous call changed.  A call that asked for an API server id OVS does
\* not have is left out (UnsetAPIServerId).
LayeredWhenFresh ==
    fromRestore /\ ~UnsetAPIServerId =>
        /\ phase \in {"nb", "sb", "done"} =>
              \A f \in DOMAIN conf : conf[f] = Layered(f)
        /\ phase = "k8sfailed" =>
              ~K8sValid([f \in DOMAIN conf |-> Layered(f)])

\* Within a call, each database global is built from that call's layers
\* alone: once north is built it is newOvnDBAuth of the highest layer of
\* each field (command line, file, the ovn-nb external id when asked for,
\* the default ssl paths of an ssl address), and so is south once the call
\* returns nil -- whatever earlier calls left in the globals.
OvnLayered ==
    /\ phase \in {"sb", "done"} => OvnNorth = Effective("nb", readAddress)
    /\ phase = "done" => OvnSouth = Effective("sb", FALSE)

=============================================================================
