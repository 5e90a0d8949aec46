----------------------------- MODULE DBAuthSetup -----------------------------
(***************************************************************************)
(* OvnDBAuth.SetDBAuth, ensureCACert, updateIP and UpdateOvnNodeAuth       *)
(* (pkg/config/config.go): what a node writes into the local Open_vSwitch  *)
(* database so that ovn-controller reaches the OVN databases.              *)
(*                                                                         *)
(* The callers (the cluster node code) are not in this repository, so any *)
(* call may come at any time from an idle process.  Each ovs-vsctl call is *)
(* a step of its own and may fail; a failed call makes the caller return   *)
(* an error, and runOvnKube panics on it.  The process may die at any step *)
(* and is restarted with the OvnDBAuth values InitConfig builds again; OVS *)
(* and the files on disk persist.                                          *)
(***************************************************************************)
EXTENDS OvnAddress

CONSTANTS
    AuthChoices,  \* AuthChoices[dir]: OvnDBAuth values InitConfig may build
    CertFiles,    \* the client key, certificate and CA paths they name
    MasterIPs,    \* IPs UpdateOvnNodeAuth may be given
    VsctlMayFail  \* TRUE: an ovs-vsctl call may return an error

ASSUME VsctlMayFail \in BOOLEAN

Dirs == {"nb", "sb"}

\* ctlCmd of each OvnDBAuth ("ovn-" + direction + "ctl" in buildOvnAuth)
CtlCmd == [nb |-> "ovn-nbctl", sb |-> "ovn-sbctl"]

Steps == {"ca", "delssl", "setssl", "extid"}

\* The process outside SetDBAuth: between calls, or after a call returned an
\* error (runOvnKube then panics).
Idle == [dir |-> "none", step |-> "idle"]
Failed == [dir |-> "none", step |-> "failed"]

NoSsl == << >>

VARIABLES
    config,     \* config[dir]: the ClientAuth InitConfig built at start-up
    auth,       \* auth[dir]: OvnNorth.ClientAuth / OvnSouth.ClientAuth now
    files,      \* the paths of CertFiles that exist on disk
    extIds,     \* extIds[dir]: Open_vSwitch external_ids:ovn-nb / ovn-remote
    ovsSsl,     \* the Open_vSwitch SSL record: NoSsl or <<key, cert, ca>>
    pc          \* Idle, Failed, or [dir, step] inside SetDBAuth(dir)

vars == <<config, auth, files, extIds, ovsSsl, pc>>

\* pathExists(path)
PathExists(path) == path \in files

IsSsl(a) == a.scheme = << "ssl" >>

\* One ovs-vsctl invocation: either it succeeds or, when calls may fail, it
\* returns an error and the surrounding function returns it.
VsctlFails == VsctlMayFail /\ pc' = Failed

TypeOK ==
    /\ \A d \in Dirs : config[d] \in AuthChoices[d]
    /\ files \subseteq CertFiles
    /\ ovsSsl = NoSsl \/ ovsSsl \in CertFiles \X CertFiles \X CertFiles
    /\ pc \in {Idle, Failed} \cup [dir : Dirs, step : Steps]

Init ==
    /\ config \in {c \in [Dirs -> UNION {AuthChoices[d] : d \in Dirs}] :
                      \A d \in Dirs : c[d] \in AuthChoices[d]}
    /\ auth = config
    /\ files \in SUBSET CertFiles
    /\ extIds = [d \in Dirs |-> << >>]
    /\ ovsSsl = NoSsl
    /\ pc = Idle

-----------------------------------------------------------------------------
(***************************************************************************)
(* SetDBAuth: for the unix scheme it returns at once and changes nothing   *)
(* (a stuttering step).  For ssl the key and certificate must exist; then  *)
(* ensureCACert; for the south database del-ssl and set-ssl; last the      *)
(* external id.                                                            *)
(***************************************************************************)
SetDBAuth(d) ==
    /\ pc = Idle
    /\ auth[d].scheme # << "unix" >>
    /\ pc' = CASE ~IsSsl(auth[d]) -> [dir |-> d, step |-> "extid"]
               [] ~PathExists(auth[d].certs[1]) \/ ~PathExists(auth[d].certs[2]) -> Failed
               [] OTHER -> [dir |-> d, step |-> "ca"]
    /\ UNCHANGED <<config, auth, files, extIds, ovsSsl>>

\* if a.Scheme == OvnDBSchemeSSL { ensureCACert; if a.ctlCmd == "ovn-sbctl" ... }
\* ensureCACert: nothing if the CA file exists, else "ovn-nbctl
\* --bootstrap-ca-cert" against the database, which may or may not leave
\* the file; its result is ignored and ensureCACert returns nil.
EnsureCACert ==
    /\ pc \in [dir : Dirs, step : {"ca"}]
    /\ LET d == pc.dir
           ca == auth[d].certs[3]
       IN /\ files' \in IF PathExists(ca) THEN {files} ELSE {files, files \cup {ca}}
          /\ pc' = [pc EXCEPT !.step = IF CtlCmd[d] = "ovn-sbctl" THEN "delssl" ELSE "extid"]
    /\ UNCHANGED <<config, auth, extIds, ovsSsl>>

\* runOVSVsctl(a.exec, "del-ssl")
DelSsl ==
    /\ pc \in [dir : Dirs, step : {"delssl"}]
    /\ \/ /\ ovsSsl' = NoSsl
          /\ pc' = [pc EXCEPT !.step = "setssl"]
       \/ VsctlFails /\ UNCHANGED ovsSsl
    /\ UNCHANGED <<config, auth, files, extIds>>

\* runOVSVsctl(a.exec, "set-ssl", a.PrivKey, a.Cert, a.CACert)
SetSsl ==
    /\ pc \in [dir : Dirs, step : {"setssl"}]
    /\ \/ /\ ovsSsl' = auth[pc.dir].certs
          /\ pc' = [pc EXCEPT !.step = "extid"]
       \/ VsctlFails /\ UNCHANGED ovsSsl
    /\ UNCHANGED <<config, auth, files, extIds>>

\* setOVSExternalID(a.exec, a.externalID, "\"" + a.GetURL() + "\""); the
\* quotes are stripped again when the id is read.
SetExternalID ==
    /\ pc \in [dir : Dirs, step : {"extid"}]
    /\ \/ /\ extIds' = [extIds EXCEPT ![pc.dir] = auth[pc.dir].address]
          /\ pc' = Idle
       \/ VsctlFails /\ UNCHANGED extIds
    /\ UNCHANGED <<config, auth, files, ovsSsl>>

-----------------------------------------------------------------------------
\* (*OvnDBAuth).updateIP(newIP) on an OvnDBAuth value: the new value and
\* whether an error was returned.  The new address is s[0] + ":" + newIP +
\* s[2], written here token for token.
UpdateIP(a, newIP) ==
    IF a.address = << >> THEN [auth |-> a, ok |-> TRUE]
    ELSE LET s == Split(a.address, ":")
         IN IF Len(s) # 3 THEN [auth |-> a, ok |-> FALSE]
            ELSE [auth |-> [a EXCEPT !.address = s[1] \o << ":", newIP >> \o s[3]],
                  ok |-> TRUE]

\* Mutant: a south error is not returned (the caller goes on).
UpdateOvnNodeAuthIgnoreSouth(ip) ==
    /\ pc = Idle
    /\ LET n == UpdateIP(auth["nb"], ip)
           s == UpdateIP(auth["sb"], ip)
       IN /\ auth' = [auth EXCEPT !["nb"] = n.auth,
                                  !["sb"] = IF n.ok THEN s.auth ELSE @]
          /\ pc' = IF n.ok THEN Idle ELSE Failed
    /\ UNCHANGED <<config, files, extIds, ovsSsl>>

\* UpdateOvnNodeAuth(masterIP): north, then south; an error on south leaves
\* the north update in place.
UpdateOvnNodeAuth(ip) ==
    /\ pc = Idle
    /\ LET n == UpdateIP(auth["nb"], ip)
           s == UpdateIP(auth["sb"], ip)
       IN /\ auth' = [auth EXCEPT !["nb"] = n.auth,
                                  !["sb"] = IF n.ok THEN s.auth ELSE @]
          /\ pc' = IF n.ok /\ s.ok THEN Idle ELSE Failed
    /\ UNCHANGED <<config, files, extIds, ovsSsl>>

\* The process dies (a panic on a returned error, a signal, a crash) and
\* is started again: InitConfig rebuilds the OvnDBAuth values.
Restart ==
    /\ pc # Idle \/ auth # config
    /\ pc' = Idle
    /\ auth' = config
    /\ UNCHANGED <<config, files, extIds, ovsSsl>>

Next ==
    \/ \E d \in Dirs : SetDBAuth(d)
    \/ EnsureCACert \/ DelSsl \/ SetSsl \/ SetExternalID
    \/ Restart

NextWithUpdate == Next \/ \E ip \in MasterIPs : UpdateOvnNodeAuth(ip)

Spec == Init /\ [][Next]_vars

SpecWithUpdate == Init /\ [][NextWithUpdate]_vars

-----------------------------------------------------------------------------
\* The configuration an external id value names.
Named(d) == NewOvnDBAuth(extIds[d], config[d].certs[1], config[d].certs[2], config[d].certs[3])

\* The comment in SetDBAuth: the SSL settings "must happen *before* setting
\* the ovn-remote external-id", so that ovn-controller never finds an ssl
\* ovn-remote without the key and certificates to use for it.
SslRemoteHasSslSettings ==
    extIds["sb"] # << >> /\ extIds["sb"][1] = "ssl" => ovsSsl # NoSsl

\* Both directions moved to the master IP ip, as UpdateOvnNodeAuth(ip)
\* returning nil leaves them.
Moved(ip) == [d \in Dirs |-> UpdateIP(config[d], ip).auth]

\* UpdateOvnNodeAuth moves north before south: a south address updateIP
\* cannot split (several masters) fails after north already points at the
\* new master.  The process goes on (and SetDBAuth may run) only with both
\* directions at InitConfig's values or both moved to one master: the
\* error is returned and the process restarts.
NoHalfMovedAuth ==
    pc # Failed =>
        \/ auth = config
        \/ \E ip \in MasterIPs :
              /\ \A d \in Dirs : UpdateIP(config[d], ip).ok
              /\ auth = Moved(ip)

\* What SetDBAuth writes into ovn-nb and ovn-remote is always a connection
\* string newOvnDBAuth accepts, also after UpdateOvnNodeAuth moved it to
\* the master's new IP.
ExternalIdsParse ==
    \A d \in Dirs : extIds[d] # << >> => Named(d).err = "none"

=============================================================================
