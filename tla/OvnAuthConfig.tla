---------------------------- MODULE OvnAuthConfig ----------------------------
(***************************************************************************)
(* The OVN database part of InitConfigWithPath (pkg/config/config.go):     *)
(* buildOvnAuth for the north database and then for the south database.   *)
(*                                                                         *)
(* Each direction has three layers of rawOvnAuthConfig: the command line,  *)
(* the config file, and below them the OVS external id "ovn-nb" (read only *)
(* for north, and only when defaults.OvnNorthAddress) for the address and  *)
(* the built-in /etc/openvswitch certificate paths for an ssl address.     *)
(* overrideFields copies a source field only when it is not "".            *)
(* ConfigInit composes these two steps into the whole InitConfigWithPath. *)
(***************************************************************************)
EXTENDS OvnAddress

CONSTANTS
    OvsNbChoices,    \* what "get Open_vSwitch . external_ids:ovn-nb" returns
    DefaultCerts     \* DefaultCerts[dir]: the built-in ssl paths of dir

Dirs == {"nb", "sb"}

VARIABLES
    cli,          \* cli[dir]: cliConfig.OvnNorth / OvnSouth
    file,         \* file[dir]: cfg.OvnNorth / OvnSouth from the config file
    ovsNb,        \* the OVS external id ovn-nb ("" when unset or on error)
    readAddress,  \* defaults.OvnNorthAddress
    OvnNorth,     \* the global OvnNorth
    OvnSouth,     \* the global OvnSouth
    phase         \* "nb", "sb": next buildOvnAuth; "done"; "failed";
                  \* ConfigInit adds the earlier steps of InitConfigWithPath

\* The zero value of rawOvnAuthConfig.
ZeroRaw ==
    [Address |-> << >>, ClientPrivKey |-> "", ClientCert |-> "", ClientCACert |-> ""]

Raw(address, certs) ==
    [Address |-> address, ClientPrivKey |-> certs[1],
     ClientCert |-> certs[2], ClientCACert |-> certs[3]]

\* A cli.Flag with a Destination writes the value given for it into that
\* field of cliConfig; a flag not given leaves the field at the flag's
\* zero Value.  args is the command line as flag name |-> value, dests the
\* Destination field of each flag, zero the zero section.
ParseFlags(dests, zero, args) ==
    [f \in DOMAIN zero |->
        LET given == {fl \in DOMAIN args \cap DOMAIN dests : dests[fl] = f}
        IN IF given = {} THEN zero[f] ELSE args[CHOOSE fl \in given : TRUE]]

\* OvnNBFlags and OvnSBFlags: the field of cliConfig.OvnNorth / OvnSouth
\* that "-<dir>-address", "-<dir>-client-privkey", "-<dir>-client-cert" and
\* "-<dir>-client-cacert" write.
OvnFlagField(d) ==
    (d \o "-address") :> "Address" @@ (d \o "-client-privkey") :> "ClientPrivKey"
    @@ (d \o "-client-cert") :> "ClientCert" @@ (d \o "-client-cacert") :> "ClientCACert"

\* cliConfig.OvnNorth and OvnSouth after the command line args.
OvnCommandLine(args) == [d \in Dirs |-> ParseFlags(OvnFlagField(d), ZeroRaw, args)]

\* OvnAuthConfig{} and OvnAuthConfig{ClientAuth: r} of a newOvnDBAuth result
NoAuth == Result("unset", << >>, << >>)

\* Mutant: the "non-zero-length string" test left out.
OverrideFieldsAlways(dst, src) == [f \in DOMAIN dst |-> src[f]]

\* overrideFields(dst, src): every string field of src that is not "" wins.
OverrideFields(dst, src) ==
    [f \in DOMAIN dst |-> IF src[f] = ZeroRaw[f] THEN dst[f] ELSE src[f]]

\* strings.HasPrefix(address, "ssl") on a token string.
HasSslPrefix(address) == address # << >> /\ address[1] = "ssl"

\* buildOvnAuth(exec, direction, externalID, cliAuth, confAuth, readAddress)
BuildOvnAuth(dir, cliAuth, confAuth, read) ==
    LET address0 == IF cliAuth.Address # << >> THEN cliAuth.Address ELSE confAuth.Address
        address == IF address0 = << >> /\ read THEN ovsNb ELSE address0
        base == IF HasSslPrefix(address)
                  THEN Raw(address, DefaultCerts[dir])
                  ELSE [ZeroRaw EXCEPT !.Address = address]
        auth == OverrideFields(OverrideFields(base, confAuth), cliAuth)
    IN NewOvnDBAuth(auth.Address, auth.ClientPrivKey, auth.ClientCert, auth.ClientCACert)

\* OvnNorth, err = buildOvnAuth(exec, "nb", "ovn-nb", ..., defaults.OvnNorthAddress)
\* if err != nil { return "", err }: the global is already overwritten.
BuildNorth ==
    /\ phase = "nb"
    /\ OvnNorth' = BuildOvnAuth("nb", cli["nb"], file["nb"], readAddress)
    /\ phase' = IF OvnNorth'.err = "none" THEN "sb" ELSE "failed"
    /\ UNCHANGED <<cli, file, ovsNb, readAddress, OvnSouth>>

\* OvnSouth, err = buildOvnAuth(exec, "sb", "ovn-remote", ..., false)
BuildSouth ==
    /\ phase = "sb"
    /\ OvnSouth' = BuildOvnAuth("sb", cli["sb"], file["sb"], FALSE)
    /\ phase' = IF OvnSouth'.err = "none" THEN "done" ELSE "failed"
    /\ UNCHANGED <<cli, file, ovsNb, readAddress, OvnNorth>>

-----------------------------------------------------------------------------
(***************************************************************************)
(* Abstract view (spec.md section 6, "Precedence, highest last: built-in   *)
(* defaults < database external-ids discovery < config file < command      *)
(* line"): each field is taken from the highest layer that sets it; the   *)
(* defaults layer holds the ssl paths only when the chosen address is ssl. *)
(***************************************************************************)
\* The highest layer of the sequence (highest first) whose field f is set.
Highest(layers, f) ==
    LET set == {k \in 1..Len(layers) : layers[k][f] # ZeroRaw[f]}
    IN IF set = {} THEN ZeroRaw[f] ELSE layers[Min(set)][f]

EffectiveRaw(dir, read) ==
    LET discovered == IF dir = "nb" /\ read THEN ovsNb ELSE << >>
        address == Highest(<< cli[dir], file[dir],
                               [ZeroRaw EXCEPT !.Address = discovered] >>, "Address")
        defaults == IF HasSslPrefix(address) THEN Raw(address, DefaultCerts[dir]) ELSE ZeroRaw
        layers == << cli[dir], file[dir], defaults >>
    IN [Address |-> address,
        ClientPrivKey |-> Highest(layers, "ClientPrivKey"),
        ClientCert |-> Highest(layers, "ClientCert"),
        ClientCACert |-> Highest(layers, "ClientCACert")]

Effective(dir, read) ==
    LET r == EffectiveRaw(dir, read)
    IN NewOvnDBAuth(r.Address, r.ClientPrivKey, r.ClientCert, r.ClientCACert)

=============================================================================
