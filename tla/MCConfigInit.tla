---------------------------- MODULE MCConfigInit ----------------------------
(* Instantiates ConfigInit: a command line and a config file that each set *)
(* nothing or a few fields, valid and invalid Kubernetes values, Defaults  *)
(* with and without the external-id flags, and tcp or unset databases.     *)
EXTENDS ConfigInit

MCIPs == {"1.2.3.4"}
MCPorts == {"6641"}
MCTcp == << "tcp", ":", "/", "/", "1.2.3.4", ":", "6641" >>
MCSsl == << "ssl", ":", "/", "/", "1.2.3.4", ":", "6641" >>
MCBlah == << "blah", ":", "/", "/", "1.2.3.4", ":", "6641" >>
MCOvsNbChoices == {<< >>, << "ssl", ":", "1.2.3.4", ":", "6641" >>}
MCNoCerts == << "", "", "" >>

\* -nb-address=ssl://1.2.3.4:6641 without certificates, or nothing.
MCOvnCliChoices ==
    {OvnCommandLine(<< >>), OvnCommandLine("nb-address" :> MCSsl)}

\* A file with tcp addresses and north certificates; a file with an
\* unknown south scheme; no database sections.
MCOvnFileChoices ==
    {[d \in Dirs |-> ZeroRaw],
     [d \in Dirs |-> IF d = "nb" THEN Raw(MCTcp, << "k", "c", "ca" >>)
                                 ELSE Raw(MCTcp, MCNoCerts)],
     [d \in Dirs |-> IF d = "nb" THEN ZeroRaw ELSE Raw(MCBlah, MCNoCerts)]}
MCDefaultCerts ==
    [d \in {"nb", "sb"} |->
        << "/etc/openvswitch/ovn" \o d \o "-privkey.pem",
           "/etc/openvswitch/ovn" \o d \o "-cert.pem",
           "/etc/openvswitch/ovn" \o d \o "-ca.cert" >>]

\* The var blocks of config.go.
MCBuiltin == [MTU |-> 1400, Level |-> 4, ConfDir |-> "/etc/cni/net.d",
              Kubeconfig |-> "", CACert |-> "",
              APIServer |-> << "http", "localhost:8080" >>]

\* No flags; -mtu=9000 -k8s-apiserver=https://10.0.0.1:6443;
\* -k8s-kubeconfig=... with -encap-type (a field left out of conf);
\* -k8s-apiserver=localhost:8080 (url.Parse takes "localhost" as scheme).
MCCliChoices ==
    {CommandLine(<< >>),
     CommandLine(("mtu" :> 9000) @@ ("k8s-apiserver" :> << "https", "10.0.0.1:6443" >>)),
     CommandLine(("k8s-kubeconfig" :> "/root/.kube/config") @@ ("encap-type" :> "vxlan")),
     CommandLine("k8s-apiserver" :> << "localhost", "8080" >>)}

\* [default] mtu, [logging] loglevel, [cni] conf-dir, [kubernetes] cacert;
\* a file naming a CA certificate that is not there.
MCFileChoices ==
    {ZeroConf,
     [ZeroConf EXCEPT !.MTU = 1500, !.Level = 5, !.ConfDir = "/opt/cni/net.d",
                      !.CACert = "/etc/k8s/ca.crt"],
     [ZeroConf EXCEPT !.CACert = "/etc/k8s/missing.crt"]}

\* Both ids set, or neither (getOVSExternalID returns "" for a missing key).
MCExtIdChoices ==
    {[APIServer |-> << "https", "somewhere.com:8081" >>, CACert |-> "/etc/k8s/ca.crt"],
     [APIServer |-> << >>, CACert |-> ""]}

\* nil, as runOvnKube passes it, and every flag set, as the unit tests do.
MCDefaultsChoices ==
    {[OvnNorthAddress |-> FALSE, K8sAPIServer |-> FALSE, K8sCert |-> FALSE],
     [OvnNorthAddress |-> TRUE, K8sAPIServer |-> TRUE, K8sCert |-> TRUE]}

MCExistingPaths == {"/root/.kube/config", "/etc/k8s/ca.crt"}
=============================================================================
