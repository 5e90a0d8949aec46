--------------------------- MODULE MCDBAuthSetup ---------------------------
(* Instantiates DBAuthSetup with what InitConfig builds from the addresses *)
(* of the unit tests: north ssl or tcp, south ssl (one or two entries) or  *)
(* tcp, each with its direction's default certificate paths; the master   *)
(* may move to a second IP.                                                *)
EXTENDS DBAuthSetup

MCIPs == {"1.2.3.4", "6.5.4.3"}
MCPorts == {"6641", "6642"}
MCMasterIPs == {"6.5.4.3"}

Certs(d) == << d \o "-privkey.pem", d \o "-cert.pem", d \o "-ca.cert" >>

MCCertFiles == {Certs(d)[k] : d \in {"nb", "sb"}, k \in 1..3}

Addr(scheme, ip, port) == << scheme, ":", "/", "/", ip, ":", port >>

MCAuthChoices ==
    [nb |-> {NewOvnDBAuth(Addr("ssl", "1.2.3.4", "6641"), Certs("nb")[1], Certs("nb")[2], Certs("nb")[3]),
             NewOvnDBAuth(Addr("tcp", "1.2.3.4", "6641"), "", "", "")},
     sb |-> {NewOvnDBAuth(Addr("ssl", "1.2.3.4", "6642"), Certs("sb")[1], Certs("sb")[2], Certs("sb")[3]),
             NewOvnDBAuth(Addr("ssl", "1.2.3.4", "6642") \o << "," >> \o Addr("ssl", "6.5.4.3", "6642"),
                          Certs("sb")[1], Certs("sb")[2], Certs("sb")[3]),
             NewOvnDBAuth(Addr("tcp", "1.2.3.4", "6642"), "", "", "")}]
=============================================================================
