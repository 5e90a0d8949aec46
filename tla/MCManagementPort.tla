-------------------------- MODULE MCManagementPort --------------------------
EXTENDS ManagementPortWindows

\* Two /29 host subnets: the router at .1 and the port at .2 of each.
MCLocalSubnets == {[base |-> 8, len |-> 29], [base |-> 16, len |-> 29]}

\* One cluster subnet; the services subnet set or not.
MCClusterSubnets == << "10.128.0.0/14" >>
MCServiceChoices == {"", "172.30.0.0/16"}

MCRouterMacs == {"0a:58:0a:80:00:01", "0a:58:0a:80:00:09"}
MCPortMacs == {"66:2f:1e:00:00:02"}
=============================================================================
