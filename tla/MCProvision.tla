----------------------------- MODULE MCProvision -----------------------------
(* Manifests for TLC: a node with two services, one of them scaled; the same
   node where the scaled one is single and publishes a port; one without
   services; and ones gs must refuse.                                         *)
EXTENDS Provision

MCEnv  == (2 :> "b") @@ (1 :> "a")
MCEnvs == {MCEnv}

Svc(name, ports, count) ==
    [name |-> name, image |-> "img", volumes |-> <<"vol">>,
     env |-> MCEnv, ports |-> ports, count |-> count, memory |-> 0]

Node(allowSSH, ports, services) ==
    [role |-> "relay", hostname |-> "node", backend |-> "",
     allowSSH |-> allowSSH, ports |-> ports, services |-> services]

TwoServices == Node("no", <<443, 80>>, <<Svc("xui", <<443>>, 0), Svc("agent", <<>>, 2)>>)
OneService  == Node("no", <<80>>, <<Svc("agent", <<80>>, 1)>>)
NoServices  == Node("no", <<>>, <<>>)
PortScaled  == Node("yes", <<>>, <<Svc("xui", <<443>>, 2)>>)
Nftables    == [NoServices EXCEPT !.backend = "nftables"]
NoRole      == [NoServices EXCEPT !.role = ""]

MCManifests == {TwoServices, OneService, NoServices, PortScaled, Nftables, NoRole}
==============================================================================
