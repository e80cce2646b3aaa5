----------------------------- MODULE MCEndpoints -----------------------------
(***************************************************************************)
(* Model-checking instance of Endpoints and EdgeProxy.  The parts share no  *)
(* variable in these models, so a behaviour runs one of them: services (two *)
(* services, one selecting both pods, with manifests that move between      *)
(* types, ports and addresses; both ways of naming the chains are initial   *)
(* states), the ingress gateway, or the DNS proxy.                          *)
(***************************************************************************)
EXTENDS Endpoints, EdgeProxy, TLC

CONSTANTS s1, s2, p1, p2, a1, x1, i1, i2

VARIABLE scene

MCManifests == {[ports |-> {1}, type |-> "ClusterIP", ip |-> 0],
                [ports |-> {1}, type |-> "ClusterIP", ip |-> 1],
                [ports |-> {1, 2}, type |-> "NodePort", ip |-> 0]}
MCSelects == {<<s1, p1>>, <<s1, p2>>, <<s2, p2>>}

MCNsOf == i1 :> "a" @@ i2 :> "b"
MCBackends == {[ns |-> "a", name |-> "web"], [ns |-> "b", name |-> "web"]}
MCIngressSpecs == {[tls |-> {"h"}, host |-> "h", name |-> "web", len |-> 1],
                   [tls |-> {}, host |-> "", name |-> "web", len |-> 2]}

MCInit ==
    /\ scene \in {"services", "ingress", "dns"}
    /\ EndpointsInit
    /\ chainOf[s1] = x1 /\ (scene = "services" \/ chainOf[s2] = x1)
    /\ pod = [p \in Pods |-> [run |-> TRUE, addr |-> IF p = p1 THEN a1 ELSE NoAddr, members |-> TRUE]]
    /\ EdgeInit
    /\ back[[ns |-> "a", name |-> "web"]] = 1

MCNext ==
    /\ UNCHANGED scene
    /\ \/ scene = "services" /\ EndpointsNext /\ UNCHANGED edgeVars
       \/ scene = "ingress" /\ IngressNext /\ UNCHANGED epVars
       \/ scene = "dns" /\ DnsNext /\ UNCHANGED epVars

MCSpec == MCInit /\ [][MCNext]_<<epVars, edgeVars, scene>>
          /\ WF_epVars(scene = "services" /\ ControllerStep)
=============================================================================
