---------------------------- MODULE MCResources -----------------------------
(***************************************************************************)
(* Model-checking instance of ResourceApply and of Bottle: a behaviour is    *)
(* one of the two.                                                          *)
(***************************************************************************)
EXTENDS ResourceApply, Bottle

CONSTANTS u1, u2, s1, s2, s3

VARIABLE scene
mcResVars == <<resVars, bottleVars, scene>>

\* Services have no identity: of the graphs that can be ordered, the ones in
\* which s1, s2, s3 is an order and s2 waits for s1 stand for all that have a
\* dependency, and one that names a missing service has no other.  A bottle
\* has a policy and a network of its own, or neither.
OneOfEachShape ==
    /\ wants.policy = wants.network
    /\ \A s, t \in Services : Missing \in deps[s] => deps[t] \subseteq {Missing}
    /\ \/ Circular \/ \E s \in Services : Missing \in deps[s]
       \/ deps[s1] = {} /\ deps[s2] = {s1} /\ deps[s3] \subseteq {s1, s2}

MCResInit ==
    /\ scene \in {"manifest", "bottle"}
    /\ scene # "manifest" => st = Bare
    /\ scene # "bottle" => deps = [s \in Services |-> {}] /\ wants = [policy |-> FALSE, network |-> FALSE]
    /\ ResInit /\ BottleInit
    /\ scene = "bottle" => OneOfEachShape

MCResNext ==
    \/ scene = "manifest" /\ ResNext /\ UNCHANGED <<bottleVars, scene>>
    \/ scene = "bottle" /\ BottleNext /\ UNCHANGED <<resVars, scene>>

MCResSpec == MCResInit /\ [][MCResNext]_mcResVars
=============================================================================
