\* What the controller must repair, under its fairness
SPECIFICATION FairPodSpec
CONSTANTS
    r1 = r1
    Reqs = {r1}
    NumPods = 6
    Events = {"start", "remove", "scale", "container", "infra"}
    MaxReplicas = 2
    MaxEvents = 2
PROPERTIES
    ReplicasConverge
    ReplicasRecover
