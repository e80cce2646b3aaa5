\* Every kind of event, two of them, one request at a time beside the controller
SPECIFICATION PodSpec
CONSTANTS
    r1 = r1
    Reqs = {r1}
    NumPods = 6
    Events = {"apply", "start", "stop", "remove", "scale", "delete_rs",
              "container", "infra", "member"}
    MaxReplicas = 2
    MaxEvents = 2
INVARIANTS
    PodsSound
    TemplateKept
