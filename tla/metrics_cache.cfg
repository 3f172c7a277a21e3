SPECIFICATION Spec
CONSTANTS
    c1 = c1
    c2 = c2
    u1 = u1
    u2 = u2
    Callers <- MCCallers
    Pods <- MCPods
    PodName <- MCPodName
    TTLSeconds = 30
    MaxVer = 2
INVARIANTS
    TypeOK
    ServesOwnPod
PROPERTIES
    EventuallyCurrent
