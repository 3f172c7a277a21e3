SPECIFICATION Spec
CONSTANTS
    p1 = p1
    p2 = p2
    c1 = c1
    c2 = c2
    Pods <- MCPods1
    Ctrs <- MCCtrs2
INVARIANT
    OneCallbackPerCycle
