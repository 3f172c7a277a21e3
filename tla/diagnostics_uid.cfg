SPECIFICATION Spec
CONSTANTS
    a = a
    b = b
    Pods <- MCPods
    Insights = TRUE
    NoUID = NoUID
INVARIANT RequestCarriesOwnUID
