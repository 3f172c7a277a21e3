--------------------------- MODULE MCMetricsCache ---------------------------
(* Two concurrent callers and two pods that share a name (a pod deleted and *)
(* re-created under the same name gets a new UID).                        *)
EXTENDS MetricsCache

CONSTANTS c1, c2, u1, u2

MCCallers == {c1, c2}
MCPods == {u1, u2}
MCPodName(u) == "web"

=============================================================================
