--------------------------- MODULE MCPodsTracker ---------------------------
(* Model-checking instance of PodsTracker: two pods, one or two containers. *)
EXTENDS PodsTracker, TLC

CONSTANTS p1, p2, c1, c2

MCPods == {p1, p2}
MCPods1 == {p1}
MCCtrs1 == {c1}
MCCtrs2 == {c1, c2}

\* Pods are interchangeable: no action or property names a particular one.
MCSymmetry == Permutations(MCPods)

=============================================================================
