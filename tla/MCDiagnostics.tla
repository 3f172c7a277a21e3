--------------------------- MODULE MCDiagnostics ---------------------------
EXTENDS Diagnostics

CONSTANTS a, b

MCPods == {a, b}

=============================================================================
