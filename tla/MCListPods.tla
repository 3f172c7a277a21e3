---------------------------- MODULE MCListPods -----------------------------
EXTENDS ListPods

CONSTANTS g1, g2, self, other

MCNames == {g1, g2}
MCNodes == {self, other}

=============================================================================
