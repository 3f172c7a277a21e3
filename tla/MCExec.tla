------------------------------ MODULE MCExec -------------------------------
EXTENDS Exec

=============================================================================
