------------------------------- MODULE MCVmFs -------------------------------
EXTENDS VmFs
=============================================================================
