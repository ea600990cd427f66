------------------------------ MODULE MCVmSetup ------------------------------
EXTENDS VmSetup
==============================================================================
