------------------------------ MODULE MCMonitor ------------------------------
EXTENDS Monitor

\* Between them the clients run every sub command, resume meets a paused VM, and a VM
\* that has been resumed may be paused again.
MCKinds == <<{"pause"}, {"resume"}, {"pause", "status", "shutdown"}>>

\* Room for all of them, or for one.
MCInit == Init /\ fds \in {0, MaxFds - 1}
MCSpec == MCInit /\ [][Next]_vars /\ Fairness
==============================================================================
