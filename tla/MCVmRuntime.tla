---------------------------- MODULE MCVmRuntime ----------------------------
EXTENDS VmRuntime

\* A VM that has been paused: status_handle_pause has done its work, its client has
\* gone, and vCPU 0 sleeps.  Each other vCPU is still in the guest with its SIGVMPAUSE
\* to come, and will sleep or halt, or had ended before (a halt that the PAUSE overwrote).
\* These are reachable states of Spec; starting there puts the wake-ups of two vCPUs
\* within TLC's reach.
PausedVm ==
    /\ state = "PAUSED"
    /\ paused = TRUE
    /\ pause_lock = NoThread
    /\ thread = [v \in Vcpu |-> "live"]
    /\ mapped = [v \in Vcpu |-> TRUE]
    /\ pc \in {f \in [Vcpu -> {"waiting", "guest", "done"}] :
                 \A v \in Vcpu : v = 0 <=> f[v] = "waiting"}
    /\ exit_reason = [v \in Vcpu |-> IF pc[v] = "done" THEN "HLT" ELSE "UNKNOWN"]
    /\ pending = [v \in Vcpu |-> [s \in Signals |->
                     IF s = "SIGVMPAUSE" /\ pc[v] = "guest" THEN 1 ELSE 0]]
    /\ handler = [v \in Vcpu |-> "none"]
    /\ handlers = Signals
    /\ log_lock = NoThread
    /\ mpc = "loop"
    /\ idx = 0
    /\ start_failed = FALSE
    /\ client = NoClient
    /\ peer_open = FALSE
    /\ sessions = 1
    /\ sig_status = FALSE

PausedSpec == PausedVm /\ [][Next]_vars /\ Fairness
============================================================================
