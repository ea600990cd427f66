----------------------------- MODULE VmLifecycle -----------------------------
(***************************************************************************)
(* What a VM promises to whoever starts, commands and stops it, without    *)
(* threads' control locations, locks or signals.  Each command takes its   *)
(* effect exactly once, between its receipt and its answer; a vCPU's       *)
(* resources outlive its thread; the process outlives both.                *)
(***************************************************************************)
CONSTANT Vcpu

VARIABLES
    phase,    \* of the process
    serving,  \* the command being carried out
    frozen,   \* the VM is paused
    live,     \* the vCPUs whose thread runs
    held      \* the vCPUs whose resources are held

vars == <<phase, serving, frozen, live, held>>

Phases == {"boot", "up", "ending", "gone", "killed"}
Requests == {"PAUSE", "RESUME", "SHUTDOWN", "QUERY"}

Init ==
    /\ phase = "boot"
    /\ serving = "none"
    /\ frozen = FALSE
    /\ live = {}
    /\ held = Vcpu

Enter(from, to) == phase = from /\ phase' = to

\* Threads are created one by one, and only before the VM is up.
VcpuStarts(v) ==
    /\ phase = "boot"
    /\ v \notin live
    /\ live' = live \cup {v}
    /\ UNCHANGED <<phase, serving, frozen, held>>

VcpuEnds(v) ==
    /\ v \in live
    /\ live' = live \ {v}
    /\ UNCHANGED <<phase, serving, frozen, held>>

\* The VM is up, or its start is given up.
Boot ==
    /\ Enter("boot", "up") \/ Enter("boot", "ending")
    /\ UNCHANGED <<serving, frozen, live, held>>

Request(r) ==
    /\ phase = "up"
    /\ serving = "none"
    /\ serving' = r
    /\ UNCHANGED <<phase, frozen, live, held>>

\* The effect of a pause is its answer.
Freeze ==
    /\ serving = "PAUSE"
    /\ ~frozen
    /\ frozen' = TRUE
    /\ serving' = "none"
    /\ UNCHANGED <<phase, live, held>>

Thaw ==
    /\ serving \in {"RESUME", "SHUTDOWN"}
    /\ frozen
    /\ frozen' = FALSE
    /\ UNCHANGED <<phase, serving, live, held>>

\* The answer to a resume or a shutdown finds the VM thawed.
Answer ==
    /\ serving \in {"RESUME", "SHUTDOWN", "QUERY"}
    /\ serving = "QUERY" \/ ~frozen
    /\ serving' = "none"
    /\ UNCHANGED <<phase, frozen, live, held>>

\* No command is abandoned by the end of the service.
Leave ==
    /\ serving = "none"
    /\ Enter("up", "ending")
    /\ UNCHANGED <<serving, frozen, live, held>>

Release(v) ==
    /\ phase = "ending"
    /\ v \in held \ live
    /\ held' = held \ {v}
    /\ UNCHANGED <<phase, serving, frozen, live>>

Exit ==
    /\ Enter("ending", "gone")
    /\ live = {} /\ held = {}
    /\ UNCHANGED <<serving, frozen, live, held>>

\* A signal's default action ends the process, possibly in the middle of a command.
Kill ==
    /\ Enter("up", "killed")
    /\ serving' = "none"
    /\ UNCHANGED <<frozen, live, held>>

Next ==
    \/ Boot \/ Freeze \/ Thaw \/ Answer \/ Leave \/ Exit \/ Kill
    \/ \E r \in Requests : Request(r)
    \/ \E v \in Vcpu : VcpuStarts(v) \/ VcpuEnds(v) \/ Release(v)

Spec == Init /\ [][Next]_vars
==============================================================================
