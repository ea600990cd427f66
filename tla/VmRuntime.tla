------------------------------ MODULE VmRuntime ------------------------------
(***************************************************************************)
(* The running virtual machine: one process made of the main thread        *)
(* (run_main_loop, the status command handlers, mini_kvm_clean_kvm) and    *)
(* one thread per vCPU (kvm_vcpu_thread_run).  They share the struct Kvm:  *)
(* `state' and `paused' are read and written without a common lock, so     *)
(* every access is a step of its own.  Pausing goes through pause_lock and *)
(* pause_cond, interrupting KVM_RUN through three real-time signals.       *)
(*                                                                         *)
(* The monitor's clients (pause, resume, shutdown, status) appear as the   *)
(* commands they send on the one connection the main loop serves at a time.*)
(***************************************************************************)
EXTENDS Integers

CONSTANTS
    NVcpu,        \* number of vCPUs (run --vcpu)
    Clients,      \* the sub commands that may connect to the monitor
    MaxSessions,  \* bound: connections accepted in one behaviour
    GuestExits,   \* the exit reasons the guest may cause
    Faults        \* the environment's faults that may happen

Vcpu == 0 .. NVcpu - 1

\* Thread identifiers for lock owners besides the vCPU numbers.
NoThread == -1
MainThread == -2

VMState == {"PAUSED", "RUNNING", "SHUTDOWN"}
Signals == {"SIGVMPAUSE", "SIGVMRESUME", "SIGVMSHUTDOWN"}

\* mini_kvm_vcpu_signal_handler logs these two; it ignores the third.
LoggedSignals == {"SIGVMPAUSE", "SIGVMRESUME"}

\* KVM_EXIT_IO is split by what mini_kvm_handle_io returns for the access.
ExitReasons == {"HLT", "IO", "IO_UNHANDLED", "SHUTDOWN", "INTERNAL_ERROR",
                "INTR", "FAIL_ENTRY", "UNKNOWN"}

\* The exits after which the vCPU thread stores MINI_KVM_SHUTDOWN.
FatalExits == {"HLT", "IO_UNHANDLED", "SHUTDOWN", "INTERNAL_ERROR", "FAIL_ENTRY"}

SubCommands == {"pause", "resume", "shutdown", "status"}
Commands == {"PAUSE", "RESUME", "SHUTDOWN", "SHOW_STATE", "SHOW_REGS", "DUMP_MEM"}
FaultKinds == {"socket", "thread", "run", "client", "sigterm"}

ASSUME NVcpuAssumption == NVcpu \in Nat \ {0}
ASSUME MaxSessionsAssumption == MaxSessions \in Nat
ASSUME ClientsAssumption == Clients \subseteq SubCommands
ASSUME GuestExitsAssumption == GuestExits \subseteq ExitReasons
ASSUME FaultsAssumption == Faults \subseteq FaultKinds

VARIABLES
    \* struct Kvm
    state,        \* kvm->state
    paused,       \* kvm->paused
    pause_lock,   \* owner of kvm->pause_lock
    thread,       \* vcpu->thread: unset, a live thread, or an undefined value
    mapped,       \* vcpu->kvm_run still mapped, vcpu->fd still open
    \* the vCPU threads
    pc,           \* control location of each vCPU thread
    exit_reason,  \* vcpu->kvm_run->exit_reason
    pending,      \* queued real-time signals of each vCPU thread
    handler,      \* the signal handler running on top of each vCPU thread
    \* process-wide
    handlers,     \* the signals whose handler has been installed
    log_lock,     \* owner of the logger's mutex
    \* the main thread and its current connection
    mpc,          \* control location of the main thread
    idx,          \* loop index over the vCPUs
    start_failed, \* mini_kvm_start_vm returned an error
    client,       \* sub command being served, the commands it has sent, and the
                  \* state field of its result buffer
    peer_open,    \* the client's end of the connection is open
    sessions,     \* connections accepted so far
    sig_status    \* SIGINT or SIGTERM received

vmVars == <<state, paused, pause_lock>>
resourceVars == <<thread, mapped>>
vcpuVars == <<pc, exit_reason, pending, handler>>
processVars == <<handlers, log_lock>>
sessionVars == <<client, peer_open, sessions>>
mainVars == <<mpc, idx, start_failed, sessionVars, sig_status>>
vars == <<vmVars, resourceVars, vcpuVars, processVars, mainVars>>

VcpuPc == {"none", "sig_pause", "sig_resume", "sig_shutdown", "while", "test",
           "paused", "wait", "waiting", "relock", "run", "guest", "exit",
           "log", "set", "done"}

MainPc == {"socket", "create", "started", "loop", "accept", "recv", "reply",
           "PAUSE", "pause_sig", "pause_lock", "pause_flag",
           "RESUME", "resume_sig", "resume_flag", "resume_signal", "resume_unlock",
           "SHUTDOWN", "shutdown_sig", "shutdown_test",
           "SHOW_STATE", "SHOW_REGS", "get_regs", "DUMP_MEM", "dumping",
           "sig", "sig_send", "clean", "exited", "killed"}

NoClient == [kind |-> "none", sent |-> {}, res_state |-> "PAUSED"]

TypeOK ==
    /\ state \in VMState
    /\ paused \in BOOLEAN
    /\ pause_lock \in Vcpu \cup {NoThread, MainThread}
    /\ thread \in [Vcpu -> {"null", "live", "junk"}]
    /\ mapped \in [Vcpu -> BOOLEAN]
    /\ pc \in [Vcpu -> VcpuPc]
    /\ exit_reason \in [Vcpu -> ExitReasons]
    /\ pending \in [Vcpu -> [Signals -> Nat]]
    /\ handler \in [Vcpu -> LoggedSignals \cup {"none", "stuck"}]
    /\ handlers \in SUBSET Signals
    /\ log_lock \in Vcpu \cup {NoThread}
    /\ mpc \in MainPc
    /\ idx \in 0 .. NVcpu
    /\ start_failed \in BOOLEAN
    /\ client \in [kind : SubCommands \cup {"none"}, sent : SUBSET Commands,
                    res_state : VMState]
    /\ peer_open \in BOOLEAN
    /\ sessions \in Nat
    /\ sig_status \in BOOLEAN

\* mini_kvm_setup_kvm and mini_kvm_add_vcpu have succeeded; no thread exists yet.
Init ==
    /\ state = "PAUSED"
    /\ paused = FALSE
    /\ pause_lock = NoThread
    /\ thread = [v \in Vcpu |-> "null"]
    /\ mapped = [v \in Vcpu |-> TRUE]
    /\ pc = [v \in Vcpu |-> "none"]
    /\ exit_reason = [v \in Vcpu |-> "UNKNOWN"]
    /\ pending = [v \in Vcpu |-> [s \in Signals |-> 0]]
    /\ handler = [v \in Vcpu |-> "none"]
    /\ handlers = {}
    /\ log_lock = NoThread
    /\ mpc = "socket"
    /\ idx = 0
    /\ start_failed = FALSE
    /\ client = NoClient
    /\ peer_open = FALSE
    /\ sessions = 0
    /\ sig_status = FALSE
------------------------------------------------------------------------------
(* The vCPU threads *)

ProcessAlive == mpc \notin {"killed", "exited"}

\* Thread v moves from one location to another; nothing runs below its handler.
Step(v, from, to) ==
    /\ ProcessAlive
    /\ handler[v] = "none"
    /\ pc[v] = from
    /\ pc' = [pc EXCEPT ![v] = to]

\* Mutation: nobody installs a handler for SIGVMSHUTDOWN.
InstallTwoHandlers(v) ==
    /\ \/ Step(v, "sig_pause", "sig_resume") /\ handlers' = handlers \cup {"SIGVMPAUSE"}
       \/ Step(v, "sig_resume", "sig_shutdown") /\ handlers' = handlers \cup {"SIGVMRESUME"}
       \/ Step(v, "sig_shutdown", "while") /\ UNCHANGED handlers
    /\ UNCHANGED <<vmVars, resourceVars, exit_reason, pending, handler, log_lock, mainVars>>

\* signal(SIGVMPAUSE), signal(SIGVMRESUME), signal(SIGVMSHUTDOWN) in this order;
\* the disposition of a signal belongs to the whole process.
InstallHandler(v) ==
    /\ \/ Step(v, "sig_pause", "sig_resume") /\ handlers' = handlers \cup {"SIGVMPAUSE"}
       \/ Step(v, "sig_resume", "sig_shutdown") /\ handlers' = handlers \cup {"SIGVMRESUME"}
       \/ Step(v, "sig_shutdown", "while") /\ handlers' = handlers \cup {"SIGVMSHUTDOWN"}
    /\ UNCHANGED <<vmVars, resourceVars, exit_reason, pending, handler, log_lock, mainVars>>

\* while (kvm->state != MINI_KVM_SHUTDOWN)
WhileTest(v) ==
    /\ Step(v, "while", IF state # "SHUTDOWN" THEN "test" ELSE "done")
    /\ UNCHANGED <<vmVars, resourceVars, exit_reason, pending, handler, processVars, mainVars>>

\* Mutation: the thread asks `paused', not `state', whether the VM is paused.
PausedTestByFlag(v) ==
    /\ Step(v, "test", IF paused THEN "paused" ELSE "run")
    /\ UNCHANGED <<vmVars, resourceVars, exit_reason, pending, handler, processVars, mainVars>>

\* if (kvm->state == MINI_KVM_PAUSED): the second read of the racy field.
PausedTest(v) ==
    /\ Step(v, "test", IF state = "PAUSED" THEN "paused" ELSE "run")
    /\ UNCHANGED <<vmVars, resourceVars, exit_reason, pending, handler, processVars, mainVars>>

\* while (kvm->paused); when the flag is clear the outer loop continues.
FlagTest(v) ==
    /\ Step(v, "paused", IF paused THEN "wait" ELSE "while")
    /\ UNCHANGED <<vmVars, resourceVars, exit_reason, pending, handler, processVars, mainVars>>

\* pthread_cond_wait without owning pause_lock: the default mutex has no owner
\* check, so the call releases it whoever locked it, and blocks.
CondWait(v) ==
    /\ Step(v, "wait", "waiting")
    /\ pause_lock' = NoThread
    /\ UNCHANGED <<state, paused, resourceVars, exit_reason, pending, handler,
                   processVars, mainVars>>

\* A woken waiter locks pause_lock before pthread_cond_wait returns; the thread
\* never unlocks it afterwards.
CondRelock(v) ==
    /\ Step(v, "relock", "paused")
    /\ pause_lock = NoThread
    /\ pause_lock' = v
    /\ UNCHANGED <<state, paused, resourceVars, exit_reason, pending, handler,
                   processVars, mainVars>>

\* ioctl(KVM_RUN) enters the guest.
EnterGuest(v) ==
    /\ Step(v, "run", "guest")
    /\ UNCHANGED <<vmVars, resourceVars, exit_reason, pending, handler, processVars, mainVars>>

\* The guest causes an exit.
GuestExit(v) ==
    /\ Step(v, "guest", "exit")
    /\ \E r \in GuestExits : exit_reason' = [exit_reason EXCEPT ![v] = r]
    /\ UNCHANGED <<vmVars, resourceVars, pending, handler, processVars, mainVars>>

\* KVM_RUN fails with an error other than EINTR.  `ret' has the unsigned enum
\* type MiniKVMError, so (ret < 0) is false and the switch acts on the exit
\* reason of an earlier run, or on the one the kernel resets it to.
RunFails(v) ==
    /\ "run" \in Faults
    /\ Step(v, "guest", "exit")
    /\ exit_reason' \in {exit_reason, [exit_reason EXCEPT ![v] = "UNKNOWN"]}
    /\ UNCHANGED <<vmVars, resourceVars, pending, handler, processVars, mainVars>>

\* switch (exit_reason): a handled I/O access goes on silently, every other exit
\* takes the logger's lock.
HandleExit(v) ==
    /\ \/ /\ exit_reason[v] = "IO"
          /\ Step(v, "exit", "while")
          /\ UNCHANGED log_lock
       \/ /\ exit_reason[v] # "IO"
          /\ log_lock = NoThread
          /\ Step(v, "exit", "log")
          /\ log_lock' = v
    /\ UNCHANGED <<vmVars, resourceVars, exit_reason, pending, handler, handlers, mainVars>>

\* Mutation: log_log returns without releasing its lock.
LogKeepsLock(v) ==
    /\ Step(v, "log", IF exit_reason[v] \in FatalExits THEN "set" ELSE "while")
    /\ UNCHANGED <<vmVars, resourceVars, exit_reason, pending, handler, processVars, mainVars>>

\* log_log releases the lock; fatal exits go on to store the new state.
LogDone(v) ==
    /\ Step(v, "log", IF exit_reason[v] \in FatalExits THEN "set" ELSE "while")
    /\ log_lock' = NoThread
    /\ UNCHANGED <<vmVars, resourceVars, exit_reason, pending, handler, handlers, mainVars>>

\* kvm->state = MINI_KVM_SHUTDOWN
StoreShutdown(v) ==
    /\ Step(v, "set", "while")
    /\ state' = "SHUTDOWN"
    /\ UNCHANGED <<paused, pause_lock, resourceVars, exit_reason, pending, handler,
                   processVars, mainVars>>

\* Signal s starts its handler on thread v.  A logging handler that interrupts
\* log_log on its own thread waits for a lock that thread can never release.
TakeSignal(v, s) ==
    /\ pending[v][s] > 0
    /\ pending' = [pending EXCEPT ![v][s] = @ - 1]
    /\ handler' = IF s \in LoggedSignals
                  THEN [handler EXCEPT ![v] = IF log_lock = v THEN "stuck" ELSE s]
                  ELSE handler

\* A signal of another kind may interrupt a handler; it is blocked during its own.
Interruptible(v, s) ==
    \/ handler[v] = "none"
    \/ handler[v] \in LoggedSignals \ {s} /\ log_lock = v

\* Delivery outside KVM_RUN: the interrupted code goes on where it was, a blocked
\* pthread_cond_wait keeps waiting, and a later KVM_RUN does not see the signal.
Deliver(v, s) ==
    /\ ProcessAlive
    /\ pc[v] \notin {"none", "done", "guest"}
    /\ Interruptible(v, s)
    /\ TakeSignal(v, s)
    /\ UNCHANGED <<vmVars, resourceVars, pc, exit_reason, processVars, mainVars>>

\* Delivery during KVM_RUN: the ioctl returns EINTR with KVM_EXIT_INTR and the
\* handler runs before the thread looks at the exit reason.
InterruptGuest(v, s) ==
    /\ Step(v, "guest", "exit")
    /\ exit_reason' = [exit_reason EXCEPT ![v] = "INTR"]
    /\ TakeSignal(v, s)
    /\ UNCHANGED <<vmVars, resourceVars, processVars, mainVars>>

\* TRACE in the handler: lock, print, unlock, return to the interrupted code.
HandlerLog(v) ==
    /\ ProcessAlive
    /\ handler[v] \in LoggedSignals
    /\ \/ /\ log_lock = NoThread
          /\ log_lock' = v
          /\ UNCHANGED handler
       \/ /\ log_lock = v
          /\ log_lock' = NoThread
          /\ handler' = [handler EXCEPT ![v] = "none"]
    /\ UNCHANGED <<vmVars, resourceVars, pc, exit_reason, pending, handlers, mainVars>>

\* The steps the host schedules; what the guest does is not among them.
ThreadStep(v) ==
    \/ InstallHandler(v) \/ WhileTest(v) \/ PausedTest(v) \/ FlagTest(v)
    \/ CondWait(v) \/ CondRelock(v) \/ EnterGuest(v) \/ HandleExit(v)
    \/ LogDone(v) \/ StoreShutdown(v)

SignalStep(v) ==
    \/ \E s \in Signals : Deliver(v, s) \/ InterruptGuest(v, s)
    \/ HandlerLog(v)

GuestStep(v) == GuestExit(v) \/ RunFails(v)
------------------------------------------------------------------------------
(* The main thread: start *)

Main(from, to) == mpc = from /\ mpc' = to

\* mini_kvm_ipc_create_socket; a failure goes straight to the clean up.
CreateSocket ==
    /\ \/ Main("socket", "create")
       \/ "socket" \in Faults /\ Main("socket", "clean")
    /\ UNCHANGED <<vmVars, resourceVars, vcpuVars, processVars, idx, start_failed,
                   sessionVars, sig_status>>

\* Mutation: the loop over the vCPUs runs once too often.
CreateThreadOffByOne ==
    /\ Main("create", "create")
    /\ idx <= NVcpu
    /\ pc' = [pc EXCEPT ![idx] = "sig_pause"]
    /\ thread' = [thread EXCEPT ![idx] = "live"]
    /\ idx' = idx + 1
    /\ UNCHANGED <<vmVars, mapped, exit_reason, pending, handler, processVars,
                   start_failed, sessionVars, sig_status>>

\* mini_kvm_vcpu_run for the next vCPU.
CreateThread ==
    /\ Main("create", "create")
    /\ idx < NVcpu
    /\ pc' = [pc EXCEPT ![idx] = "sig_pause"]
    /\ thread' = [thread EXCEPT ![idx] = "live"]
    /\ idx' = idx + 1
    /\ UNCHANGED <<vmVars, mapped, exit_reason, pending, handler, processVars,
                   start_failed, sessionVars, sig_status>>

\* pthread_create fails: the loop breaks, and vcpu->thread keeps its zero or
\* holds an undefined value.
CreateThreadFails ==
    /\ "thread" \in Faults
    /\ Main("create", "started")
    /\ idx < NVcpu
    /\ \E h \in {"null", "junk"} : thread' = [thread EXCEPT ![idx] = h]
    /\ start_failed' = TRUE
    /\ UNCHANGED <<vmVars, mapped, vcpuVars, processVars, idx, sessionVars, sig_status>>

AllThreadsCreated ==
    /\ Main("create", "started")
    /\ idx = NVcpu
    /\ UNCHANGED <<vmVars, resourceVars, vcpuVars, processVars, idx, start_failed,
                   sessionVars, sig_status>>

\* mini_kvm_start_vm logs and stores RUNNING whether or not a thread failed.
StartVm ==
    /\ Main("started", IF start_failed THEN "clean" ELSE "loop")
    /\ log_lock = NoThread
    /\ state' = "RUNNING"
    /\ idx' = 0
    /\ UNCHANGED <<paused, pause_lock, resourceVars, vcpuVars, processVars,
                   start_failed, sessionVars, sig_status>>
------------------------------------------------------------------------------
(* The main thread: serving the monitor's clients *)

\* Mutation: the main loop runs only while the VM is RUNNING.
LoopTestRunning ==
    /\ Main("loop", IF state = "RUNNING" THEN "accept" ELSE "clean")
    /\ UNCHANGED <<vmVars, resourceVars, vcpuVars, processVars, idx, start_failed,
                   sessionVars, sig_status>>

\* Mutation: the main loop is ended by SIGTERM alone.
LoopTestSignal ==
    /\ Main("loop", IF ~sig_status THEN "accept" ELSE "clean")
    /\ UNCHANGED <<vmVars, resourceVars, vcpuVars, processVars, idx, start_failed,
                   sessionVars, sig_status>>

\* while (kvm->state != MINI_KVM_SHUTDOWN) of run_main_loop.
LoopTest ==
    /\ Main("loop", IF state # "SHUTDOWN" THEN "accept" ELSE "clean")
    /\ UNCHANGED <<vmVars, resourceVars, vcpuVars, processVars, idx, start_failed,
                   sessionVars, sig_status>>

\* accept returns a connection made by one of the sub commands.
Accept(kind) ==
    /\ Main("accept", "recv")
    /\ sessions < MaxSessions
    /\ sessions' = sessions + 1
    /\ client' = [NoClient EXCEPT !.kind = kind]
    /\ peer_open' = TRUE
    /\ UNCHANGED <<vmVars, resourceVars, vcpuVars, processVars, idx, start_failed,
                   sig_status>>

\* accept returns EAGAIN (nobody connected) or an error that is only logged.
AcceptNone ==
    /\ Main("accept", "sig")
    /\ UNCHANGED <<vmVars, resourceVars, vcpuVars, processVars, idx, start_failed,
                   sessionVars, sig_status>>

\* Mutation: pause sends its command whatever state it was shown.
NextCommandsUnchecked ==
    {c \in Commands \ client.sent :
       \/ c = "SHOW_STATE" /\ client.kind \in {"pause", "resume", "status"} /\ client.sent = {}
       \/ c = "PAUSE" /\ client.kind = "pause" /\ client.sent # {}
       \/ c = "RESUME" /\ client.kind = "resume" /\ client.sent # {} /\ client.res_state = "PAUSED"
       \/ c = "SHUTDOWN" /\ client.kind = "shutdown"
       \/ c \in {"SHOW_REGS", "DUMP_MEM"} /\ client.kind = "status" /\ "SHOW_STATE" \notin client.sent}

\* The commands a client may send next, given the ones it has sent.  pause and
\* resume look at the state first and give up unless it calls for their command;
\* status sends the state query alone, or one query per -r and -m option.
NextCommands ==
    {c \in Commands \ client.sent :
       \/ /\ c = "SHOW_STATE"
          /\ client.kind \in {"pause", "resume", "status"}
          /\ client.sent = {}
       \/ c = "PAUSE" /\ client.kind = "pause" /\ client.sent # {} /\ client.res_state = "RUNNING"
       \/ c = "RESUME" /\ client.kind = "resume" /\ client.sent # {} /\ client.res_state = "PAUSED"
       \/ c = "SHUTDOWN" /\ client.kind = "shutdown"
       \/ /\ c \in {"SHOW_REGS", "DUMP_MEM"}
          /\ client.kind = "status"
          /\ "SHOW_STATE" \notin client.sent}

\* recv returns a command; mini_kvm_status_handle_command dispatches on its type.
Receive(c) ==
    /\ peer_open
    /\ c \in NextCommands
    /\ Main("recv", c)
    /\ client' = [client EXCEPT !.sent = @ \cup {c}]
    /\ UNCHANGED <<vmVars, resourceVars, vcpuVars, processVars, idx, start_failed,
                   peer_open, sessions, sig_status>>

\* The client has nothing more to send (status: whichever options it was given)
\* and closes, or has died; recv returns 0.
Disconnect ==
    /\ Main("recv", "sig")
    /\ \/ ~peer_open
       \/ NextCommands = {}
       \/ client.kind = "status" /\ client.sent # {}
    /\ client' = NoClient
    /\ peer_open' = FALSE
    /\ UNCHANGED <<vmVars, resourceVars, vcpuVars, processVars, idx, start_failed,
                   sessions, sig_status>>

\* The client process dies in the middle of its exchange.
ClientDies ==
    /\ "client" \in Faults
    /\ ProcessAlive
    /\ peer_open
    /\ peer_open' = FALSE
    /\ UNCHANGED <<vmVars, resourceVars, vcpuVars, processVars, mpc, idx, start_failed,
                   client, sessions, sig_status>>

\* send of the result; on a connection the client has closed it raises SIGPIPE,
\* whose default action ends the process.
Reply ==
    /\ Main("reply", IF peer_open THEN "recv" ELSE "killed")
    /\ UNCHANGED <<vmVars, resourceVars, vcpuVars, processVars, idx, start_failed,
                   sessionVars, sig_status>>

\* mini_kvm_send_sig queues s on every vCPU thread that has not returned.  While
\* no thread has installed a handler for s, its default action ends the process.
SendSig(s, from, to) ==
    LET targets == {v \in Vcpu : pc[v] \notin {"none", "done"}}
    IN  /\ Main(from, IF s \in handlers \/ targets = {} THEN to ELSE "killed")
        /\ pending' = [v \in Vcpu |-> IF v \in targets
                                     THEN [pending[v] EXCEPT ![s] = @ + 1]
                                     ELSE pending[v]]
        /\ UNCHANGED <<vmVars, resourceVars, pc, exit_reason, handler, processVars,
                       idx, start_failed, sessionVars, sig_status>>

\* status_handle_pause: store the state, then signal, then mini_kvm_pause_vm.
PauseStore ==
    /\ Main("PAUSE", "pause_sig")
    /\ state' = "PAUSED"
    /\ UNCHANGED <<paused, pause_lock, resourceVars, vcpuVars, processVars, idx,
                   start_failed, sessionVars, sig_status>>

PauseSignal == SendSig("SIGVMPAUSE", "pause_sig", "pause_lock")

\* mini_kvm_pause_vm keeps pause_lock until the matching resume.
PauseLock ==
    /\ Main("pause_lock", "pause_flag")
    /\ pause_lock = NoThread
    /\ pause_lock' = MainThread
    /\ UNCHANGED <<state, paused, resourceVars, vcpuVars, processVars, idx,
                   start_failed, sessionVars, sig_status>>

PauseFlag ==
    /\ Main("pause_flag", "reply")
    /\ paused' = TRUE
    /\ UNCHANGED <<state, pause_lock, resourceVars, vcpuVars, processVars, idx,
                   start_failed, sessionVars, sig_status>>

\* status_handle_resume: store the state, then signal, then mini_kvm_resume_vm.
ResumeStore ==
    /\ Main("RESUME", "resume_sig")
    /\ state' = "RUNNING"
    /\ UNCHANGED <<paused, pause_lock, resourceVars, vcpuVars, processVars, idx,
                   start_failed, sessionVars, sig_status>>

ResumeSignal == SendSig("SIGVMRESUME", "resume_sig", "resume_flag")

\* Mutation: mini_kvm_resume_vm forgets to clear the flag.
ResumeFlagKept ==
    /\ Main("resume_flag", "resume_signal")
    /\ UNCHANGED <<vmVars, resourceVars, vcpuVars, processVars, idx, start_failed,
                   sessionVars, sig_status>>

ResumeFlag ==
    /\ Main("resume_flag", "resume_signal")
    /\ paused' = FALSE
    /\ UNCHANGED <<state, pause_lock, resourceVars, vcpuVars, processVars, idx,
                   start_failed, sessionVars, sig_status>>

\* Mutation: nobody is woken.
CondSignalMissing ==
    /\ Main("resume_signal", "resume_unlock")
    /\ UNCHANGED <<vmVars, resourceVars, vcpuVars, processVars, idx, start_failed,
                   sessionVars, sig_status>>

\* pthread_cond_signal wakes one waiter, if there is one.
CondSignal ==
    /\ Main("resume_signal", "resume_unlock")
    /\ IF \E v \in Vcpu : pc[v] = "waiting"
       THEN \E v \in Vcpu : pc[v] = "waiting" /\ pc' = [pc EXCEPT ![v] = "relock"]
       ELSE UNCHANGED pc
    /\ UNCHANGED <<vmVars, resourceVars, exit_reason, pending, handler, processVars,
                   idx, start_failed, sessionVars, sig_status>>

\* Mutation: mini_kvm_resume_vm forgets to release pause_lock.
ResumeUnlockMissing ==
    /\ Main("resume_unlock", "reply")
    /\ UNCHANGED <<vmVars, resourceVars, vcpuVars, processVars, idx, start_failed,
                   sessionVars, sig_status>>

\* pthread_mutex_unlock releases pause_lock whoever has locked it meanwhile.
ResumeUnlock ==
    /\ Main("resume_unlock", "reply")
    /\ pause_lock' = NoThread
    /\ UNCHANGED <<state, paused, resourceVars, vcpuVars, processVars, idx,
                   start_failed, sessionVars, sig_status>>

\* status_handle_shutdown: a paused VM is also resumed.
ShutdownStore ==
    /\ Main("SHUTDOWN", "shutdown_sig")
    /\ state' = "SHUTDOWN"
    /\ UNCHANGED <<paused, pause_lock, resourceVars, vcpuVars, processVars, idx,
                   start_failed, sessionVars, sig_status>>

ShutdownSignal == SendSig("SIGVMSHUTDOWN", "shutdown_sig", "shutdown_test")

\* Mutation: a paused VM is not resumed on shutdown.
ShutdownTestMissing ==
    /\ Main("shutdown_test", "reply")
    /\ UNCHANGED <<vmVars, resourceVars, vcpuVars, processVars, idx, start_failed,
                   sessionVars, sig_status>>

ShutdownTest ==
    /\ Main("shutdown_test", IF paused THEN "resume_flag" ELSE "reply")
    /\ UNCHANGED <<vmVars, resourceVars, vcpuVars, processVars, idx, start_failed,
                   sessionVars, sig_status>>

\* status_handle_cmd_state
ShowState ==
    /\ Main("SHOW_STATE", "reply")
    /\ client' = [client EXCEPT !.res_state = state]
    /\ UNCHANGED <<vmVars, resourceVars, vcpuVars, processVars, idx, start_failed,
                   peer_open, sessions, sig_status>>

\* status_handle_regs: refused unless the state is PAUSED; then the vCPUs of the
\* command's mask are read in index order.
ShowRegs ==
    /\ Main("SHOW_REGS", IF state = "PAUSED" THEN "get_regs" ELSE "reply")
    /\ idx' = 0
    /\ UNCHANGED <<vmVars, resourceVars, vcpuVars, processVars, start_failed,
                   sessionVars, sig_status>>

\* One turn of the loop: the vCPU is not in the mask, or KVM_GET_REGS and
\* KVM_GET_SREGS wait until it is out of KVM_RUN.
GetRegs(selected) ==
    /\ Main("get_regs", "get_regs")
    /\ idx < NVcpu
    /\ selected => pc[idx] # "guest"
    /\ idx' = idx + 1
    /\ UNCHANGED <<vmVars, resourceVars, vcpuVars, processVars, start_failed,
                   sessionVars, sig_status>>

\* The loop is over, or an ioctl failed and the handler returned its error.
RegsDone ==
    /\ Main("get_regs", "reply")
    /\ idx < NVcpu => pc[idx] # "guest"
    /\ idx' = 0
    /\ UNCHANGED <<vmVars, resourceVars, vcpuVars, processVars, start_failed,
                   sessionVars, sig_status>>

\* status_handle_dump_mem: refused unless the state is PAUSED; the dump itself
\* reads guest memory at location "dumping".
DumpMem ==
    /\ Main("DUMP_MEM", IF state = "PAUSED" THEN "dumping" ELSE "reply")
    /\ UNCHANGED <<vmVars, resourceVars, vcpuVars, processVars, idx, start_failed,
                   sessionVars, sig_status>>

DumpDone ==
    /\ Main("dumping", "reply")
    /\ UNCHANGED <<vmVars, resourceVars, vcpuVars, processVars, idx, start_failed,
                   sessionVars, sig_status>>

\* SIGINT or SIGTERM: set_signal_status only records it.
Sigterm ==
    /\ "sigterm" \in Faults
    /\ ProcessAlive
    /\ ~sig_status
    /\ sig_status' = TRUE
    /\ UNCHANGED <<vmVars, resourceVars, vcpuVars, processVars, mpc, idx,
                   start_failed, sessionVars>>

\* End of a turn of the main loop: a recorded signal shuts the VM down.
CheckSignal ==
    /\ \/ ~sig_status /\ Main("sig", "loop") /\ UNCHANGED state
       \/ sig_status /\ Main("sig", "sig_send") /\ state' = "SHUTDOWN"
    /\ UNCHANGED <<paused, pause_lock, resourceVars, vcpuVars, processVars, idx,
                   start_failed, sessionVars, sig_status>>

SignalShutdown == SendSig("SIGVMSHUTDOWN", "sig_send", "loop")
------------------------------------------------------------------------------
(* The main thread: clean up *)

\* Mutation: the resources of a vCPU are released without joining its thread.
ReleaseWithoutJoin ==
    /\ Main("clean", "clean")
    /\ idx < NVcpu
    /\ mapped' = [mapped EXCEPT ![idx] = FALSE]
    /\ idx' = idx + 1
    /\ UNCHANGED <<vmVars, thread, vcpuVars, processVars, start_failed, sessionVars,
                   sig_status>>

\* mini_kvm_clean_kvm for the next vCPU: join its thread if there is one (an
\* undefined thread value may let the join return at once), unmap, close.
JoinAndRelease ==
    /\ Main("clean", "clean")
    /\ idx < NVcpu
    /\ thread[idx] = "live" => pc[idx] = "done"
    /\ mapped' = [mapped EXCEPT ![idx] = FALSE]
    /\ idx' = idx + 1
    /\ UNCHANGED <<vmVars, thread, vcpuVars, processVars, start_failed, sessionVars,
                   sig_status>>

\* The vCPU table, guest memory and struct Kvm are freed; main returns.
FreeKvm ==
    /\ Main("clean", "exited")
    /\ idx = NVcpu
    /\ UNCHANGED <<vmVars, resourceVars, vcpuVars, processVars, idx, start_failed,
                   sessionVars, sig_status>>
------------------------------------------------------------------------------
MainStep ==
    \/ CreateSocket \/ CreateThread \/ CreateThreadFails \/ AllThreadsCreated \/ StartVm
    \/ LoopTest \/ AcceptNone \/ Reply
    \/ PauseStore \/ PauseSignal \/ PauseLock \/ PauseFlag
    \/ ResumeStore \/ ResumeSignal \/ ResumeFlag \/ CondSignal \/ ResumeUnlock
    \/ ShutdownStore \/ ShutdownSignal \/ ShutdownTest
    \/ ShowState \/ ShowRegs \/ (\E b \in BOOLEAN : GetRegs(b)) \/ RegsDone
    \/ DumpMem \/ DumpDone \/ CheckSignal \/ SignalShutdown
    \/ JoinAndRelease \/ FreeKvm

ClientStep == (\E c \in Commands : Receive(c)) \/ Disconnect

Environment == (\E kind \in Clients : Accept(kind)) \/ ClientDies \/ Sigterm

Next ==
    \/ MainStep \/ ClientStep \/ Environment
    \/ \E v \in Vcpu : ThreadStep(v) \/ SignalStep(v) \/ GuestStep(v)

Spec == Init /\ [][Next]_vars

\* The kernel schedules every thread that can run again and again, be it for its own code
\* or for a pending signal, so it does not withhold a contended mutex from one thread
\* forever; a client that is connected goes on to its next command
\* or to its exit.  Nothing is assumed of the guest, of new clients or of faults.
Fairness ==
    /\ WF_vars(MainStep)
    /\ WF_vars(ClientStep)
    /\ \A v \in Vcpu : SF_vars(ThreadStep(v) \/ SignalStep(v))

FairSpec == Spec /\ Fairness
------------------------------------------------------------------------------
(* Safety *)

\* mini_kvm_pause_vm never waits for a lock its own thread holds: pause_lock is
\* kept from one command to another, so this rests on the clients' state check,
\* on kvm->paused and on every resume path releasing the lock.
NoSelfDeadlock == mpc = "pause_lock" => pause_lock # MainThread

\* kvm->state and kvm->paused are two fields for one fact: RUNNING with the flag
\* still set is visible only inside status_handle_resume, whatever the vCPU
\* threads store in between.
FlagAgreesWithState ==
    paused /\ state = "RUNNING" => mpc \in {"resume_sig", "resume_flag", "killed"}

\* A client that got its reply sees the VM it asked for: after PAUSE the flag is
\* set and no vCPU store has brought RUNNING back; after RESUME the flag is clear
\* and main has let go of pause_lock.
ReplyMatchesVm ==
    mpc \in {"reply", "recv"} =>
        /\ "PAUSE" \in client.sent => paused /\ state # "RUNNING"
        /\ "RESUME" \in client.sent => ~paused /\ pause_lock # MainThread

\* mini_kvm_clean_kvm unmaps kvm_run and closes the descriptor of a vCPU only
\* when no thread uses them, and frees struct Kvm only when no thread is left,
\* also after a failed or partial start.
NoUseAfterRelease ==
    \A v \in Vcpu : ~mapped[v] \/ mpc = "exited" => pc[v] \in {"none", "done"}

\* No vCPU gets past the pause test before mini_kvm_start_vm has created every
\* thread and stored RUNNING.
NoEarlyRun ==
    mpc \in {"socket", "create", "started"} =>
        \A v \in Vcpu : pc[v] \in {"none", "sig_pause", "sig_resume", "sig_shutdown",
                                  "while", "test", "paused"}

\* Once the main loop has ended, the state that a joined thread has to see stays
\* SHUTDOWN: no late store of a vCPU or of a command handler revives the VM while
\* main waits in pthread_join.  (A failed start joins with RUNNING stored.)
JoinSeesShutdown ==
    mpc = "clean" /\ ~start_failed /\ (\E v \in Vcpu : thread[v] = "live")
        => state = "SHUTDOWN"

\* A command ends the process by a signal without handler only while no vCPU has
\* entered its loop: once one thread has gone through its three signal() calls
\* the handlers serve the whole process.
KilledOnlyBeforeLoops ==
    [][mpc' = "killed" /\ mpc \notin {"reply", "killed"} =>
           \A v \in Vcpu : pc[v] \in {"none", "sig_pause", "sig_resume", "sig_shutdown"}]_vars
------------------------------------------------------------------------------
(* Refinement *)

AbsPhase ==
    CASE mpc \in {"socket", "create", "started"} -> "boot"
      [] mpc = "clean" -> "ending"
      [] mpc = "exited" -> "gone"
      [] mpc = "killed" -> "killed"
      [] OTHER -> "up"

\* A shutdown of a paused VM goes through the steps of mini_kvm_resume_vm.
AbsServing ==
    CASE mpc \in {"PAUSE", "pause_sig", "pause_lock", "pause_flag"} -> "PAUSE"
      [] mpc \in {"SHUTDOWN", "shutdown_sig", "shutdown_test"} -> "SHUTDOWN"
      [] mpc \in {"RESUME", "resume_sig", "resume_flag", "resume_signal", "resume_unlock"}
            -> (IF client.kind = "shutdown" THEN "SHUTDOWN" ELSE "RESUME")
      [] mpc \in {"SHOW_STATE", "SHOW_REGS", "get_regs", "DUMP_MEM", "dumping"} -> "QUERY"
      [] OTHER -> "none"

Lifecycle == INSTANCE VmLifecycle WITH
    phase <- AbsPhase,
    serving <- AbsServing,
    frozen <- paused,
    live <- {v \in Vcpu : pc[v] \notin {"none", "done"}},
    held <- {v \in Vcpu : mapped[v]}

\* The process with all its threads, locks and signals is a VmLifecycle: PAUSE,
\* RESUME and SHUTDOWN take effect once, inside their handler, a VM is not left in
\* the middle of a command, and threads, resources and process end in that order.
RefinesLifecycle == Lifecycle!Spec
------------------------------------------------------------------------------
(* Liveness, under FairSpec *)

\* vCPU v sleeps in pthread_cond_wait with no signal on its way.
Asleep(v) ==
    /\ pc[v] = "waiting"
    /\ handler[v] = "none"
    /\ \A s \in Signals : pending[v][s] = 0

\* When a vCPU shuts the VM down, the main loop ends even if clients keep
\* connecting: none of their commands brings the VM back.
ShutdownEndsLoop ==
    (state = "SHUTDOWN" /\ mpc \in {"loop", "accept", "sig", "sig_send"})
        ~> mpc \in {"clean", "exited", "killed"}

\* A shutdown command on a paused VM with one vCPU left, which sleeps in the pause
\* (the threads of the others have ended, if there are others), wakes it, and the
\* process joins it and ends.  Two sleepers are not promised that: the one
\* pthread_cond_signal wakes one of them (ResumeTwoVcpus), and main joins both.
SleepingVmShutsDown ==
    (mpc = "SHUTDOWN" /\ paused /\ \E v \in Vcpu :
        Asleep(v) /\ \A w \in Vcpu \ {v} : pc[w] = "done") ~> ~ProcessAlive

\* A resume command that has stored RUNNING brings the only vCPU that is in the
\* pause, and asleep there, back into the guest, unless something else changes the
\* VM's state first or the logger's mutex is lost in a signal handler.  Of several
\* sleepers one is woken (ResumeTwoVcpus), and a vCPU that is in the pause but not
\* yet asleep may sleep through the wake-up (LostWakeup).
ResumedVcpuRuns ==
    \A v \in Vcpu :
        /\ mpc = "resume_sig" /\ Asleep(v)
        /\ \A w \in Vcpu \ {v} : pc[w] \notin {"paused", "wait", "waiting", "relock"}
        ~> \/ pc[v] = "guest" \/ state # "RUNNING" \/ ~ProcessAlive
           \/ \E w \in Vcpu : handler[w] = "stuck"

\* A thread that holds the logger's mutex gives it back, unless its own signal
\* handler has interrupted log_log there and waits for the mutex itself.
LogCallReturns ==
    \A v \in Vcpu :
        log_lock = v ~> (log_lock # v \/ handler[v] = "stuck" \/ ~ProcessAlive)

\* mini_kvm_pause_vm gets pause_lock.
PauseCompletes == mpc = "pause_lock" ~> mpc # "pause_lock"
------------------------------------------------------------------------------
(* What the documentation says and the code does not keep *)

\* The wake-up of a resume leaves no vCPU asleep in the pause.
ResumeWakesAll ==
    [][mpc = "resume_signal" /\ mpc' = "resume_unlock" => \A v \in Vcpu : pc'[v] # "waiting"]_vars

\* While the VM is RUNNING and main is between two clients, no vCPU sleeps in the
\* pause: one that had seen the flag before a resume cleared it must not go to
\* sleep after the wake-up.
NoSleeperWhileRunning ==
    state = "RUNNING" /\ mpc = "loop" => \A v \in Vcpu : pc[v] # "waiting"

\* Guest memory is dumped only from a VM that has stopped executing.
DumpSeesStoppedGuest == mpc = "dumping" => \A v \in Vcpu : pc[v] # "guest"
==============================================================================
