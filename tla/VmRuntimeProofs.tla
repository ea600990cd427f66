--------------------------- MODULE VmRuntimeProofs ---------------------------
(***************************************************************************)
(* Safety of VmRuntime for every number of vCPUs, of sessions, and every   *)
(* choice of clients, guest exits and faults.                              *)
(***************************************************************************)
EXTENDS VmRuntime, TLAPS

ResumeTail == {"resume_signal", "resume_unlock"}
PausePcs == {"PAUSE", "pause_sig", "pause_lock", "pause_flag"}
BootPcs == {"socket", "create", "started"}

\* Which client the main thread is working for, by its control location.
SessionInv ==
    /\ client.sent = {} => client.res_state = "PAUSED"
    /\ "PAUSE" \in client.sent => client.kind = "pause"
    /\ "RESUME" \in client.sent => client.kind = "resume"
    /\ mpc \in PausePcs => "PAUSE" \in client.sent
    /\ mpc = "SHOW_STATE" => client.sent = {"SHOW_STATE"}
    /\ mpc \in {"RESUME", "resume_sig", "resume_flag"} \cup ResumeTail =>
           client.kind \in {"resume", "shutdown"}
    /\ mpc \in {"SHUTDOWN", "shutdown_sig", "shutdown_test"} => client.kind = "shutdown"
    /\ mpc \in {"SHOW_REGS", "get_regs", "DUMP_MEM", "dumping"} => client.kind = "status"

\* The protocol of `state', `paused' and pause_lock on the main thread.
PauseInv ==
    /\ mpc \in BootPcs => ~paused
    /\ mpc \in PausePcs \cup ResumeTail => ~paused
    /\ mpc \in PausePcs \ {"PAUSE"} => state # "RUNNING"
    /\ pause_lock = MainThread => paused \/ mpc = "pause_flag" \/ mpc \in ResumeTail
    /\ client.kind = "pause" /\ client.sent # {} /\ "PAUSE" \notin client.sent
         /\ client.res_state = "RUNNING" => ~paused

\* The loop index and what the loops over the vCPUs have done.
ReleaseInv ==
    /\ mpc \notin {"create", "started", "get_regs", "clean", "exited", "killed"} => idx = 0
    /\ mpc = "exited" => idx = NVcpu
    /\ \A v \in Vcpu : thread[v] = "live" <=> pc[v] # "none"
    /\ \A v \in Vcpu : mpc \in {"socket", "create"} /\ idx <= v => pc[v] = "none"
    /\ \A v \in Vcpu : ~mapped[v] => mpc \in {"clean", "exited"} /\ v < idx
    /\ \A v \in Vcpu : mpc \in {"clean", "exited"} /\ v < idx =>
           pc[v] \in {"none", "done"} /\ ~mapped[v]

\* Nothing happens to the state before the VM is started.
BootInv == mpc \in BootPcs => state = "PAUSED"

\* What the main thread's commands rely on, what its loops rely on, and the start.
CommandInv == SessionInv /\ PauseInv /\ FlagAgreesWithState /\ ReplyMatchesVm
LoopInv == ReleaseInv /\ JoinSeesShutdown
StartInv == BootInv /\ NoEarlyRun

IInv == TypeOK /\ CommandInv /\ LoopInv /\ StartInv

(* Type correctness *)

\* The VM that mini_kvm_setup_kvm hands over is well typed.
LEMMA TypeInit == Init => TypeOK
  <1> SUFFICES ASSUME Init PROVE TypeOK
    OBVIOUS
  <1>1. mapped \in [Vcpu -> BOOLEAN]
    BY Zenon DEF Init
  <1>2. client \in [kind : SubCommands \cup {"none"}, sent : SUBSET Commands, res_state : VMState]
    BY DEF Init, NoClient, VMState
  <1>3. pending \in [Vcpu -> [Signals -> Nat]]
    BY DEF Init
  <1>4. /\ thread \in [Vcpu -> {"null", "live", "junk"}]
        /\ pc \in [Vcpu -> VcpuPc]
        /\ exit_reason \in [Vcpu -> ExitReasons]
        /\ handler \in [Vcpu -> LoggedSignals \cup {"none", "stuck"}]
    BY DEF Init, VcpuPc, ExitReasons
  <1>5. state \in VMState /\ mpc \in MainPc /\ idx \in 0 .. NVcpu /\ sessions \in Nat
    BY NVcpuAssumption DEF Init, VMState, MainPc
  <1>6. QED
    BY <1>1, <1>2, <1>3, <1>4, <1>5, Zenon DEF Init, TypeOK

\* A step of vCPU thread v keeps every variable in its type.
LEMMA TypeThread == TypeOK /\ (\E v \in Vcpu : ThreadStep(v)) => TypeOK'
  <1> SUFFICES ASSUME TypeOK, NEW v \in Vcpu, ThreadStep(v) PROVE TypeOK'
    OBVIOUS
  <1> USE DEF TypeOK, Step, VcpuPc, vmVars, resourceVars, processVars, sessionVars, mainVars
  <1>1. CASE InstallHandler(v)
    BY <1>1 DEF InstallHandler, Signals
  <1>2. CASE WhileTest(v)
    BY <1>2 DEF WhileTest
  <1>3. CASE PausedTest(v)
    BY <1>3 DEF PausedTest
  <1>4. CASE FlagTest(v)
    BY <1>4 DEF FlagTest
  <1>5. CASE CondWait(v)
    BY <1>5 DEF CondWait
  <1>6. CASE CondRelock(v)
    BY <1>6 DEF CondRelock
  <1>7. CASE EnterGuest(v)
    BY <1>7 DEF EnterGuest
  <1>8. CASE HandleExit(v)
    BY <1>8 DEF HandleExit
  <1>9. CASE LogDone(v)
    BY <1>9 DEF LogDone
  <1>10. CASE StoreShutdown(v)
    BY <1>10 DEF StoreShutdown, VMState
  <1>11. QED
    BY <1>1, <1>2, <1>3, <1>4, <1>5, <1>6, <1>7, <1>8, <1>9, <1>10 DEF ThreadStep

\* So does a step of its signal handlers or of its guest.
LEMMA TypeSignal == TypeOK /\ (\E v \in Vcpu : SignalStep(v) \/ GuestStep(v)) => TypeOK'
  <1> SUFFICES ASSUME TypeOK, NEW v \in Vcpu, SignalStep(v) \/ GuestStep(v) PROVE TypeOK'
    OBVIOUS
  <1> USE DEF TypeOK, Step, VcpuPc, vmVars, resourceVars, processVars, sessionVars, mainVars
  <1>1. ASSUME NEW s \in Signals, TakeSignal(v, s)
        PROVE  /\ pending' \in [Vcpu -> [Signals -> Nat]]
               /\ handler' \in [Vcpu -> LoggedSignals \cup {"none", "stuck"}]
    BY <1>1 DEF TakeSignal
  <1>2. ASSUME NEW s \in Signals, Deliver(v, s) PROVE TypeOK'
    BY <1>1, <1>2 DEF Deliver
  <1>3. ASSUME NEW s \in Signals, InterruptGuest(v, s) PROVE TypeOK'
    BY <1>1, <1>3 DEF InterruptGuest, ExitReasons
  <1>4. CASE HandlerLog(v)
    BY <1>4 DEF HandlerLog
  <1>5. CASE GuestExit(v)
    BY <1>5, GuestExitsAssumption DEF GuestExit
  <1>6. CASE RunFails(v)
    BY <1>6 DEF RunFails, ExitReasons
  <1>7. QED
    BY <1>2, <1>3, <1>4, <1>5, <1>6 DEF SignalStep, GuestStep

\* So does a step of the main thread.
LEMMA TypeMain == TypeOK /\ MainStep => TypeOK'
  <1> SUFFICES ASSUME TypeOK, MainStep PROVE TypeOK'
    OBVIOUS
  <1> USE DEF TypeOK, Main, MainPc, vmVars, resourceVars, vcpuVars, processVars, sessionVars
  <1>0. ASSUME NEW s \in Signals, NEW from, NEW to \in MainPc, SendSig(s, from, to)
        PROVE  TypeOK'
    <2>1. pending' \in [Vcpu -> [Signals -> Nat]]
      BY <1>0 DEF SendSig
    <2>2. QED
      BY <1>0, <2>1 DEF SendSig
  <1>1. CASE CreateSocket
    BY <1>1 DEF CreateSocket
  <1>2. CASE CreateThread
    BY <1>2, NVcpuAssumption DEF CreateThread, VcpuPc, Vcpu
  <1>3. CASE CreateThreadFails
    BY <1>3, NVcpuAssumption DEF CreateThreadFails
  <1>4. CASE AllThreadsCreated
    BY <1>4 DEF AllThreadsCreated
  <1>5. CASE StartVm
    BY <1>5, NVcpuAssumption DEF StartVm, VMState
  <1>6. CASE LoopTest
    BY <1>6 DEF LoopTest
  <1>7. CASE AcceptNone
    BY <1>7 DEF AcceptNone
  <1>8. CASE Reply
    BY <1>8 DEF Reply
  <1>9. CASE PauseStore
    BY <1>9 DEF PauseStore, VMState
  <1>10. CASE PauseSignal
    BY <1>0, <1>10 DEF PauseSignal, Signals
  <1>11. CASE PauseLock
    BY <1>11 DEF PauseLock
  <1>12. CASE PauseFlag
    BY <1>12 DEF PauseFlag
  <1>13. CASE ResumeStore
    BY <1>13 DEF ResumeStore, VMState
  <1>14. CASE ResumeSignal
    BY <1>0, <1>14 DEF ResumeSignal, Signals
  <1>15. CASE ResumeFlag
    BY <1>15 DEF ResumeFlag
  <1>16. CASE CondSignal
    BY <1>16 DEF CondSignal, VcpuPc
  <1>17. CASE ResumeUnlock
    BY <1>17 DEF ResumeUnlock
  <1>18. CASE ShutdownStore
    BY <1>18 DEF ShutdownStore, VMState
  <1>19. CASE ShutdownSignal
    BY <1>0, <1>19 DEF ShutdownSignal, Signals
  <1>20. CASE ShutdownTest
    BY <1>20 DEF ShutdownTest
  <1>21. CASE ShowState
    BY <1>21 DEF ShowState
  <1>22. CASE ShowRegs
    BY <1>22, NVcpuAssumption DEF ShowRegs
  <1>23. CASE \E b \in BOOLEAN : GetRegs(b)
    BY <1>23, NVcpuAssumption DEF GetRegs
  <1>24. CASE RegsDone
    BY <1>24, NVcpuAssumption DEF RegsDone
  <1>25. CASE DumpMem
    BY <1>25 DEF DumpMem
  <1>26. CASE DumpDone
    BY <1>26 DEF DumpDone
  <1>27. CASE CheckSignal
    BY <1>27 DEF CheckSignal, VMState
  <1>28. CASE SignalShutdown
    BY <1>0, <1>28 DEF SignalShutdown, Signals
  <1>29. CASE JoinAndRelease
    <2>1. mapped' \in [Vcpu -> BOOLEAN]
      BY <1>29, Zenon DEF JoinAndRelease
    <2>2. QED
      BY <1>29, <2>1, NVcpuAssumption DEF JoinAndRelease
  <1>30. CASE FreeKvm
    BY <1>30 DEF FreeKvm
  <1>31. QED
    BY <1>1, <1>2, <1>3, <1>4, <1>5, <1>6, <1>7, <1>8, <1>9, <1>10, <1>11, <1>12,
       <1>13, <1>14, <1>15, <1>16, <1>17, <1>18, <1>19, <1>20, <1>21, <1>22, <1>23,
       <1>24, <1>25, <1>26, <1>27, <1>28, <1>29, <1>30 DEF MainStep

\* So does a client or the environment.
LEMMA TypeClient == TypeOK /\ (ClientStep \/ Environment) => TypeOK'
  <1> SUFFICES ASSUME TypeOK, ClientStep \/ Environment PROVE TypeOK'
    OBVIOUS
  <1> USE DEF TypeOK, Main, MainPc, vmVars, resourceVars, vcpuVars, processVars, sessionVars
  <1>1. CASE \E c \in Commands : Receive(c)
    BY <1>1 DEF Receive, Commands
  <1>2. CASE Disconnect
    BY <1>2 DEF Disconnect, NoClient, VMState
  <1>3. CASE \E kind \in Clients : Accept(kind)
    <2> PICK kind \in Clients : Accept(kind)
      BY <1>3
    <2>1. client' = [kind |-> kind, sent |-> {}, res_state |-> "PAUSED"]
      BY DEF Accept, NoClient
    <2>2. kind \in SubCommands
      BY ClientsAssumption
    <2>3. client' \in [kind : SubCommands \cup {"none"}, sent : SUBSET Commands, res_state : VMState]
      BY <2>1, <2>2 DEF VMState
    <2>4. QED
      BY <2>3 DEF Accept
  <1>4. CASE ClientDies
    <2>1. peer_open' \in BOOLEAN
      BY <1>4, Zenon DEF ClientDies
    <2>2. QED
      BY <1>4, <2>1 DEF ClientDies
  <1>5. CASE Sigterm
    BY <1>5 DEF Sigterm
  <1>6. QED
    BY <1>1, <1>2, <1>3, <1>4, <1>5 DEF ClientStep, Environment

\* Stuttering keeps TypeOK.
LEMMA TypeStutter == TypeOK /\ UNCHANGED vars => TypeOK'
  BY DEF TypeOK, vars, vmVars, resourceVars, vcpuVars, processVars, sessionVars, mainVars

\* Every variable keeps its type, whatever the threads, the clients and the
\* guest do.
THEOREM TypeCorrect == Spec => []TypeOK
  <1>1. TypeOK /\ [Next]_vars => TypeOK'
    BY TypeThread, TypeSignal, TypeMain, TypeClient, TypeStutter DEF Next
  <1>2. QED
    BY TypeInit, <1>1, PTL DEF Spec
------------------------------------------------------------------------------
(* The inductive invariant: the vCPU threads *)

\* All that the main thread can notice of a step of vCPU v: the state may become
\* SHUTDOWN, pause_lock may pass to nobody or to v, and v moves on.
VcpuEffect(v) ==
    /\ UNCHANGED <<paused, resourceVars, mpc, idx, start_failed, client>>
    /\ state' \in {state, "SHUTDOWN"}
    /\ pause_lock' \in {pause_lock, NoThread, v}
    /\ \/ pc' = pc
       \/ /\ pc[v] \notin {"none", "done"}
          /\ \E to \in VcpuPc \ {"none"} : pc' = [pc EXCEPT ![v] = to]

\* Every step of a vCPU thread, its handlers or its guest has that effect at most.
LEMMA VcpuStepEffect ==
  ASSUME TypeOK, NEW v \in Vcpu, ThreadStep(v) \/ SignalStep(v) \/ GuestStep(v)
  PROVE  VcpuEffect(v)
  <1> USE DEF VcpuEffect, Step, VcpuPc, vmVars, resourceVars, processVars, sessionVars, mainVars
  <1>1. CASE InstallHandler(v)
    BY <1>1 DEF InstallHandler
  <1>2. CASE WhileTest(v)
    BY <1>2 DEF WhileTest
  <1>3. CASE PausedTest(v)
    BY <1>3 DEF PausedTest
  <1>4. CASE FlagTest(v)
    BY <1>4 DEF FlagTest
  <1>5. CASE CondWait(v)
    BY <1>5 DEF CondWait
  <1>6. CASE CondRelock(v)
    BY <1>6 DEF CondRelock
  <1>7. CASE EnterGuest(v)
    BY <1>7 DEF EnterGuest
  <1>8. CASE HandleExit(v)
    BY <1>8 DEF HandleExit
  <1>9. CASE LogDone(v)
    BY <1>9 DEF LogDone
  <1>10. CASE StoreShutdown(v)
    BY <1>10 DEF StoreShutdown
  <1>11. CASE HandlerLog(v)
    BY <1>11 DEF HandlerLog
  <1>12. CASE GuestExit(v)
    BY <1>12 DEF GuestExit
  <1>13. CASE RunFails(v)
    BY <1>13 DEF RunFails
  <1>14. CASE \E s \in Signals : Deliver(v, s)
    BY <1>14 DEF Deliver
  <1>15. CASE \E s \in Signals : InterruptGuest(v, s)
    BY <1>15 DEF InterruptGuest
  <1>16. QED
    BY <1>1, <1>2, <1>3, <1>4, <1>5, <1>6, <1>7, <1>8, <1>9, <1>10, <1>11, <1>12,
       <1>13, <1>14, <1>15 DEF ThreadStep, SignalStep, GuestStep

\* No step of a vCPU disturbs the commands.
LEMMA VcpuKeepsCommandInv ==
  ASSUME TypeOK, CommandInv, NEW v \in Vcpu, VcpuEffect(v)
  PROVE  CommandInv'
  <1> v # MainThread /\ NoThread # MainThread
    BY NVcpuAssumption DEF Vcpu, MainThread, NoThread
  <1> USE DEF CommandInv, VcpuEffect
  <1>1. SessionInv'
    BY DEF SessionInv
  <1>2. PauseInv'
    BY DEF PauseInv
  <1>3. FlagAgreesWithState'
    BY DEF FlagAgreesWithState
  <1>4. ReplyMatchesVm'
    BY DEF ReplyMatchesVm
  <1>5. QED
    BY <1>1, <1>2, <1>3, <1>4

\* Nor the loops: a thread that has returned does not come back.
LEMMA VcpuKeepsLoopInv ==
  ASSUME TypeOK, LoopInv, NEW v \in Vcpu, VcpuEffect(v)
  PROVE  LoopInv'
  <1> USE DEF LoopInv, VcpuEffect, TypeOK, resourceVars
  <1>1. ReleaseInv'
    BY DEF ReleaseInv
  <1>2. JoinSeesShutdown'
    BY DEF JoinSeesShutdown
  <1>3. QED
    BY <1>1, <1>2

\* Nor the start: before it, a thread goes round its pause test.
LEMMA VcpuKeepsStartInv ==
  ASSUME TypeOK, PauseInv, StartInv, NEW v \in Vcpu,
         ThreadStep(v) \/ SignalStep(v) \/ GuestStep(v)
  PROVE  StartInv'
  <1>1. VcpuEffect(v)
    BY VcpuStepEffect
  <1>2. CASE mpc \notin BootPcs
    BY <1>1, <1>2 DEF StartInv, BootInv, NoEarlyRun, VcpuEffect, BootPcs
  <1>3. CASE mpc \in BootPcs
    <2>1. state = "PAUSED" /\ ~paused /\ mpc' = mpc
      BY <1>1, <1>3 DEF StartInv, BootInv, PauseInv, VcpuEffect
    <2> DEFINE Early == {"none", "sig_pause", "sig_resume", "sig_shutdown",
                         "while", "test", "paused"}
    <2>2. \A w \in Vcpu : pc[w] \in Early
      BY <1>3 DEF StartInv, NoEarlyRun, BootPcs
    <2> SUFFICES state' = "PAUSED" /\ \A w \in Vcpu : pc'[w] \in Early
      BY <2>1 DEF StartInv, BootInv, NoEarlyRun
    <2> USE <2>1, <2>2 DEF Step, TypeOK, vmVars
    <2>3. CASE InstallHandler(v)
      BY <2>3 DEF InstallHandler
    <2>4. CASE WhileTest(v)
      BY <2>4 DEF WhileTest
    <2>5. CASE PausedTest(v)
      BY <2>5 DEF PausedTest
    <2>6. CASE FlagTest(v)
      BY <2>6 DEF FlagTest
    <2>7. CASE CondWait(v)
      BY <2>7 DEF CondWait
    <2>8. CASE CondRelock(v)
      BY <2>8 DEF CondRelock
    <2>9. CASE EnterGuest(v)
      BY <2>9 DEF EnterGuest
    <2>10. CASE HandleExit(v)
      BY <2>10 DEF HandleExit
    <2>11. CASE LogDone(v)
      BY <2>11 DEF LogDone
    <2>12. CASE StoreShutdown(v)
      BY <2>12 DEF StoreShutdown
    <2>13. CASE HandlerLog(v)
      BY <2>13 DEF HandlerLog
    <2>14. CASE GuestExit(v)
      BY <2>14 DEF GuestExit
    <2>15. CASE RunFails(v)
      BY <2>15 DEF RunFails
    <2>16. CASE \E s \in Signals : Deliver(v, s)
      BY <2>16 DEF Deliver
    <2>17. CASE \E s \in Signals : InterruptGuest(v, s)
      BY <2>17 DEF InterruptGuest
    <2>18. QED
      BY <2>3, <2>4, <2>5, <2>6, <2>7, <2>8, <2>9, <2>10, <2>11, <2>12, <2>13,
         <2>14, <2>15, <2>16, <2>17 DEF ThreadStep, SignalStep, GuestStep
  <1>4. QED
    BY <1>2, <1>3
------------------------------------------------------------------------------
(* The inductive invariant: the main thread *)

\* Each command handler keeps state, flag and lock in agreement and answers the
\* client it was called for.
LEMMA MainKeepsCommandInv ==
  ASSUME TypeOK, CommandInv, MainStep
  PROVE  CommandInv'
  <1> USE DEF CommandInv, SessionInv, PauseInv, FlagAgreesWithState, ReplyMatchesVm, Main,
      vmVars, sessionVars, PausePcs, ResumeTail, BootPcs
  <1>1. CASE CreateSocket
    BY <1>1 DEF CreateSocket
  <1>2. CASE CreateThread
    BY <1>2 DEF CreateThread
  <1>3. CASE CreateThreadFails
    BY <1>3 DEF CreateThreadFails
  <1>4. CASE AllThreadsCreated
    BY <1>4 DEF AllThreadsCreated
  <1>5. CASE StartVm
    BY <1>5 DEF StartVm
  <1>6. CASE LoopTest
    BY <1>6 DEF LoopTest
  <1>7. CASE AcceptNone
    BY <1>7 DEF AcceptNone
  <1>8. CASE Reply
    BY <1>8 DEF Reply
  <1>9. CASE PauseStore
    BY <1>9 DEF PauseStore
  <1>10. CASE PauseSignal
    BY <1>10 DEF PauseSignal, SendSig
  <1>11. CASE PauseLock
    BY <1>11 DEF PauseLock, NoThread, MainThread
  <1>12. CASE PauseFlag
    BY <1>12 DEF PauseFlag
  <1>13. CASE ResumeStore
    BY <1>13 DEF ResumeStore
  <1>14. CASE ResumeSignal
    BY <1>14 DEF ResumeSignal, SendSig
  <1>15. CASE ResumeFlag
    BY <1>15 DEF ResumeFlag
  <1>16. CASE CondSignal
    BY <1>16 DEF CondSignal
  <1>17. CASE ResumeUnlock
    BY <1>17 DEF ResumeUnlock, NoThread, MainThread
  <1>18. CASE ShutdownStore
    BY <1>18 DEF ShutdownStore
  <1>19. CASE ShutdownSignal
    BY <1>19 DEF ShutdownSignal, SendSig
  <1>20. CASE ShutdownTest
    BY <1>20 DEF ShutdownTest
  <1>21. CASE ShowState
    <2>1. client'.kind = client.kind /\ client'.sent = client.sent /\ client'.res_state = state
      BY <1>21 DEF ShowState, TypeOK
    <2>2. client.sent = {"SHOW_STATE"} /\ mpc = "SHOW_STATE" /\ mpc' = "reply"
      BY <1>21 DEF ShowState
    <2>3. QED
      BY <1>21, <2>1, <2>2 DEF ShowState
  <1>22. CASE ShowRegs
    BY <1>22 DEF ShowRegs
  <1>23. CASE \E b \in BOOLEAN : GetRegs(b)
    BY <1>23 DEF GetRegs
  <1>24. CASE RegsDone
    BY <1>24 DEF RegsDone
  <1>25. CASE DumpMem
    BY <1>25 DEF DumpMem
  <1>26. CASE DumpDone
    BY <1>26 DEF DumpDone
  <1>27. CASE CheckSignal
    BY <1>27 DEF CheckSignal
  <1>28. CASE SignalShutdown
    BY <1>28 DEF SignalShutdown, SendSig
  <1>29. CASE JoinAndRelease
    BY <1>29 DEF JoinAndRelease
  <1>30. CASE FreeKvm
    BY <1>30 DEF FreeKvm
  <1>31. QED
    BY <1>1, <1>2, <1>3, <1>4, <1>5, <1>6, <1>7, <1>8, <1>9, <1>10, <1>11, <1>12,
       <1>13, <1>14, <1>15, <1>16, <1>17, <1>18, <1>19, <1>20, <1>21, <1>22, <1>23,
       <1>24, <1>25, <1>26, <1>27, <1>28, <1>29, <1>30 DEF MainStep

\* The loops over the vCPUs reach each one once and join before they release.
LEMMA MainKeepsLoopInv ==
  ASSUME TypeOK, LoopInv, MainStep
  PROVE  LoopInv'
  <1> USE NVcpuAssumption DEF LoopInv, ReleaseInv, JoinSeesShutdown, Main, TypeOK, Vcpu,
      vmVars, resourceVars, vcpuVars
  <1>1. CASE CreateSocket
    BY <1>1 DEF CreateSocket
  <1>2. CASE CreateThread
    BY <1>2 DEF CreateThread
  <1>3. CASE CreateThreadFails
    BY <1>3 DEF CreateThreadFails
  <1>4. CASE AllThreadsCreated
    BY <1>4 DEF AllThreadsCreated
  <1>5. CASE StartVm
    BY <1>5 DEF StartVm
  <1>6. CASE LoopTest
    BY <1>6 DEF LoopTest
  <1>7. CASE AcceptNone
    BY <1>7 DEF AcceptNone
  <1>8. CASE Reply
    BY <1>8 DEF Reply
  <1>9. CASE PauseStore
    BY <1>9 DEF PauseStore
  <1>10. CASE PauseSignal
    BY <1>10 DEF PauseSignal, SendSig
  <1>11. CASE PauseLock
    BY <1>11 DEF PauseLock
  <1>12. CASE PauseFlag
    BY <1>12 DEF PauseFlag
  <1>13. CASE ResumeStore
    BY <1>13 DEF ResumeStore
  <1>14. CASE ResumeSignal
    BY <1>14 DEF ResumeSignal, SendSig
  <1>15. CASE ResumeFlag
    BY <1>15 DEF ResumeFlag
  <1>16. CASE CondSignal
    BY <1>16 DEF CondSignal
  <1>17. CASE ResumeUnlock
    BY <1>17 DEF ResumeUnlock
  <1>18. CASE ShutdownStore
    BY <1>18 DEF ShutdownStore
  <1>19. CASE ShutdownSignal
    BY <1>19 DEF ShutdownSignal, SendSig
  <1>20. CASE ShutdownTest
    BY <1>20 DEF ShutdownTest
  <1>21. CASE ShowState
    BY <1>21 DEF ShowState
  <1>22. CASE ShowRegs
    BY <1>22 DEF ShowRegs
  <1>23. CASE \E b \in BOOLEAN : GetRegs(b)
    BY <1>23 DEF GetRegs
  <1>24. CASE RegsDone
    BY <1>24 DEF RegsDone
  <1>25. CASE DumpMem
    BY <1>25 DEF DumpMem
  <1>26. CASE DumpDone
    BY <1>26 DEF DumpDone
  <1>27. CASE CheckSignal
    BY <1>27 DEF CheckSignal
  <1>28. CASE SignalShutdown
    BY <1>28 DEF SignalShutdown, SendSig
  <1>29. CASE JoinAndRelease
    BY <1>29 DEF JoinAndRelease
  <1>30. CASE FreeKvm
    BY <1>30 DEF FreeKvm
  <1>31. QED
    BY <1>1, <1>2, <1>3, <1>4, <1>5, <1>6, <1>7, <1>8, <1>9, <1>10, <1>11, <1>12,
       <1>13, <1>14, <1>15, <1>16, <1>17, <1>18, <1>19, <1>20, <1>21, <1>22, <1>23,
       <1>24, <1>25, <1>26, <1>27, <1>28, <1>29, <1>30 DEF MainStep

\* Only mini_kvm_start_vm leaves the start.
LEMMA MainKeepsStartInv ==
  ASSUME TypeOK, StartInv, MainStep
  PROVE  StartInv'
  <1> USE DEF StartInv, BootInv, NoEarlyRun, Main, TypeOK, vmVars, vcpuVars, BootPcs
  <1>1. CASE CreateSocket
    BY <1>1 DEF CreateSocket
  <1>2. CASE CreateThread
    BY <1>2 DEF CreateThread
  <1>3. CASE CreateThreadFails
    BY <1>3 DEF CreateThreadFails
  <1>4. CASE AllThreadsCreated
    BY <1>4 DEF AllThreadsCreated
  <1>5. CASE StartVm
    BY <1>5 DEF StartVm
  <1>6. CASE LoopTest
    BY <1>6 DEF LoopTest
  <1>7. CASE AcceptNone
    BY <1>7 DEF AcceptNone
  <1>8. CASE Reply
    BY <1>8 DEF Reply
  <1>9. CASE PauseStore
    BY <1>9 DEF PauseStore
  <1>10. CASE PauseSignal
    BY <1>10 DEF PauseSignal, SendSig
  <1>11. CASE PauseLock
    BY <1>11 DEF PauseLock
  <1>12. CASE PauseFlag
    BY <1>12 DEF PauseFlag
  <1>13. CASE ResumeStore
    BY <1>13 DEF ResumeStore
  <1>14. CASE ResumeSignal
    BY <1>14 DEF ResumeSignal, SendSig
  <1>15. CASE ResumeFlag
    BY <1>15 DEF ResumeFlag
  <1>16. CASE CondSignal
    BY <1>16 DEF CondSignal
  <1>17. CASE ResumeUnlock
    BY <1>17 DEF ResumeUnlock
  <1>18. CASE ShutdownStore
    BY <1>18 DEF ShutdownStore
  <1>19. CASE ShutdownSignal
    BY <1>19 DEF ShutdownSignal, SendSig
  <1>20. CASE ShutdownTest
    BY <1>20 DEF ShutdownTest
  <1>21. CASE ShowState
    BY <1>21 DEF ShowState
  <1>22. CASE ShowRegs
    BY <1>22 DEF ShowRegs
  <1>23. CASE \E b \in BOOLEAN : GetRegs(b)
    BY <1>23 DEF GetRegs
  <1>24. CASE RegsDone
    BY <1>24 DEF RegsDone
  <1>25. CASE DumpMem
    BY <1>25 DEF DumpMem
  <1>26. CASE DumpDone
    BY <1>26 DEF DumpDone
  <1>27. CASE CheckSignal
    BY <1>27 DEF CheckSignal
  <1>28. CASE SignalShutdown
    BY <1>28 DEF SignalShutdown, SendSig
  <1>29. CASE JoinAndRelease
    BY <1>29 DEF JoinAndRelease
  <1>30. CASE FreeKvm
    BY <1>30 DEF FreeKvm
  <1>31. QED
    BY <1>1, <1>2, <1>3, <1>4, <1>5, <1>6, <1>7, <1>8, <1>9, <1>10, <1>11, <1>12,
       <1>13, <1>14, <1>15, <1>16, <1>17, <1>18, <1>19, <1>20, <1>21, <1>22, <1>23,
       <1>24, <1>25, <1>26, <1>27, <1>28, <1>29, <1>30 DEF MainStep

------------------------------------------------------------------------------
(* The inductive invariant: clients and environment *)

\* What clients send and the faults of the environment keep the invariant.
LEMMA ClientKeepsInv ==
  ASSUME TypeOK, CommandInv, LoopInv, StartInv, ClientStep \/ Environment
  PROVE  CommandInv' /\ LoopInv' /\ StartInv'
  <1> USE DEF CommandInv, SessionInv, PauseInv, FlagAgreesWithState, ReplyMatchesVm,
      LoopInv, ReleaseInv, JoinSeesShutdown, StartInv, BootInv, NoEarlyRun, Main,
      vmVars, resourceVars, vcpuVars, sessionVars, PausePcs, ResumeTail, BootPcs
  <1>1. CASE \E c \in Commands : Receive(c)
    <2> PICK c \in Commands : Receive(c)
      BY <1>1
    <2>1. /\ mpc = "recv" /\ mpc' = c /\ c \in NextCommands
          /\ UNCHANGED <<vmVars, resourceVars, vcpuVars, idx, start_failed>>
      BY DEF Receive
    <2>2. /\ client'.kind = client.kind
          /\ client'.res_state = client.res_state
          /\ client'.sent = client.sent \cup {c}
      BY DEF Receive, TypeOK
    <2>3. c \in {"PAUSE", "RESUME", "SHUTDOWN", "SHOW_STATE", "SHOW_REGS", "DUMP_MEM"}
      BY DEF Commands
    <2>4. /\ c = "PAUSE" => client.kind = "pause" /\ client.res_state = "RUNNING" /\ client.sent # {}
          /\ c = "RESUME" => client.kind = "resume"
          /\ c = "SHUTDOWN" => client.kind = "shutdown"
          /\ c = "SHOW_STATE" => client.sent = {}
          /\ c \in {"SHOW_REGS", "DUMP_MEM"} => client.kind = "status"
          /\ c \notin client.sent
      BY <2>1 DEF NextCommands
    <2>5. SessionInv'
      BY <2>1, <2>2, <2>3, <2>4
    <2>6. PauseInv'
      BY <2>1, <2>2, <2>3, <2>4
    <2>7. FlagAgreesWithState' /\ ReplyMatchesVm' /\ LoopInv' /\ StartInv'
      BY <2>1, <2>2, <2>3
    <2>8. QED
      BY <2>5, <2>6, <2>7
  <1>2. CASE Disconnect
    BY <1>2 DEF Disconnect, NoClient
  <1>3. CASE \E kind \in Clients : Accept(kind)
    BY <1>3 DEF Accept, NoClient
  <1>4. CASE ClientDies
    BY <1>4 DEF ClientDies
  <1>5. CASE Sigterm
    BY <1>5 DEF Sigterm
  <1>6. QED
    BY <1>1, <1>2, <1>3, <1>4, <1>5 DEF ClientStep, Environment

\* So does a step that changes nothing.
LEMMA StutterKeepsInv ==
  ASSUME IInv, UNCHANGED vars
  PROVE  IInv'
  BY TypeStutter DEF IInv, CommandInv, SessionInv, PauseInv, FlagAgreesWithState, ReplyMatchesVm,
     LoopInv, ReleaseInv, JoinSeesShutdown, StartInv, BootInv, NoEarlyRun,
     vars, vmVars, resourceVars, vcpuVars, processVars, sessionVars, mainVars

\* The invariant holds before the socket is created.
LEMMA InitIInv == Init => IInv
  BY TypeInit, NVcpuAssumption DEF Init, IInv, CommandInv, SessionInv, PauseInv,
     FlagAgreesWithState, ReplyMatchesVm, LoopInv, ReleaseInv, JoinSeesShutdown, StartInv,
     BootInv, NoEarlyRun, NoClient, NoThread, MainThread, Vcpu, PausePcs, ResumeTail, BootPcs

\* IInv holds in every reachable state.
THEOREM Inductive == Spec => []IInv
  <1>1. ASSUME IInv, [Next]_vars PROVE IInv'
    <2> USE <1>1 DEF IInv, CommandInv
    <2>1. CASE MainStep
      BY <2>1, TypeMain, MainKeepsCommandInv, MainKeepsLoopInv, MainKeepsStartInv
    <2>2. CASE ClientStep \/ Environment
      BY <2>2, TypeClient, ClientKeepsInv
    <2>3. ASSUME NEW v \in Vcpu, ThreadStep(v) \/ SignalStep(v) \/ GuestStep(v) PROVE IInv'
      BY <2>3, TypeThread, TypeSignal, VcpuStepEffect, VcpuKeepsCommandInv, VcpuKeepsLoopInv,
         VcpuKeepsStartInv
    <2>4. CASE UNCHANGED vars
      BY <2>4, StutterKeepsInv
    <2>5. QED
      BY <1>1, <2>1, <2>2, <2>3, <2>4 DEF Next
  <1>2. QED
    BY InitIInv, <1>1, PTL DEF Spec

\* mini_kvm_pause_vm never waits for a lock its own thread holds.
THEOREM NoSelfDeadlockHolds == Spec => []NoSelfDeadlock
  <1>1. IInv => NoSelfDeadlock
    BY DEF IInv, CommandInv, PauseInv, NoSelfDeadlock, PausePcs, ResumeTail
  <1>2. QED
    BY Inductive, <1>1, PTL

\* RUNNING with the pause flag set is seen only inside status_handle_resume.
THEOREM FlagAgreesWithStateHolds == Spec => []FlagAgreesWithState
  <1>1. IInv => FlagAgreesWithState
    BY DEF IInv, CommandInv
  <1>2. QED
    BY Inductive, <1>1, PTL

\* The reply to PAUSE or RESUME describes the VM as it is when the client acts on it.
THEOREM ReplyMatchesVmHolds == Spec => []ReplyMatchesVm
  <1>1. IInv => ReplyMatchesVm
    BY DEF IInv, CommandInv
  <1>2. QED
    BY Inductive, <1>1, PTL

\* mini_kvm_clean_kvm never releases what a live vCPU thread uses.
THEOREM NoUseAfterReleaseHolds == Spec => []NoUseAfterRelease
  <1>1. IInv => NoUseAfterRelease
    <2> SUFFICES ASSUME IInv, NEW v \in Vcpu, ~mapped[v] \/ mpc = "exited"
                 PROVE  pc[v] \in {"none", "done"}
      BY DEF NoUseAfterRelease
    <2>1. mpc \in {"clean", "exited"} /\ v < idx
      BY NVcpuAssumption DEF IInv, LoopInv, ReleaseInv, Vcpu
    <2>2. QED
      BY <2>1 DEF IInv, LoopInv, ReleaseInv
  <1>2. QED
    BY Inductive, <1>1, PTL

\* No vCPU enters the guest before every thread exists and RUNNING is stored.
THEOREM NoEarlyRunHolds == Spec => []NoEarlyRun
  <1>1. IInv => NoEarlyRun
    BY DEF IInv, StartInv
  <1>2. QED
    BY Inductive, <1>1, PTL

\* While main joins the vCPU threads of a VM that was started, the state they
\* have to see stays SHUTDOWN.
THEOREM JoinSeesShutdownHolds == Spec => []JoinSeesShutdown
  <1>1. IInv => JoinSeesShutdown
    BY DEF IInv, LoopInv
  <1>2. QED
    BY Inductive, <1>1, PTL
------------------------------------------------------------------------------
(* Signals without handler *)

BeforeLoop == {"none", "sig_pause", "sig_resume", "sig_shutdown"}

\* A thread that has gone past a signal() call leaves its handler to the whole process.
HandlersInv ==
    \A v \in Vcpu :
        /\ pc[v] \notin {"none", "sig_pause"} => "SIGVMPAUSE" \in handlers
        /\ pc[v] \notin {"none", "sig_pause", "sig_resume"} => "SIGVMRESUME" \in handlers
        /\ pc[v] \notin BeforeLoop => "SIGVMSHUTDOWN" \in handlers

\* All that a step may do about handlers, but for the three signal() calls: threads
\* appear at the first of them, and the ones in their loop go on there.
HandlersEffect ==
    /\ UNCHANGED handlers
    /\ \A w \in Vcpu : \/ pc'[w] = pc[w]
                       \/ pc'[w] = "sig_pause"
                       \/ pc[w] \notin BeforeLoop

\* Every step of a vCPU installs a handler or has that effect at most.
LEMMA VcpuHandlersEffect ==
  ASSUME TypeOK, NEW v \in Vcpu, ThreadStep(v) \/ SignalStep(v) \/ GuestStep(v)
  PROVE  InstallHandler(v) \/ HandlersEffect
  <1> USE DEF HandlersEffect, Step, TypeOK, BeforeLoop, processVars
  <1>1. CASE WhileTest(v)
    BY <1>1 DEF WhileTest
  <1>2. CASE PausedTest(v)
    BY <1>2 DEF PausedTest
  <1>3. CASE FlagTest(v)
    BY <1>3 DEF FlagTest
  <1>4. CASE CondWait(v)
    BY <1>4 DEF CondWait
  <1>5. CASE CondRelock(v)
    BY <1>5 DEF CondRelock
  <1>6. CASE EnterGuest(v)
    BY <1>6 DEF EnterGuest
  <1>7. CASE HandleExit(v)
    BY <1>7 DEF HandleExit
  <1>8. CASE LogDone(v)
    BY <1>8 DEF LogDone
  <1>9. CASE StoreShutdown(v)
    BY <1>9 DEF StoreShutdown
  <1>10. CASE HandlerLog(v)
    BY <1>10 DEF HandlerLog
  <1>11. CASE GuestExit(v)
    BY <1>11 DEF GuestExit
  <1>12. CASE RunFails(v)
    BY <1>12 DEF RunFails
  <1>13. CASE \E s \in Signals : Deliver(v, s)
    BY <1>13 DEF Deliver
  <1>14. CASE \E s \in Signals : InterruptGuest(v, s)
    BY <1>14 DEF InterruptGuest
  <1>15. QED
    BY <1>1, <1>2, <1>3, <1>4, <1>5, <1>6, <1>7, <1>8, <1>9, <1>10, <1>11, <1>12,
       <1>13, <1>14 DEF ThreadStep, SignalStep, GuestStep

\* Main creates threads and wakes them; it installs no handler.  It is killed by a
\* reply to a client that has gone or by a signal that has no handler.
LEMMA MainHandlersEffect ==
  ASSUME TypeOK, MainStep
  PROVE  /\ HandlersEffect
         /\ mpc' = "killed" =>
                \/ mpc = "reply"
                \/ \E s \in Signals \ handlers : \E v \in Vcpu : pc[v] \notin {"none", "done"}
  <1> USE DEF HandlersEffect, Main, TypeOK, BeforeLoop, vcpuVars, processVars
  <1>1. CASE CreateSocket
    BY <1>1 DEF CreateSocket
  <1>2. CASE CreateThread
    BY <1>2 DEF CreateThread
  <1>3. CASE CreateThreadFails
    BY <1>3 DEF CreateThreadFails
  <1>4. CASE AllThreadsCreated
    BY <1>4 DEF AllThreadsCreated
  <1>5. CASE StartVm
    BY <1>5 DEF StartVm
  <1>6. CASE LoopTest
    BY <1>6 DEF LoopTest
  <1>7. CASE AcceptNone
    BY <1>7 DEF AcceptNone
  <1>8. CASE Reply
    BY <1>8 DEF Reply
  <1>9. CASE PauseStore
    BY <1>9 DEF PauseStore
  <1>10. CASE PauseSignal
    BY <1>10 DEF PauseSignal, SendSig, Signals
  <1>11. CASE PauseLock
    BY <1>11 DEF PauseLock
  <1>12. CASE PauseFlag
    BY <1>12 DEF PauseFlag
  <1>13. CASE ResumeStore
    BY <1>13 DEF ResumeStore
  <1>14. CASE ResumeSignal
    BY <1>14 DEF ResumeSignal, SendSig, Signals
  <1>15. CASE ResumeFlag
    BY <1>15 DEF ResumeFlag
  <1>16. CASE CondSignal
    BY <1>16 DEF CondSignal
  <1>17. CASE ResumeUnlock
    BY <1>17 DEF ResumeUnlock
  <1>18. CASE ShutdownStore
    BY <1>18 DEF ShutdownStore
  <1>19. CASE ShutdownSignal
    BY <1>19 DEF ShutdownSignal, SendSig, Signals
  <1>20. CASE ShutdownTest
    BY <1>20 DEF ShutdownTest
  <1>21. CASE ShowState
    BY <1>21 DEF ShowState
  <1>22. CASE ShowRegs
    BY <1>22 DEF ShowRegs
  <1>23. CASE \E b \in BOOLEAN : GetRegs(b)
    BY <1>23 DEF GetRegs
  <1>24. CASE RegsDone
    BY <1>24 DEF RegsDone
  <1>25. CASE DumpMem
    BY <1>25 DEF DumpMem
  <1>26. CASE DumpDone
    BY <1>26 DEF DumpDone
  <1>27. CASE CheckSignal
    BY <1>27 DEF CheckSignal
  <1>28. CASE SignalShutdown
    BY <1>28 DEF SignalShutdown, SendSig, Signals
  <1>29. CASE JoinAndRelease
    BY <1>29 DEF JoinAndRelease
  <1>30. CASE FreeKvm
    BY <1>30 DEF FreeKvm
  <1>31. QED
    BY <1>1, <1>2, <1>3, <1>4, <1>5, <1>6, <1>7, <1>8, <1>9, <1>10, <1>11, <1>12,
       <1>13, <1>14, <1>15, <1>16, <1>17, <1>18, <1>19, <1>20, <1>21, <1>22, <1>23,
       <1>24, <1>25, <1>26, <1>27, <1>28, <1>29, <1>30 DEF MainStep

\* Clients, faults and stuttering do neither.
LEMMA ClientHandlersEffect ==
  ASSUME ClientStep \/ Environment \/ UNCHANGED vars
  PROVE  HandlersEffect /\ (mpc' = "killed" => mpc = "killed")
  BY DEF ClientStep, Environment, Receive, Disconnect, Accept, ClientDies, Sigterm, Main,
     Commands, HandlersEffect, vars, vcpuVars, processVars, mainVars

\* HandlersInv survives that effect, and the calls that install the handlers.
LEMMA HandlersStep == TypeOK /\ HandlersInv /\ [Next]_vars => HandlersInv'
  <1> SUFFICES ASSUME TypeOK, HandlersInv, [Next]_vars PROVE HandlersInv'
    OBVIOUS
  <1>1. CASE HandlersEffect
    BY <1>1 DEF HandlersInv, HandlersEffect, BeforeLoop
  <1>2. ASSUME NEW v \in Vcpu, InstallHandler(v) PROVE HandlersInv'
    BY <1>2 DEF HandlersInv, InstallHandler, Step, TypeOK, BeforeLoop
  <1>3. QED
    BY <1>1, <1>2, VcpuHandlersEffect, MainHandlersEffect, ClientHandlersEffect DEF Next

\* Once a vCPU thread is in its loop, no command ends the process by a signal that
\* nobody handles.
THEOREM KilledOnlyBeforeLoopsHolds == Spec => KilledOnlyBeforeLoops
  <1>1. Init => HandlersInv
    BY DEF Init, HandlersInv, BeforeLoop
  <1>2. Spec => []HandlersInv
    BY <1>1, HandlersStep, TypeCorrect, PTL DEF Spec
  <1>3. ASSUME TypeOK, HandlersInv, [Next]_vars, mpc' = "killed", mpc \notin {"reply", "killed"}
        PROVE  \A v \in Vcpu : pc[v] \in BeforeLoop
    <2>1. CASE MainStep
      BY <1>3, <2>1, MainHandlersEffect DEF HandlersInv, Signals, BeforeLoop
    <2>2. ASSUME NEW v \in Vcpu, ThreadStep(v) \/ SignalStep(v) \/ GuestStep(v) PROVE FALSE
      BY <1>3, <2>2, VcpuStepEffect DEF VcpuEffect
    <2>3. QED
      BY <1>3, <2>1, <2>2, ClientHandlersEffect DEF Next
  <1>4. TypeOK /\ HandlersInv /\ [Next]_vars =>
          [mpc' = "killed" /\ mpc \notin {"reply", "killed"} =>
             \A v \in Vcpu : pc[v] \in {"none", "sig_pause", "sig_resume", "sig_shutdown"}]_vars
    BY <1>3 DEF BeforeLoop
  <1>5. QED
    BY <1>2, <1>4, TypeCorrect, PTL DEF Spec, KilledOnlyBeforeLoops
==============================================================================
