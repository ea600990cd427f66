-------------------------- MODULE VmLifecycleProofs --------------------------
(***************************************************************************)
(* VmRuntime implements VmLifecycle under the mapping of module VmRuntime, *)
(* for every number of vCPUs and sessions.                                 *)
(***************************************************************************)
EXTENDS VmRuntimeProofs

\* The VM before its socket is created is the abstract VM before its boot.
LEMMA InitRefines == Init => Lifecycle!Init
  BY DEF Init, Lifecycle!Init, AbsPhase, AbsServing

\* To the abstract VM, a step of a vCPU, its handlers or its guest is nothing or the
\* end of its thread.
LEMMA VcpuRefines ==
  ASSUME TypeOK, NEW v \in Vcpu, VcpuEffect(v)
  PROVE  [Lifecycle!Next]_Lifecycle!vars
  <1> DEFINE Live == {w \in Vcpu : pc[w] \notin {"none", "done"}}
  <1>1. UNCHANGED <<AbsPhase, AbsServing, paused, mapped>>
    BY DEF VcpuEffect, AbsPhase, AbsServing, resourceVars
  <1>2. Live' = Live \/ (v \in Live /\ Live' = Live \ {v})
    BY DEF VcpuEffect, TypeOK
  <1>3. CASE Live' = Live
    BY <1>1, <1>3 DEF Lifecycle!vars
  <1>4. CASE v \in Live /\ Live' = Live \ {v}
    <2>1. Lifecycle!VcpuEnds(v)
      BY <1>1, <1>4 DEF Lifecycle!VcpuEnds
    <2>2. QED
      BY <2>1 DEF Lifecycle!Next
  <1>5. QED
    BY <1>2, <1>3, <1>4

\* A step of main between two locations that mean the same to the abstract VM is a
\* stutter; the others are the one step each command, the boot or the end consists of.
LEMMA MainRefines ==
  ASSUME IInv, MainStep
  PROVE  [Lifecycle!Next]_Lifecycle!vars
  <1> USE DEF Main, AbsPhase, AbsServing, vmVars, resourceVars, vcpuVars, sessionVars,
      Lifecycle!vars, Lifecycle!Next, Lifecycle!Enter
  <1>1. CASE CreateSocket
    BY <1>1 DEF CreateSocket, Lifecycle!Boot
  <1>2. CASE CreateThread
    BY <1>2 DEF CreateThread, Lifecycle!VcpuStarts
  <1>3. CASE CreateThreadFails
    BY <1>3 DEF CreateThreadFails
  <1>4. CASE AllThreadsCreated
    BY <1>4 DEF AllThreadsCreated
  <1>5. CASE StartVm
    BY <1>5 DEF StartVm, Lifecycle!Boot
  <1>6. CASE LoopTest
    BY <1>6 DEF LoopTest, Lifecycle!Leave
  <1>7. CASE AcceptNone
    BY <1>7 DEF AcceptNone
  <1>8. CASE Reply
    BY <1>8 DEF Reply, Lifecycle!Kill
  <1>9. CASE PauseStore
    BY <1>9 DEF PauseStore
  <1>10. CASE PauseSignal
    BY <1>10 DEF PauseSignal, SendSig, Lifecycle!Kill
  <1>11. CASE PauseLock
    BY <1>11 DEF PauseLock
  <1>12. CASE PauseFlag
    <2>1. ~paused
      BY <1>12 DEF PauseFlag, IInv, CommandInv, PauseInv, PausePcs
    <2>2. Lifecycle!Freeze
      BY <1>12, <2>1, Zenon DEF PauseFlag, Lifecycle!Freeze
    <2>3. QED
      BY <2>2
  <1>13. CASE ResumeStore
    BY <1>13 DEF ResumeStore
  <1>14. CASE ResumeSignal
    BY <1>14 DEF ResumeSignal, SendSig, Lifecycle!Kill
  <1>15. CASE ResumeFlag
    <2>1. paused \in BOOLEAN /\ client.kind \in {"resume", "shutdown"}
      BY <1>15 DEF ResumeFlag, IInv, TypeOK, CommandInv, SessionInv
    <2>2. CASE paused
      BY <1>15, <2>1, <2>2 DEF ResumeFlag, Lifecycle!Thaw
    <2>3. CASE ~paused
      BY <1>15, <2>1, <2>3 DEF ResumeFlag
    <2>4. QED
      BY <2>2, <2>3
  <1>16. CASE CondSignal
    <2>1. \A w \in Vcpu : pc'[w] \in {"none", "done"} <=> pc[w] \in {"none", "done"}
      BY <1>16 DEF CondSignal, IInv, TypeOK
    <2>2. QED
      BY <1>16, <2>1 DEF CondSignal
  <1>17. CASE ResumeUnlock
    <2>1. ~paused
      BY <1>17 DEF ResumeUnlock, IInv, CommandInv, PauseInv, ResumeTail
    <2>2. QED
      BY <1>17, <2>1 DEF ResumeUnlock, Lifecycle!Answer
  <1>18. CASE ShutdownStore
    BY <1>18 DEF ShutdownStore
  <1>19. CASE ShutdownSignal
    BY <1>19 DEF ShutdownSignal, SendSig, Lifecycle!Kill
  <1>20. CASE ShutdownTest
    <2>1. client.kind = "shutdown"
      BY <1>20 DEF ShutdownTest, IInv, CommandInv, SessionInv
    <2>2. QED
      BY <1>20, <2>1 DEF ShutdownTest, Lifecycle!Answer
  <1>21. CASE ShowState
    BY <1>21 DEF ShowState, Lifecycle!Answer
  <1>22. CASE ShowRegs
    BY <1>22 DEF ShowRegs, Lifecycle!Answer
  <1>23. CASE \E b \in BOOLEAN : GetRegs(b)
    BY <1>23 DEF GetRegs
  <1>24. CASE RegsDone
    BY <1>24 DEF RegsDone, Lifecycle!Answer
  <1>25. CASE DumpMem
    BY <1>25 DEF DumpMem, Lifecycle!Answer
  <1>26. CASE DumpDone
    BY <1>26 DEF DumpDone, Lifecycle!Answer
  <1>27. CASE CheckSignal
    BY <1>27 DEF CheckSignal
  <1>28. CASE SignalShutdown
    BY <1>28 DEF SignalShutdown, SendSig, Lifecycle!Kill
  <1>29. CASE JoinAndRelease
    <2>1. idx \in Vcpu /\ mapped[idx] /\ pc[idx] \in {"none", "done"}
      BY <1>29, NVcpuAssumption DEF JoinAndRelease, IInv, TypeOK, LoopInv, ReleaseInv, Vcpu
    <2>2. PICK v \in Vcpu : v = idx
      BY <2>1
    <2>3. {w \in Vcpu : mapped'[w]} = {w \in Vcpu : mapped[w]} \ {v}
      BY <1>29, <2>2 DEF JoinAndRelease, IInv, TypeOK
    <2>4. Lifecycle!Release(v)
      BY <1>29, <2>1, <2>2, <2>3 DEF JoinAndRelease, Lifecycle!Release
    <2>5. QED
      BY <2>4
  <1>30. CASE FreeKvm
    <2>1. \A v \in Vcpu : pc[v] \in {"none", "done"} /\ ~mapped[v]
      BY <1>30, NVcpuAssumption DEF FreeKvm, IInv, LoopInv, ReleaseInv, Vcpu
    <2>2. Lifecycle!Exit
      BY <1>30, <2>1 DEF FreeKvm, Lifecycle!Exit
    <2>3. QED
      BY <2>2
  <1>31. QED
    BY <1>1, <1>2, <1>3, <1>4, <1>5, <1>6, <1>7, <1>8, <1>9, <1>10, <1>11, <1>12,
       <1>13, <1>14, <1>15, <1>16, <1>17, <1>18, <1>19, <1>20, <1>21, <1>22, <1>23,
       <1>24, <1>25, <1>26, <1>27, <1>28, <1>29, <1>30 DEF MainStep

\* A command that arrives is a request; all else that clients and faults do is nothing.
LEMMA ClientRefines ==
  ASSUME IInv, ClientStep \/ Environment
  PROVE  [Lifecycle!Next]_Lifecycle!vars
  <1> USE DEF Main, AbsPhase, AbsServing, vmVars, resourceVars, vcpuVars, sessionVars,
      Lifecycle!vars, Lifecycle!Next
  <1>1. CASE \E c \in Commands : Receive(c)
    BY <1>1 DEF Receive, NextCommands, Commands, Lifecycle!Request, Lifecycle!Requests, IInv, TypeOK
  <1>2. CASE Disconnect
    BY <1>2 DEF Disconnect
  <1>3. CASE \E kind \in Clients : Accept(kind)
    BY <1>3 DEF Accept
  <1>4. CASE ClientDies
    BY <1>4 DEF ClientDies
  <1>5. CASE Sigterm
    BY <1>5 DEF Sigterm
  <1>6. QED
    BY <1>1, <1>2, <1>3, <1>4, <1>5 DEF ClientStep, Environment

\* The process with its threads, locks and signals is a VmLifecycle: each command takes
\* its effect once inside its handler, and threads, resources and process end in order.
THEOREM Refinement == Spec => RefinesLifecycle
  <1>1. ASSUME IInv, [Next]_vars PROVE [Lifecycle!Next]_Lifecycle!vars
    <2>1. CASE MainStep
      BY <1>1, <2>1, MainRefines
    <2>2. CASE ClientStep \/ Environment
      BY <1>1, <2>2, ClientRefines
    <2>3. ASSUME NEW v \in Vcpu, ThreadStep(v) \/ SignalStep(v) \/ GuestStep(v)
          PROVE  [Lifecycle!Next]_Lifecycle!vars
      BY <1>1, <2>3, VcpuStepEffect, VcpuRefines DEF IInv
    <2>4. CASE UNCHANGED vars
      BY <2>4 DEF vars, vmVars, resourceVars, vcpuVars, mainVars, sessionVars, AbsPhase,
         AbsServing, Lifecycle!vars
    <2>5. QED
      BY <1>1, <2>1, <2>2, <2>3, <2>4 DEF Next
  <1>2. QED
    BY Inductive, InitRefines, <1>1, PTL DEF Spec, RefinesLifecycle, Lifecycle!Spec
==============================================================================
