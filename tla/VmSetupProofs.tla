---------------------------- MODULE VmSetupProofs ----------------------------
(***************************************************************************)
(* Safety of VmSetup for every number of vCPUs and every memory size.       *)
(***************************************************************************)
EXTENDS VmSetup, TLAPS

BeforeVcpus == {"open", "version", "create_vm", "caps", "mem", "region", "irq"}
Building == {"create_vcpu", "map_vcpu", "setup_vcpu"}
AfterVcpus == {"paging", "load", "fs", "run", "clean_kernel"}
SettingUp == BeforeVcpus \cup Building \cup AfterVcpus

Known == 0 .. len - 1

\* The vCPU table and the vCPU being built, if any.
TableInv ==
    /\ len < capacity
    /\ pc \in BeforeVcpus => len = 0
    /\ pc \in AfterVcpus => len = args.vcpu
    /\ len <= args.vcpu
    /\ pc \in {"map_vcpu", "setup_vcpu"} => len < args.vcpu
    /\ ready = Known
    /\ pc \in SettingUp => idx = 0
    /\ pc \in SettingUp \ {"map_vcpu", "setup_vcpu"} => vcpu_fd = Known
    /\ pc \in SettingUp \ {"setup_vcpu"} => kvm_run = Known
    /\ pc \in {"map_vcpu", "setup_vcpu"} => vcpu_fd = 0 .. len
    /\ pc = "setup_vcpu" => kvm_run = 0 .. len
    /\ pc \in {"clean_vcpus", "clean_kvm", "end"} =>
           /\ vcpu_fd \subseteq idx .. len
           /\ kvm_run \subseteq vcpu_fd
           /\ served => len \notin vcpu_fd
    /\ served => pc \in {"clean_kernel", "clean_vcpus", "clean_kvm", "end"}
    /\ pc \in {"clean_kvm", "end"} => idx = len

\* What has been acquired by each location of the set-up.
GuestInv ==
    /\ pc \in {"version", "create_vm", "caps", "mem", "region", "irq"} \cup Building \cup AfterVcpus
           => kvm_fd = "open"
    /\ pc \in {"caps", "mem", "region", "irq"} \cup Building \cup AfterVcpus => vm_fd = "open"
    /\ pc \in {"irq"} \cup Building \cup AfterVcpus => mem = "registered"
    /\ pc \in {"load", "fs", "run", "clean_kernel"} => paging /\ args.mem_size >= MinPages
    /\ pc \in {"fs", "run", "clean_kernel"} => loaded
    /\ pc = "end" => /\ kvm_fd # "open" /\ vm_fd # "open" /\ fs_fd # "open"
                     /\ mem \notin {"mapped", "registered"}

Cleaning == {"clean_kernel", "clean_vcpus", "clean_kvm", "end"}
NoDevice == {"NO_DEVICE", "WRONG_VERSION"}

\* What the fields still hold of calloc's zeros, and what the result owes its caller.
ReportInv ==
    /\ pc # "end" => stdin
    /\ pc \in SettingUp => ret = "SUCCESS"
    /\ pc # "open" => kvm_fd # "zero"
    /\ pc \notin {"open", "version", "create_vm"} => vm_fd # "zero" \/ ret \in NoDevice
    /\ loaded => /\ pc \in {"fs", "run"} \cup Cleaning
                 /\ paging /\ args.mem_size >= MinPages /\ len = args.vcpu
    /\ pc \in Cleaning => (ret = "SUCCESS" <=> loaded)
    /\ StdinLostOnlyWithoutDevice

IInv == TypeOK /\ TableInv /\ GuestInv /\ ReportInv

\* Appending to an interval.
LEMMA IntervalAppend == \A n \in Nat : (0 .. n - 1) \cup {n} = 0 .. n
  OBVIOUS

\* struct Kvm as calloc and vec_new leave it is well typed.
LEMMA TypeInit == Init => TypeOK
  <1> SUFFICES ASSUME Init PROVE TypeOK
    OBVIOUS
  <1>1. args \in [vcpu : 1 .. MaxVcpu, mem_size : MemPages, kernel : BOOLEAN, name : BOOLEAN]
    BY DEF Init
  <1>2. kernel \in BOOLEAN
    BY <1>1 DEF Init
  <1>3. pc \in SetupPc /\ len \in 0 .. MaxVcpu /\ capacity \in Nat /\ idx \in 0 .. MaxVcpu
    BY MaxVcpuAssumption DEF Init, SetupPc
  <1>4. QED
    BY <1>1, <1>2, <1>3, Zenon DEF Init, TypeOK, Descriptor

\* Each call of the set-up and of the clean up keeps the types, given that the
\* table never holds more vCPUs than were asked for.
LEMMA TypeStep == TypeOK /\ TableInv /\ [Next]_vars => TypeOK'
  <1> SUFFICES ASSUME TypeOK, TableInv, [Next]_vars PROVE TypeOK'
    OBVIOUS
  <1> len <= args.vcpu /\ args.vcpu \in 1 .. MaxVcpu
    BY DEF TypeOK, TableInv
  <1> USE MaxVcpuAssumption DEF TypeOK, Goto, Fail, Check, SetupPc, Errors, Descriptor,
      fdVars, vcpuVars, guestVars
  <1>1. CASE OpenDevice
    BY <1>1 DEF OpenDevice
  <1>2. CASE CheckVersion
    BY <1>2 DEF CheckVersion
  <1>3. CASE CreateVm
    BY <1>3 DEF CreateVm
  <1>4. CASE CheckCaps
    BY <1>4 DEF CheckCaps
  <1>5. CASE AllocateMemory
    BY <1>5 DEF AllocateMemory
  <1>6. CASE SetMemoryRegion
    BY <1>6 DEF SetMemoryRegion
  <1>7. CASE SetupIrq
    BY <1>7 DEF SetupIrq
  <1>8. CASE CreateVcpu
    <2>1. vcpu_fd' \subseteq 0 .. MaxVcpu
      BY <1>8 DEF CreateVcpu
    <2>2. QED
      BY <1>8, <2>1 DEF CreateVcpu
  <1>9. CASE MapVcpu
    <2>1. kvm_run' \subseteq 0 .. MaxVcpu
      BY <1>9 DEF MapVcpu
    <2>2. QED
      BY <1>9, <2>1 DEF MapVcpu
  <1>10. CASE SetupVcpu
    <2>1. len < args.vcpu
      BY <1>10 DEF SetupVcpu, TableInv
    <2>2. /\ ready' \subseteq 0 .. MaxVcpu
          /\ len' \in 0 .. MaxVcpu
          /\ capacity' \in Nat
      <3>1. args.vcpu \in Nat /\ args.vcpu <= MaxVcpu /\ len \in Nat
        OBVIOUS
      <3>2. CASE Goto("setup_vcpu", "create_vcpu") /\ ready' = ready \cup {len} /\ VecAppend
        BY <2>1, <3>1, <3>2 DEF VecAppend
      <3>3. CASE UNCHANGED <<ready, len, capacity>>
        BY <3>3
      <3>4. QED
        BY <1>10, <3>2, <3>3 DEF SetupVcpu
    <2>3. QED
      BY <1>10, <2>2 DEF SetupVcpu
  <1>11. CASE VcpusAdded
    BY <1>11 DEF VcpusAdded
  <1>12. CASE ConfigurePaging
    <2>1. paging' \in BOOLEAN
      BY <1>12, Zenon DEF ConfigurePaging
    <2>2. QED
      BY <1>12, <2>1 DEF ConfigurePaging
  <1>13. CASE LoadKernel
    <2>1. loaded' \in BOOLEAN
      BY <1>13, Zenon DEF LoadKernel
    <2>2. QED
      BY <1>13, <2>1 DEF LoadKernel
  <1>14. CASE InitFilesystem
    BY <1>14 DEF InitFilesystem
  <1>15. CASE RunMainLoop
    BY <1>15 DEF RunMainLoop
  <1>16. CASE CleanKernel
    <2>1. kernel' \in BOOLEAN
      BY <1>16, Zenon DEF CleanKernel
    <2>2. QED
      BY <1>16, <2>1 DEF CleanKernel
  <1>17. CASE CleanVcpu
    BY <1>17 DEF CleanVcpu
  <1>18. CASE VcpusCleaned
    BY <1>18 DEF VcpusCleaned
  <1>19. CASE CleanRest
    BY <1>19 DEF CleanRest, Close
  <1>20. CASE UNCHANGED vars
    BY <1>20 DEF vars
  <1>21. QED
    BY <1>1, <1>2, <1>3, <1>4, <1>5, <1>6, <1>7, <1>8, <1>9, <1>10, <1>11, <1>12,
       <1>13, <1>14, <1>15, <1>16, <1>17, <1>18, <1>19, <1>20 DEF Next

\* The table and the vCPU being built stay in step.
LEMMA TableStep == TypeOK /\ TableInv /\ [Next]_vars => TableInv'
  <1> SUFFICES ASSUME TypeOK, TableInv, [Next]_vars PROVE TableInv'
    OBVIOUS
  <1> USE MaxVcpuAssumption DEF TypeOK, TableInv, Goto, Fail, Check, Known, BeforeVcpus,
      Building, AfterVcpus, SettingUp, fdVars, vcpuVars, guestVars
  <1>1. CASE OpenDevice
    BY <1>1 DEF OpenDevice
  <1>2. CASE CheckVersion
    BY <1>2 DEF CheckVersion
  <1>3. CASE CreateVm
    BY <1>3 DEF CreateVm
  <1>4. CASE CheckCaps
    BY <1>4 DEF CheckCaps
  <1>5. CASE AllocateMemory
    BY <1>5 DEF AllocateMemory
  <1>6. CASE SetMemoryRegion
    BY <1>6 DEF SetMemoryRegion
  <1>7. CASE SetupIrq
    BY <1>7 DEF SetupIrq
  <1>0. (0 .. len - 1) \cup {len} = 0 .. len /\ len \in Nat /\ capacity \in Nat
    BY IntervalAppend
  <1>8. CASE CreateVcpu
    <2>1. CASE Goto("create_vcpu", "map_vcpu") /\ vcpu_fd' = vcpu_fd \cup {len}
      BY <1>0, <1>8, <2>1 DEF CreateVcpu
    <2>2. CASE Fail("create_vcpu", "FAILED_VCPU_CREATION") /\ UNCHANGED vcpu_fd
      BY <1>8, <2>2 DEF CreateVcpu
    <2>3. QED
      BY <1>8, <2>1, <2>2 DEF CreateVcpu
  <1>9. CASE MapVcpu
    <2>1. CASE Goto("map_vcpu", "setup_vcpu") /\ kvm_run' = kvm_run \cup {len}
      BY <1>0, <1>9, <2>1 DEF MapVcpu
    <2>2. CASE Fail("map_vcpu", "FAILED_VCPU_CREATION") /\ UNCHANGED kvm_run
      BY <1>9, <2>2 DEF MapVcpu
    <2>3. QED
      BY <1>9, <2>1, <2>2 DEF MapVcpu
  <1>10. CASE SetupVcpu
    <2>1. CASE Goto("setup_vcpu", "create_vcpu") /\ ready' = ready \cup {len} /\ VecAppend
      <3>1. len' = len + 1 /\ len' < capacity' /\ 0 .. len' - 1 = 0 .. len
        BY <2>1 DEF VecAppend
      <3>2. QED
        BY <1>0, <1>10, <2>1, <3>1 DEF SetupVcpu
    <2>2. CASE Fail("setup_vcpu", "FAILED_VCPU_CREATION") /\ UNCHANGED <<ready, len, capacity>>
      BY <1>10, <2>2 DEF SetupVcpu
    <2>3. QED
      BY <1>10, <2>1, <2>2 DEF SetupVcpu
  <1>11. CASE VcpusAdded
    BY <1>11 DEF VcpusAdded
  <1>12. CASE ConfigurePaging
    BY <1>12 DEF ConfigurePaging
  <1>13. CASE LoadKernel
    BY <1>13 DEF LoadKernel
  <1>14. CASE InitFilesystem
    BY <1>14 DEF InitFilesystem
  <1>15. CASE RunMainLoop
    BY <1>15 DEF RunMainLoop
  <1>16. CASE CleanKernel
    BY <1>16 DEF CleanKernel
  <1>17. CASE CleanVcpu
    BY <1>17 DEF CleanVcpu
  <1>18. CASE VcpusCleaned
    BY <1>18 DEF VcpusCleaned
  <1>19. CASE CleanRest
    BY <1>19 DEF CleanRest
  <1>20. CASE UNCHANGED vars
    BY <1>20 DEF vars
  <1>21. QED
    BY <1>1, <1>2, <1>3, <1>4, <1>5, <1>6, <1>7, <1>8, <1>9, <1>10, <1>11, <1>12,
       <1>13, <1>14, <1>15, <1>16, <1>17, <1>18, <1>19, <1>20 DEF Next

\* Nothing acquired by the set-up is lost before the clean up.
LEMMA GuestStep == TypeOK /\ GuestInv /\ [Next]_vars => GuestInv'
  <1> SUFFICES ASSUME TypeOK, GuestInv, [Next]_vars PROVE GuestInv'
    OBVIOUS
  <1> USE DEF TypeOK, GuestInv, Goto, Fail, Check, Building, AfterVcpus, fdVars, guestVars
  <1>1. CASE OpenDevice
    BY <1>1 DEF OpenDevice
  <1>2. CASE CheckVersion
    BY <1>2 DEF CheckVersion
  <1>3. CASE CreateVm
    BY <1>3 DEF CreateVm
  <1>4. CASE CheckCaps
    BY <1>4 DEF CheckCaps
  <1>5. CASE AllocateMemory
    BY <1>5 DEF AllocateMemory
  <1>6. CASE SetMemoryRegion
    BY <1>6 DEF SetMemoryRegion
  <1>7. CASE SetupIrq
    BY <1>7 DEF SetupIrq
  <1>8. CASE CreateVcpu
    BY <1>8 DEF CreateVcpu
  <1>9. CASE MapVcpu
    BY <1>9 DEF MapVcpu
  <1>10. CASE SetupVcpu
    BY <1>10 DEF SetupVcpu
  <1>11. CASE VcpusAdded
    BY <1>11 DEF VcpusAdded
  <1>12. CASE ConfigurePaging
    BY <1>12 DEF ConfigurePaging, MinPages
  <1>13. CASE LoadKernel
    BY <1>13 DEF LoadKernel
  <1>14. CASE InitFilesystem
    BY <1>14 DEF InitFilesystem
  <1>15. CASE RunMainLoop
    BY <1>15 DEF RunMainLoop
  <1>16. CASE CleanKernel
    BY <1>16 DEF CleanKernel
  <1>17. CASE CleanVcpu
    BY <1>17 DEF CleanVcpu
  <1>18. CASE VcpusCleaned
    BY <1>18 DEF VcpusCleaned
  <1>19. CASE CleanRest
    BY <1>19 DEF CleanRest, Close, Descriptor
  <1>20. CASE UNCHANGED vars
    BY <1>20 DEF vars
  <1>21. QED
    BY <1>1, <1>2, <1>3, <1>4, <1>5, <1>6, <1>7, <1>8, <1>9, <1>10, <1>11, <1>12,
       <1>13, <1>14, <1>15, <1>16, <1>17, <1>18, <1>19, <1>20 DEF Next

\* No call but the last one touches standard input, and every error is kept to the end.
LEMMA ReportStep == TypeOK /\ TableInv /\ GuestInv /\ ReportInv /\ [Next]_vars => ReportInv'
  <1> SUFFICES ASSUME TypeOK, TableInv, GuestInv, ReportInv, [Next]_vars PROVE ReportInv'
    OBVIOUS
  <1>0. pc = "load" => len = args.vcpu
    BY DEF TableInv, AfterVcpus
  <1> USE DEF TypeOK, GuestInv, ReportInv, StdinLostOnlyWithoutDevice, Goto, Fail, Check,
      BeforeVcpus, Building, AfterVcpus, SettingUp, Cleaning, NoDevice, Errors, fdVars, guestVars,
      vcpuVars
  <1>1. CASE OpenDevice
    BY <1>1 DEF OpenDevice
  <1>2. CASE CheckVersion
    BY <1>2 DEF CheckVersion
  <1>3. CASE CreateVm
    BY <1>3 DEF CreateVm
  <1>4. CASE CheckCaps
    BY <1>4 DEF CheckCaps
  <1>5. CASE AllocateMemory
    BY <1>5 DEF AllocateMemory
  <1>6. CASE SetMemoryRegion
    BY <1>6 DEF SetMemoryRegion
  <1>7. CASE SetupIrq
    BY <1>7 DEF SetupIrq
  <1>8. CASE CreateVcpu
    BY <1>8 DEF CreateVcpu
  <1>9. CASE MapVcpu
    BY <1>9 DEF MapVcpu
  <1>10. CASE SetupVcpu
    BY <1>10 DEF SetupVcpu
  <1>11. CASE VcpusAdded
    BY <1>11 DEF VcpusAdded
  <1>12. CASE ConfigurePaging
    BY <1>12 DEF ConfigurePaging, MinPages
  <1>13. CASE LoadKernel
    BY <1>0, <1>13 DEF LoadKernel
  <1>14. CASE InitFilesystem
    BY <1>14 DEF InitFilesystem
  <1>15. CASE RunMainLoop
    BY <1>15 DEF RunMainLoop
  <1>16. CASE CleanKernel
    BY <1>16 DEF CleanKernel
  <1>17. CASE CleanVcpu
    BY <1>17 DEF CleanVcpu
  <1>18. CASE VcpusCleaned
    BY <1>18 DEF VcpusCleaned
  <1>19. CASE CleanRest
    BY <1>19 DEF CleanRest, Close, Descriptor
  <1>20. CASE UNCHANGED vars
    BY <1>20 DEF vars
  <1>21. QED
    BY <1>1, <1>2, <1>3, <1>4, <1>5, <1>6, <1>7, <1>8, <1>9, <1>10, <1>11, <1>12,
       <1>13, <1>14, <1>15, <1>16, <1>17, <1>18, <1>19, <1>20 DEF Next

\* IInv holds in every reachable state.
THEOREM Inductive == Spec => []IInv
  <1>1. Init => IInv
    BY TypeInit, MaxVcpuAssumption DEF Init, IInv, TableInv, GuestInv, ReportInv, Known,
       BeforeVcpus, Building, AfterVcpus, SettingUp, Cleaning, StdinLostOnlyWithoutDevice, TypeOK
  <1>2. IInv /\ [Next]_vars => IInv'
    BY TypeStep, TableStep, GuestStep, ReportStep DEF IInv
  <1>3. QED
    BY <1>1, <1>2, PTL DEF Spec

\* Every variable keeps its type.
THEOREM TypeCorrect == Spec => []TypeOK
  <1>1. IInv => TypeOK
    BY DEF IInv
  <1>2. QED
    BY Inductive, <1>1, PTL

\* run_main_loop is entered only with a complete VM.
THEOREM StartedVmIsCompleteHolds == Spec => []StartedVmIsComplete
  <1>1. IInv => StartedVmIsComplete
    BY DEF IInv, TableInv, GuestInv, StartedVmIsComplete, Known, SettingUp, AfterVcpus
  <1>2. QED
    BY Inductive, <1>1, PTL

\* vec_append never stores a vCPU outside the table.
THEOREM TableWithinCapacityHolds == Spec => []TableWithinCapacity
  <1>1. IInv => TableWithinCapacity
    BY DEF IInv, TypeOK, TableInv, TableWithinCapacity
  <1>2. QED
    BY Inductive, <1>1, PTL

\* mini_kvm_clean_kvm forgets only the vCPU that was being built and the socket.
THEOREM CleanHolds == Spec => []CleanLeavesOnlyUnfinishedVcpu
  <1>1. IInv => CleanLeavesOnlyUnfinishedVcpu
    BY DEF IInv, TypeOK, TableInv, GuestInv, CleanLeavesOnlyUnfinishedVcpu
  <1>2. QED
    BY Inductive, <1>1, PTL

\* mini_kvm_clean_kvm closes standard input only when /dev/kvm could not be used at all.
THEOREM StdinLostOnlyWithoutDeviceHolds == Spec => []StdinLostOnlyWithoutDevice
  <1>1. IInv => StdinLostOnlyWithoutDevice
    BY DEF IInv, ReportInv
  <1>2. QED
    BY Inductive, <1>1, PTL

\* mini_kvm_run returns success exactly for a VM whose set-up up to its directory and main
\* loop was complete; what fails after that is not reported.
THEOREM FailureIsReportedHolds == Spec => []FailureIsReported
  <1>1. IInv => FailureIsReported
    <2> SUFFICES ASSUME IInv, pc = "end"
                 PROVE  ret = "SUCCESS" <=> /\ paging /\ loaded /\ args.mem_size >= MinPages
                                            /\ ready = 0 .. args.vcpu - 1
      BY DEF FailureIsReported
    <2>1. /\ ret = "SUCCESS" <=> loaded
          /\ loaded => paging /\ args.mem_size >= MinPages /\ len = args.vcpu
      BY DEF IInv, ReportInv, Cleaning
    <2>2. ready = 0 .. len - 1
      BY DEF IInv, TableInv, Known
    <2>3. QED
      BY <2>1, <2>2
  <1>2. QED
    BY Inductive, <1>1, PTL
==============================================================================
