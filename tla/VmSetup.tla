------------------------------- MODULE VmSetup -------------------------------
(***************************************************************************)
(* mini_kvm_run: the resources a VM is built from, acquired one call after  *)
(* the other, each of which may fail, and what mini_kvm_clean_kvm gives     *)
(* back from wherever the set-up stopped.  The running VM itself            *)
(* (run_main_loop) is one step here; VmRuntime opens it up.  Heap blocks    *)
(* are left out.                                                           *)
(***************************************************************************)
EXTENDS Integers

CONSTANTS
    MaxVcpu,   \* bound: the largest --vcpu tried
    MemPages   \* the --mem sizes tried, in pages

\* MINIMUM_MEMORY_REQUIRED in pages: page tables in 1..3, the boot loader in 4.
MinPages == 5

ASSUME MaxVcpuAssumption == MaxVcpu \in Nat \ {0}
ASSUME MemPagesAssumption == MemPages \subseteq Nat

VARIABLES
    args,      \* MiniKvmRunArgs
    pc,        \* control location
    ret,       \* what mini_kvm_run will return
    stdin,     \* descriptor 0 is open
    kvm_fd, vm_fd, fs_fd, sock,  \* the descriptor fields of struct Kvm
    mem,       \* kvm->mem: NULL, MAP_FAILED, mapped, registered with KVM, unmapped
    irqchip,   \* the interrupt controller and timer exist
    vcpu_fd,   \* the vCPUs whose descriptor is open
    kvm_run,   \* the vCPUs whose kvm_run is mapped
    ready,     \* the vCPUs whose registers and cpuid are set
    paging,    \* the first vCPU is in long mode with its page tables
    loaded,    \* the kernel is in guest memory
    kernel,    \* args.kernel_code is allocated
    len, capacity,  \* the vCPU table: kvm->vcpus->len and ->capacity
    idx,       \* loop index of mini_kvm_clean_kvm
    served     \* run_main_loop was called; it may have failed

fdVars == <<stdin, kvm_fd, vm_fd, fs_fd, sock>>
vcpuVars == <<vcpu_fd, kvm_run, ready, len, capacity>>
guestVars == <<mem, irqchip, paging, loaded>>
vars == <<args, pc, ret, fdVars, vcpuVars, guestVars, kernel, idx, served>>

Errors == {"NO_DEVICE", "WRONG_VERSION", "FAILED_VM_CREATION", "UNSUPPORTED_CAPS",
           "FAILED_ALLOCATION", "FAILED_MEMORY_REGION_CREATION", "FAILED_VCPU_CREATION",
           "NOT_ENOUGH_MEMORY", "FAILED_IOCTL", "INTERNAL_ERROR"}

\* A descriptor field is 0 from calloc until its call returns.
Descriptor == {"zero", "error", "open", "closed"}

SetupPc == {"open", "version", "create_vm", "caps", "mem", "region", "irq", "create_vcpu",
            "map_vcpu", "setup_vcpu", "paging", "load", "fs", "run", "clean_kernel",
            "clean_vcpus", "clean_kvm", "end"}

TypeOK ==
    /\ args \in [vcpu : 1 .. MaxVcpu, mem_size : MemPages, kernel : BOOLEAN, name : BOOLEAN]
    /\ pc \in SetupPc
    /\ ret \in Errors \cup {"SUCCESS"}
    /\ stdin \in BOOLEAN
    /\ kvm_fd \in Descriptor /\ vm_fd \in Descriptor /\ fs_fd \in Descriptor /\ sock \in Descriptor
    /\ mem \in {"null", "failed", "mapped", "registered", "unmapped"}
    /\ irqchip \in BOOLEAN /\ paging \in BOOLEAN /\ loaded \in BOOLEAN
    /\ vcpu_fd \subseteq 0 .. MaxVcpu /\ kvm_run \subseteq 0 .. MaxVcpu
    /\ ready \subseteq 0 .. MaxVcpu
    /\ kernel \in BOOLEAN /\ served \in BOOLEAN
    /\ len \in 0 .. MaxVcpu /\ capacity \in Nat /\ idx \in 0 .. MaxVcpu

\* run_parse_args has succeeded and struct Kvm is allocated and zero.
Init ==
    /\ args \in [vcpu : 1 .. MaxVcpu, mem_size : MemPages, kernel : BOOLEAN, name : BOOLEAN]
    /\ pc = "open"
    /\ ret = "SUCCESS"
    /\ stdin = TRUE
    /\ kvm_fd = "zero" /\ vm_fd = "zero" /\ fs_fd = "zero" /\ sock = "zero"
    /\ mem = "null"
    /\ irqchip = FALSE /\ paging = FALSE /\ loaded = FALSE
    /\ vcpu_fd = {} /\ kvm_run = {} /\ ready = {}
    /\ kernel = args.kernel
    /\ len = 0 /\ capacity = 1
    /\ idx = 0
    /\ served = FALSE

Goto(from, to) == pc = from /\ pc' = to /\ UNCHANGED ret

\* A call failed: goto clean_kvm with its error.
Fail(from, error) == pc = from /\ pc' = "clean_vcpus" /\ ret' = error

\* A call that only decides whether the set-up goes on.
Check(from, to, error) == Goto(from, to) \/ Fail(from, error)
------------------------------------------------------------------------------
(* mini_kvm_setup_kvm *)

OpenDevice ==
    /\ \/ Goto("open", "version") /\ kvm_fd' = "open"
       \/ Fail("open", "NO_DEVICE") /\ kvm_fd' = "error"
    /\ UNCHANGED <<args, stdin, vm_fd, fs_fd, sock, vcpuVars, guestVars, kernel, idx, served>>

CheckVersion ==
    /\ Check("version", "create_vm", "WRONG_VERSION")
    /\ UNCHANGED <<args, fdVars, vcpuVars, guestVars, kernel, idx, served>>

\* Mutation: the descriptor is stored only when the call succeeded.
CreateVmLateStore ==
    /\ \/ Goto("create_vm", "caps") /\ vm_fd' = "open"
       \/ Fail("create_vm", "FAILED_VM_CREATION") /\ UNCHANGED vm_fd
    /\ UNCHANGED <<args, stdin, kvm_fd, fs_fd, sock, vcpuVars, guestVars, kernel, idx, served>>

CreateVm ==
    /\ \/ Goto("create_vm", "caps") /\ vm_fd' = "open"
       \/ Fail("create_vm", "FAILED_VM_CREATION") /\ vm_fd' = "error"
    /\ UNCHANGED <<args, stdin, kvm_fd, fs_fd, sock, vcpuVars, guestVars, kernel, idx, served>>

\* The extensions; on an Intel host the two address ioctls follow, whose results
\* are thrown away by the comma operator.
CheckCaps ==
    /\ Check("caps", "mem", "UNSUPPORTED_CAPS")
    /\ UNCHANGED <<args, fdVars, vcpuVars, guestVars, kernel, idx, served>>

AllocateMemory ==
    /\ \/ /\ args.mem_size # 0
          /\ Goto("mem", "region")
          /\ mem' = "mapped"
       \/ /\ Fail("mem", "FAILED_ALLOCATION")
          /\ mem' = IF args.mem_size = 0 THEN "null" ELSE "failed"
    /\ UNCHANGED <<args, fdVars, vcpuVars, irqchip, paging, loaded, kernel, idx, served>>

SetMemoryRegion ==
    /\ \/ Goto("region", "irq") /\ mem' = "registered"
       \/ Fail("region", "FAILED_MEMORY_REGION_CREATION") /\ UNCHANGED mem
    /\ UNCHANGED <<args, fdVars, vcpuVars, irqchip, paging, loaded, kernel, idx, served>>

\* kvm_setup_irq compares with -1 by `<', so a failed ioctl goes unnoticed.
SetupIrq ==
    /\ Goto("irq", "create_vcpu")
    /\ irqchip' \in BOOLEAN
    /\ UNCHANGED <<args, fdVars, vcpuVars, mem, paging, loaded, kernel, idx, served>>
------------------------------------------------------------------------------
(* mini_kvm_add_vcpu, once per vCPU; the vCPU being built has the number len *)

\* Mutation: the loop adds one vCPU too many.
CreateVcpuOffByOne ==
    /\ len <= args.vcpu
    /\ Goto("create_vcpu", "map_vcpu") /\ vcpu_fd' = vcpu_fd \cup {len}
    /\ UNCHANGED <<args, fdVars, kvm_run, ready, len, capacity, guestVars, kernel, idx, served>>

CreateVcpu ==
    /\ len < args.vcpu
    /\ \/ Goto("create_vcpu", "map_vcpu") /\ vcpu_fd' = vcpu_fd \cup {len}
       \/ Fail("create_vcpu", "FAILED_VCPU_CREATION") /\ UNCHANGED vcpu_fd
    /\ UNCHANGED <<args, fdVars, kvm_run, ready, len, capacity, guestVars, kernel, idx, served>>

\* Mutation: the error is dropped.
MapVcpuSilent ==
    /\ \/ Goto("map_vcpu", "setup_vcpu") /\ kvm_run' = kvm_run \cup {len}
       \/ Goto("map_vcpu", "clean_vcpus") /\ UNCHANGED kvm_run
    /\ UNCHANGED <<args, fdVars, vcpu_fd, ready, len, capacity, guestVars, kernel, idx, served>>

\* KVM_GET_VCPU_MMAP_SIZE and mmap.
MapVcpu ==
    /\ \/ Goto("map_vcpu", "setup_vcpu") /\ kvm_run' = kvm_run \cup {len}
       \/ Fail("map_vcpu", "FAILED_VCPU_CREATION") /\ UNCHANGED kvm_run
    /\ UNCHANGED <<args, fdVars, vcpu_fd, ready, len, capacity, guestVars, kernel, idx, served>>

\* Mutation: vec_append never grows the table.
VecAppendNoResize == len' = len + 1 /\ UNCHANGED capacity

\* vec_append: the length is raised first, then the table doubled when it is full.
VecAppend ==
    /\ len' = len + 1
    /\ capacity' = IF len + 1 >= capacity THEN capacity * 2 ELSE capacity

\* mini_kvm_setup_vcpu (registers, segment registers, cpuid), then vec_append.
SetupVcpu ==
    /\ \/ Goto("setup_vcpu", "create_vcpu") /\ ready' = ready \cup {len} /\ VecAppend
       \/ Fail("setup_vcpu", "FAILED_VCPU_CREATION") /\ UNCHANGED <<ready, len, capacity>>
    /\ UNCHANGED <<args, fdVars, vcpu_fd, kvm_run, guestVars, kernel, idx, served>>

\* Mutation: the loop stops one vCPU short.
VcpusAddedEarly ==
    /\ len + 1 >= args.vcpu
    /\ Goto("create_vcpu", "paging")
    /\ UNCHANGED <<args, fdVars, vcpuVars, guestVars, kernel, idx, served>>

VcpusAdded ==
    /\ len = args.vcpu
    /\ Goto("create_vcpu", "paging")
    /\ UNCHANGED <<args, fdVars, vcpuVars, guestVars, kernel, idx, served>>
------------------------------------------------------------------------------
(* The rest of mini_kvm_run *)

\* mini_kvm_configure_paging: page tables in guest memory, then KVM_SET_SREGS.
ConfigurePaging ==
    /\ \/ args.mem_size < MinPages /\ Fail("paging", "NOT_ENOUGH_MEMORY") /\ UNCHANGED paging
       \/ args.mem_size >= MinPages /\ Fail("paging", "FAILED_IOCTL") /\ UNCHANGED paging
       \/ args.mem_size >= MinPages /\ Goto("paging", "load") /\ paging' = TRUE
    /\ UNCHANGED <<args, fdVars, vcpuVars, mem, irqchip, loaded, kernel, idx, served>>

LoadKernel ==
    /\ \/ ~kernel /\ Fail("load", "INTERNAL_ERROR") /\ UNCHANGED loaded
       \/ kernel /\ Goto("load", "fs") /\ loaded' = TRUE
    /\ UNCHANGED <<args, fdVars, vcpuVars, mem, irqchip, paging, kernel, idx, served>>

\* init_filesystem of a named VM: its error is not kept in ret.
InitFilesystem ==
    /\ \/ ~args.name /\ Goto("fs", "run") /\ UNCHANGED fs_fd
       \/ args.name /\ Goto("fs", "run") /\ fs_fd' = "open"
       \/ args.name /\ Goto("fs", "clean_kernel") /\ fs_fd' \in {"open", "error"}
    /\ UNCHANGED <<args, stdin, kvm_fd, vm_fd, sock, vcpuVars, guestVars, kernel, idx, served>>

\* run_main_loop and rmrf.  Its result is ignored: no socket (mini_kvm_ipc_create_socket
\* closes it again when bind or listen fails) or no thread, the program goes on alike.
RunMainLoop ==
    /\ Goto("run", "clean_kernel")
    /\ served' = TRUE
    /\ sock' \in {"open", "closed", "error"}
    /\ UNCHANGED <<args, stdin, kvm_fd, vm_fd, fs_fd, vcpuVars, guestVars, kernel, idx>>

CleanKernel ==
    /\ Goto("clean_kernel", "clean_vcpus")
    /\ kernel' = FALSE
    /\ UNCHANGED <<args, fdVars, vcpuVars, guestVars, idx, served>>
------------------------------------------------------------------------------
(* mini_kvm_clean_kvm *)

\* Mutation: the first vCPU is skipped.
CleanVcpuFromOne ==
    /\ idx < len
    /\ Goto("clean_vcpus", "clean_vcpus")
    /\ vcpu_fd' = vcpu_fd \ {idx + 1}
    /\ kvm_run' = kvm_run \ {idx + 1}
    /\ idx' = idx + 1
    /\ UNCHANGED <<args, fdVars, ready, len, capacity, guestVars, kernel, served>>

\* The next vCPU of the table: unmap, close.
CleanVcpu ==
    /\ idx < len
    /\ Goto("clean_vcpus", "clean_vcpus")
    /\ vcpu_fd' = vcpu_fd \ {idx}
    /\ kvm_run' = kvm_run \ {idx}
    /\ idx' = idx + 1
    /\ UNCHANGED <<args, fdVars, ready, len, capacity, guestVars, kernel, served>>

VcpusCleaned ==
    /\ idx = len
    /\ Goto("clean_vcpus", "clean_kvm")
    /\ UNCHANGED <<args, fdVars, vcpuVars, guestVars, kernel, idx, served>>

Close(fd) == IF fd = "open" THEN "closed" ELSE fd

\* The directory of a named VM, guest memory, then the two descriptors as they
\* are: a field that was never set closes descriptor 0.
CleanRest ==
    /\ Goto("clean_kvm", "end")
    /\ fs_fd' = Close(fs_fd)
    /\ mem' = IF mem \in {"mapped", "registered"} THEN "unmapped" ELSE mem
    /\ kvm_fd' = Close(kvm_fd)
    /\ vm_fd' = Close(vm_fd)
    /\ stdin' = (stdin /\ kvm_fd # "zero" /\ vm_fd # "zero")
    /\ UNCHANGED <<args, sock, vcpuVars, irqchip, paging, loaded, kernel, idx, served>>

Next ==
    \/ OpenDevice \/ CheckVersion \/ CreateVm \/ CheckCaps \/ AllocateMemory
    \/ SetMemoryRegion \/ SetupIrq \/ CreateVcpu \/ MapVcpu \/ SetupVcpu \/ VcpusAdded
    \/ ConfigurePaging \/ LoadKernel \/ InitFilesystem \/ RunMainLoop \/ CleanKernel
    \/ CleanVcpu \/ VcpusCleaned \/ CleanRest

Spec == Init /\ [][Next]_vars

------------------------------------------------------------------------------
(* Properties *)

\* The main loop is entered only with a complete VM: registered memory that holds
\* the page tables and the kernel, and every requested vCPU built, mapped and set
\* up, although each of these may fail on its own.
StartedVmIsComplete ==
    pc = "run" =>
        /\ kvm_fd = "open" /\ vm_fd = "open" /\ mem = "registered"
        /\ paging /\ loaded /\ args.mem_size >= MinPages
        /\ len = args.vcpu
        /\ ready = 0 .. args.vcpu - 1 /\ vcpu_fd = ready /\ kvm_run = ready

\* The vCPU that vec_append stores is inside the table it has allocated.
TableWithinCapacity == len <= capacity

\* Wherever the set-up stopped, the clean up gives back all that struct Kvm knows
\* of except the listening socket; the vCPU that was being built is forgotten too.
CleanLeavesOnlyUnfinishedVcpu ==
    pc = "end" =>
        /\ kvm_fd # "open" /\ vm_fd # "open" /\ fs_fd # "open"
        /\ mem \notin {"mapped", "registered"}
        /\ vcpu_fd \subseteq {len} /\ kvm_run \subseteq vcpu_fd
        /\ served => vcpu_fd = {}

\* The clean up takes the program's standard input with it only when /dev/kvm
\* could not be used at all; every later failure leaves it open.
StdinLostOnlyWithoutDevice ==
    pc = "end" /\ ~stdin => ret \in {"NO_DEVICE", "WRONG_VERSION"}

\* mini_kvm_run returns success exactly when all that comes before the VM's directory
\* and main loop has worked: every requested vCPU set up, the page tables and the
\* kernel in place.  So each failure up to there is reported, and none after it: a
\* directory that is refused and a run_main_loop that fails (no socket, no thread) also
\* return success, for a VM that never ran.
FailureIsReported ==
    pc = "end" =>
        (ret = "SUCCESS" <=> /\ paging /\ loaded /\ args.mem_size >= MinPages
                             /\ ready = 0 .. args.vcpu - 1)
==============================================================================
