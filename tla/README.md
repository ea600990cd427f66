# mini_kvm: TLA+ models, checks and proofs

mini_kvm is a small virtual machine monitor on top of KVM. `mini_kvm run` builds a VM
and serves it; `pause`, `resume`, `shutdown` and `status` are separate processes that
talk to it over a Unix socket. Paths below are relative to the repository root.

## 1. Inventory

| Component | State | Operations | Interacts with | What is hard | What makes it correct |
|---|---|---|---|---|---|
| vCPU threads, `src/kvm/kvm.c` (`kvm_vcpu_thread_run`) | control location, `kvm_run->exit_reason`, pending signals | test the state, wait in the pause, `KVM_RUN`, handle the exit | shares `struct Kvm` with main, no common lock; real-time signals; the logger's mutex | data races, lost wake-ups, signals outside `KVM_RUN` | stops when told, sleeps only while paused, ends before its resources do |
| Main loop and monitor, `src/commands/run.c`, `status.c` | `state`, `paused`, `pause_lock`, the connection | accept, dispatch, one handler per command, SIGINT/SIGTERM | clients by messages, vCPUs by fields, signals and a condition variable | a lock held from one command to another; late stores of `state` | each reply describes the VM; never stuck; ends after a shutdown |
| Set-up and clean up, `run.c`, `kvm.c`, `core/containers.c` | descriptors, mappings, the vCPU table | a chain of calls, `mini_kvm_clean_kvm` | the kernel | any call may fail | only a complete VM starts; what was acquired is given back |
| VM directory, `run.c`, `core/filesystem.c`, `core/core.c` | directory, pidfile, socket | `init_filesystem`, `bind`, `rmrf`, `mini_kvm_check_vm` | all processes with that name | races and crashes between system calls | one VM per name, which can be found |
| Clients, `pause.c`, `resume.c`, `shutdown.c`, `status.c` | the last result | ask the state, send a command | the main loop | acting on a state that has changed | send a command only in the state it is for |
| IPC, `src/ipc/ipc.c` | queue, descriptors | create, accept, connect, exchange | clients, main loop | dead and stopped peers, descriptors never closed, results nobody looks at | a command is carried out once, in order, and answered |
| Logger, `src/core/logger.c` | mutex, level, output | `log_log`, `logger_set_output` | every thread and the signal handler | taken inside a signal handler; no output | a log call returns |
| Options of `run` and `status`, `run.c`, `status.c` | the arguments, the result | one turn of `getopt_long` | conversions, logger | a result overwritten by the next option; stores wider than their field | what is accepted is what was written |
| Conversions and lists, `core/core.c` | none | numbers, lists, masks | options | widths, empty and last fields | agree with a reference definition |
| Dump and registers, `status.c`, `kvm.c` | the result buffer | `status_handle_regs`, `mini_kvm_dump_mem` | client, memory | limits, zero, signedness | show what was asked for |
| Dispatch (`main.c`) | none | choose a sub command | options | | |
| BIOS, tests, build | none | | | | |

`PROJECT.json` repeats the list with what is modelled of each, and lists the hazards
at their lines.

## 2. Plan

1. **VmRuntime** - vCPU threads, main loop, commands, end of the VM. *Done*, with proofs.
2. **VmSetup** - set-up and clean up with failures. *Done*, with proofs.
3. **VmFs** - the directory shared by the runs of one name. *Done*, with proofs.
4. **VmLifecycle** - the abstract VM that VmRuntime implements. *Done*, the refinement
   checked and proved.
5. **Monitor** - several clients, the queue, dead and stopped peers, descriptors, the
   clients' error paths. *Done*, with proofs.
6. **Conversions**, **RunOptions**, **StatusRequest**, composed by **CommandLine** -
   options, lists, masks, sizes, registers and dumps. *Done*, with proofs.

Nothing of the plan is left; section 7 lists what is outside it.

Monitor sees the main loop of VmRuntime from the socket: a handler is one step there, and
the connection one step here. StatusRequest opens up a `status` client of Monitor.
VmSetup's step `RunMainLoop` is what VmRuntime opens up; VmFs sees the same run from the
directory (`Bind`, `Finish`, `Exit`). VmRuntime starts where VmSetup reaches `run`.

## 3. Modules

### VmRuntime (`MCVmRuntime`, `VmRuntimeProofs`)

One process: the main thread and `NVcpu` vCPU threads. `state`, `paused`, `pause_lock`,
`thread` and `mapped` are the fields of `struct Kvm` and `struct VCpu`; `pc`, `mpc` the
control locations; `pending`, `handler` and `handlers` the signals; `log_lock` the
logger's mutex; `client` the connection being served.

* Each read or write of `state` and `paused` is a step of its own, because nothing
  orders them. So a handler such as `status_handle_pause` is a chain `PauseStore`,
  `PauseSignal`, `PauseLock`, `PauseFlag` of forced steps of the main thread, between
  which the vCPU threads move.
* `pthread_cond_wait` is called by a thread that does not own `pause_lock`. With a
  default glibc mutex the call simply releases it, and the thread that wakes up locks
  it; the code never unlocks it there. `CondWait` and `CondRelock` say exactly that.
  Spurious wake-ups are left out.
* A signal delivered during `KVM_RUN` makes it return with `KVM_EXIT_INTR`
  (`InterruptGuest`); anywhere else it runs its handler and is gone (`Deliver`). The
  handler logs: on a thread that is inside `log_log` it waits for ever (`"stuck"`).
* `MiniKVMError ret` is unsigned, so the test of the result of `KVM_RUN` never holds:
  `RunFails` goes on to the switch with the old or a reset exit reason.
* A real-time signal without handler, and a reply to a dead client (SIGPIPE), end the
  process: `mpc = "killed"`.
* `KVM_GET_REGS` waits for a vCPU that is in `KVM_RUN` (the kernel's vCPU mutex).
* `PausedVm` in `MCVmRuntime` are reachable states of a paused VM, the start of the run
  RuntimeLiveness.
* Faults (`Faults`): the socket, a thread or `KVM_RUN` failing, a client dying, SIGTERM.

Left out: `kvm->lock`, which only main takes; the order in which `mini_kvm_send_sig`
reaches the threads (one step); the main thread's log calls on error paths; which thread
takes a SIGTERM (main); hoisting of racy reads by an optimising compiler (the default
build has no optimisation); the contents of register and memory replies.

### VmLifecycle (`VmLifecycleProofs`)

What a VM promises to whoever talks to it: the `phase` of the process (boot, up, ending,
gone, killed), the command it is `serving`, whether it is `frozen` by a pause, which vCPUs
are `live` and which have their resources `held`. A command takes its effect exactly once,
between its receipt and its answer; threads are created only during the boot, and a vCPU's
resources are released only when its thread has ended. VmRuntime implements it under the
mapping at its end (`AbsPhase`, `AbsServing`; `frozen` is `paused`): the chains of steps of
a handler, and everything the vCPU threads do with locks and signals in between, are
stutters but for the one step that matters.

### VmSetup (`MCVmSetup`, `VmSetupProofs`)

`mini_kvm_run` from `calloc` to `mini_kvm_clean_kvm`: one action per call that may fail,
`Fail` being `goto clean_kvm` with the error. A descriptor field is `"zero"` until its
call returns, so `close(kvm->vm_fd)` after an early failure closes standard input
(`stdin`). `kernel`, `mem`, the vCPU descriptors and mappings, and the length and
capacity of the vCPU table are the resources; heap blocks are not tracked. `args` is any
result of a successful `run_parse_args`. `kvm_setup_irq` cannot fail, because it
compares with `< -1`, so `irqchip` is a choice.

### VmFs (`MCVmFs`, `VmFsProofs`)

The directory `/tmp/mini_kvm/<name>` and the processes that `run` that name: one action
per system call of `init_filesystem`, of `bind` and of `nftw`. Inodes tell a directory
or pidfile from its successor, since the code keeps descriptors across steps. `check_vm`
and `connects_to` are what the other sub commands see. A process may be killed at any
point. Left out: creation of `/tmp/mini_kvm`, reuse of pids, unnamed runs.

### Monitor (`MCMonitor`, `MonitorProofs`)

The client programs, each a process with its control location `cpc`, the commands it means
to send (`plan`, `at`) and its result buffer `cres`; and the main loop (`spc`) with the
connection it serves, the queue of the listening socket (`listen(sock, 0)` holds one
connection), the descriptors it has used up (`fds`) and the result buffer that all clients
share (`res`). `request` and `reply` are what is in flight on a client's connection. A
handler that returns is its effect on `kvm->state`.

* `connect` waits while the queue is full. When it fails, `mini_kvm_ipc_connect` closes
  the descriptor and returns it, so the client goes on and fails in `send`.
* `recv` in the client compares with `< -1`: a VM that has gone leaves the buffer as it
  was, and the client goes on as if answered. A `send` to it ends the client by SIGPIPE.
* A reply to a client that has closed its end ends the VM the same way.
* A handler may also never return (`HandlerWaits`): PAUSE once a resume has woken a vCPU
  (`woken`), which may own `pause_lock` since; SHOW_REGS on a PAUSED VM, for a vCPU still
  in the guest; DUMP_MEM, for the reader of the client's output. And `mini_kvm_clean_kvm`
  may wait for ever in `pthread_join` (`JoinWaits`), as it does after SIGTERM on a paused
  VM. Which of the two happens depends on the threads and is a choice here; VmRuntime has
  the threads.
* Faults: a client dies or stops for good at any point, the guest halts, SIGTERM.

Left out: transfers in several pieces (a result of 29 KiB fits one socket buffer), and the
time `usleep` takes. A command line that is refused is a client that does not start.

### Conversions, RunOptions, StatusRequest, CommandLine (`MCCommandLine`)

Proofs: `ConversionsProofs`, `RunOptionsProofs`, `StatusRequestProofs`.

A string is a sequence of characters, a digit being its own value. Words are scaled:
`LongBits` for 64, `IntBits` for 32, with `LongBits = 2 * IntBits`.

* `Conversions`: `is_uint`, `to_uint`, `parse_int_list` (field by field, with the two
  lengths the code computes) and `parse_cpu_list`. `1 << n` is an int: its sign bit fills
  the upper half of the mask, and a larger n counts modulo the width, as the shift
  instruction of x86 does it.
* `RunOptions`: `args`, `ret`, the logger's `output` and `level`; one action per kind of
  option. The 64-bit store of `-v` changes the lower half of `mem_size` (`StoreVcpu`); an
  unopened kernel or log file ends in `"crashed"` where a null stream is used.
* `StatusRequest`: `sargs`, then one action per command, from `status_build_command` over
  the handler to what is shown. `regs` holds whose registers each entry of the result has.
  The VM keeps one result for all its clients, so entry 0 starts with what an earlier one
  read (`StatusParsed`). `dump_mem` is the set of bytes `mini_kvm_dump_mem` reads, none of
  a word above 2^31 bytes, for which the signed `word_offset` starts negative
  (`word_offsets`). A size of 0 ends the VM; a word that lies beyond the memory may end it
  or be read.
* `CommandLine`: `main` chooses, and the sub command reads its own options.

Left out: `-n` and `-d`; errno left over from an earlier conversion (after a number out of
range no result of `mini_kvm_to_uint` is looked at again); lines of more than seven
commands and lists of more than four numbers, which overrun their arrays; dump lines of more
than 2^32 - word_size bytes, whose counter wraps (`Ordinary` keeps them out of the
properties).

## 4. Runs

| Run | Bounds | Shows |
|---|---|---|
| RuntimeCommands | 1 vCPU, 3 sessions, all clients, all faults, 3 exit kinds | `TypeOK`, `NoSelfDeadlock`, `FlagAgreesWithState`, `ReplyMatchesVm`, `RefinesLifecycle` |
| RuntimeThreads | 2 vCPUs, 2 sessions, a thread may fail to start, the guest may halt | `NoUseAfterRelease`, `NoEarlyRun`, `JoinSeesShutdown`, `KilledOnlyBeforeLoops` |
| RuntimeLiveness | 2 vCPUs, paused after one session (`PausedVm`), then resume or shutdown, the guest may halt, fair | `SleepingVmShutsDown`, `ResumedVcpuRuns`, `ShutdownEndsLoop`, `LogCallReturns` |
| FsSharedName | 4 processes, one setting up or tearing down when another starts, crashes | `ServingVmReachable`, `NameExclusive`, `RefusalExplained` |
| Setup | up to 4 vCPUs, memory of 0, 4, 5 and 8 pages | `StartedVmIsComplete`, `TableWithinCapacity`, `CleanLeavesOnlyUnfinishedVcpu`, `StdinLostOnlyWithoutDevice`, `FailureIsReported` |
| Monitor | 3 clients: pause, resume, and pause, status or shutdown; one of them may die or stop; descriptors for all or for one; halt, SIGTERM, fair | `ServedInOrder`, `AnswerIsForLastCommand`, `ActsOnShownState`, `KilledOnlyByDeadClient`, `ClientEnds`, `ShutdownIsServed` |
| CommandLine | 8-bit words, 3 options a line, all lists of up to 4 of 4 characters | `SizesAsAsked`, `BadOptionRefused`, `CrashNeedsBadFile`, `ListsAsWritten`, `MaskAsWritten`, `OwnRegsShown`, `DumpCoversRequest`, `DumpWithinHeader` |
| PauseAgain | 1 vCPU, pause, resume, pause, fair | violated: `PauseCompletes` |
| ResumeTwoVcpus | 2 vCPUs, pause, resume | violated: `ResumeWakesAll` |
| LostWakeup | 1 vCPU, pause, resume | violated: `NoSleeperWhileRunning` |
| DumpWhileRunning | 1 vCPU, pause, status --mem | violated: `DumpSeesStoppedGuest` |
| FsRace | 3 processes, two busy at a time | violated: `NameExclusive` |

Where the code falls short of what one would ask, a passing property states the exact
exception: the VM that has gone (`ServedInOrder`), a stopped client, a full descriptor
table, a handler or join that waits for ever (`ClientEnds`, `ShutdownIsServed`), a second
sleeper or a vCPU not yet asleep (`SleepingVmShutsDown`, `ResumedVcpuRuns`; ResumeTwoVcpus
and LostWakeup show them), a refused directory and a main loop that failed, both of which
`mini_kvm_run` reports as success (`FailureIsReported`), `--vcpu` after `--mem`
(`SizesAsAsked`), vCPUs other than 0 (`OwnRegsShown`), words above 2^31 bytes
(`DumpCoversRequest`), the word at the end (`DumpWithinHeader`), the empty pidfile
(`RefusalExplained`).

Bounds. Three sessions are the shortest history in which a command meets the remains of
two earlier ones (pause, resume, pause). Two vCPUs are the least number for a partial
start, and for a sleeper beside a running vCPU. The runtime invariants are proved for
every number of vCPUs and sessions. Four processes let one serve, one crash, one be
refused and one follow. Memory sizes lie on both sides of the five pages that
`MINIMUM_MEMORY_REQUIRED` asks for, and 4 vCPUs grow the table three times. Three clients
let one be served, one wait in the queue and one in `connect`; with descriptors for all a
pause can follow a resume, with one (`MCSpec`) they run out. RuntimeLiveness starts from a
paused VM because the histories that lead there with two vCPUs are too many for checking
liveness: vCPU 0 sleeps, the other has ended or is in the guest with its signal pending,
and from there it sleeps or halts. These states are reachable from `Init`. In CommandLine
the memory (20 bytes) is larger than a scaled 32-bit number (16), a page has 4 bytes, and the strings lie on both sides of every width: numbers that
fit an int, a signed word, a word or nothing, shifts and roundings that wrap, and dumps on
both sides of the 2^32 bytes whose number of lines `nb_lines` can hold.

Deadlock is not checked: the program ends, and some of its real states are waits for ever
(PauseAgain, the stuck signal handler, the join after SIGTERM).

Fairness (`Fairness`). The kernel runs every thread that can run again and again, for its
own code or for a pending signal, and does not withhold a contended mutex from it for ever:
weak fairness of the main thread, strong fairness of each vCPU thread with its signals, since
its next step is disabled while another thread holds a lock. A connected client sends its
next command or closes. Nothing is assumed of the guest, of new clients or of faults, so a
guest may run for ever. Monitor assumes the same of the main loop and of each client that has not stopped, as weak
fairness: the queue serves clients in turn, so nothing stronger is needed.

`NameExclusive` holds when at most one run of a name is being set up or torn down at the
time another starts (`MaxBusy = 1`; a VM may still end during a set-up) and fails with
two (FsRace): the code relies on that spacing.

## 5. Proofs

TLAPS proves every safety invariant and action property of the passing runs, and the
refinement, for every value of the constants that satisfies the named assumptions:

| Module | Proved of the specification |
|---|---|
| VmRuntimeProofs | `TypeOK`, `NoSelfDeadlock`, `FlagAgreesWithState`, `ReplyMatchesVm`, `NoUseAfterRelease`, `NoEarlyRun`, `JoinSeesShutdown`; the action property `KilledOnlyBeforeLoops`; for any `NVcpu > 0` |
| VmLifecycleProofs | `RefinesLifecycle` |
| VmSetupProofs | `TypeOK`, `StartedVmIsComplete`, `TableWithinCapacity`, `CleanLeavesOnlyUnfinishedVcpu`, `StdinLostOnlyWithoutDevice`, `FailureIsReported`; any number of vCPUs, any memory sizes |
| VmFsProofs | `TypeOK`; with `MaxBusy = 1`: `ServingVmReachable`, `NameExclusive`, the action property `RefusalExplained`; any finite set of processes |
| MonitorProofs | `TypeOK`, `ServedInOrder`, `ActsOnShownState`, `KilledOnlyByDeadClient`; the action property `AnswerIsForLastCommand`; any clients, any number of descriptors |
| ConversionsProofs | lemmas: what `Number`, `strtoul`, `to_uint`, a turn of `parse_int_list` and `parse_cpu_list` return |
| RunOptionsProofs | `BadOptionRefused`, `CrashNeedsBadFile`, `SizesAsAsked`; any strings, word and page sizes |
| StatusRequestProofs | `TypeOK` of CommandLine, `ListsAsWritten`, `MaskAsWritten`, `OwnRegsShown`, `DumpCoversRequest`, `DumpWithinHeader`; what `parse_int_list` accepts and returns (`ParseMeans`); any strings, defaults, memory and word sizes |

**VmRuntime.** The invariant is `IInv == TypeOK /\ CommandInv /\ LoopInv /\ StartInv`. The
properties are not inductive alone: `NoSelfDeadlock` needs to know that PAUSE is sent only
by a `pause` client that was shown RUNNING (`SessionInv`), that the flag was clear then and
has stayed so (`PauseInv`), and that main owns `pause_lock` only while the flag is set or
inside the two handlers that change it. `ReleaseInv` ties the loop index to the threads
created, joined and released; `BootInv` keeps the initial PAUSED until `mini_kvm_start_vm`
stores RUNNING. A step of a vCPU is summarised once (`VcpuEffect`: the state may become
SHUTDOWN, `pause_lock` may pass to nobody or to that vCPU, the thread moves on), and each
part of the invariant is shown to survive that effect, then each action of main, of the
clients and of the environment. `KilledOnlyBeforeLoops` needs `HandlersInv` besides:
handlers belong to the process, so a thread that has gone past a `signal` call has
installed it for all.

**VmLifecycle.** Under the mapping at the end of VmRuntime the initial states map to
initial states and each action to a step or a stutter, using `IInv` in the state before: it is
what tells that a thread which is joined has ended, and whose resources are released.

**VmSetup.** `TypeOK /\ TableInv /\ GuestInv /\ ReportInv`: what is in the vCPU table, what
belongs to the vCPU being built, what each location of the set-up has acquired, and which
descriptor fields still hold the 0 of `calloc`, with the result that goes with that.
`FailureIsReported` is an equivalence: success means that everything before the directory
and the main loop has worked, and no more than that.
`len < capacity` is the form of `TableWithinCapacity` that is inductive: `vec_append`
doubles as soon as the table is full.

**VmFs.** `SpacingInv` says what `MaxBusy = 1` gives (one process sets up at a time, beside
at most one VM that runs or is being removed), `OwnerInv` that the pidfile names the
process that may still remove it, `ClearInv` and `FdInv` what a process that is setting up
has found out and still has open, `SockInv` that an `rmrf` with the socket on its list is
not beside a VM that serves, `RefusalInv` who has left an empty pidfile. Without the
hypothesis the theorems are false (FsRace).

**Monitor.** A client can be reasoned about by itself: `PlanInv`, `FlightInv` (what is on
its connection, by its location and the server's), `OrderInv` and `SeenInv` speak of one
client, and a lemma (`Frame`) shows that a step of another one leaves them alone. `ConnInv`
adds whom main works for.

**Conversions.** What a recursive function returns is an induction over data. It is done
here by least counterexample: a set of positions at which the claim fails would have a
least element (`Least`, from the well-foundedness of the naturals), and the equation of the
function refutes it. First the function has to exist (`NumberExists`, `ListExists`), by the
same argument. Powers of two are taken as the numbers of subsets (`Power`, `PowerTwice`):
the provers know nothing of `2 ^ n`.

**RunOptions.** `RunInv`: `PosInv` (the last place of a letter is one of its places),
`BadInv` (every result but ARGS_FAILED and, for sizes, SUCCESS excludes the bad options read
so far), `OutputInv` (without an output some unreplaced `--log` failed), `SizeInv` (the two
size fields at every turn, not only at the end: after a later `-v` the upper half of the
size at least).

**StatusRequest.** `StatusInv`: `ArgsInv` (one command an option at most, a DUMP_MEM has
its list), `RegsInv` (only entry 0 is ever filled), `DumpInv` (the dump shown is that of the
request). The dump itself is arithmetic: for each byte asked for, the line, word and place
that print it, none of them wrapping. The proof found that the range in which
`DumpCoversRequest` holds had been stated one byte too wide: at exactly 2^32 bytes and one
byte to the line, `nb_lines` (kvm.c:501) is cut to 0. `Ordinary` now excludes that size and
the run has strings on both sides of it. It covers words of up to 2^31 bytes, the largest
`word_offset` can count.

**Lists.** `ParseMeans` compares the parser, which goes through a string turn by turn, with
the reference definition `Denoted`, which cuts the string at its commas (`Cuts`) and numbers
the pieces by how many cuts come before them (`Rank`). The bridge is one lemma about a turn
that starts at a cut (`TurnMeans`): it reaches the next cut, which has the next rank
(`FieldAfter`), with the number of that field (`FieldIs`), or it fails on a character that
is neither digit nor comma (`FieldRefused`), on a number too large, or on a comma at the end
of the string, which the last conversion includes. From there the claim runs from the end
of the string to its start, again by least counterexample. `WrittenInv` then follows the
loop of `status_parse_args`: its `LineInv` is `ListsAsWritten` with the two results there
can be, its `MaskInv` what the mask and the flag of `-r` are before the defaults are filled
in, without which `MaskAsWritten`, which speaks of the request that is sent, is not
inductive.

Assumptions (all evaluated by TLC): `IntBits >= 2` and `LongBits = 2 * IntBits`; a page
smaller than an int; strings over the modelled characters; a memory smaller than half the
range of a word; at most as many vCPUs as bits of the mask, and at most seven options of
`status`, the size of its array; default sizes that are 32-bit numbers and not 0;
processes are positive pids, finitely many.

Only model-checked: the liveness properties (`ShutdownEndsLoop`, `SleepingVmShutsDown`,
`ResumedVcpuRuns`, `LogCallReturns`, `ClientEnds`, `ShutdownIsServed`), since the provers
have no rule for fairness and ENABLED.

## 6. Where code and documentation disagree

1. A second pause never returns: the woken vCPU kept `pause_lock` (PauseAgain).
2. A resume wakes one vCPU of several (ResumeTwoVcpus).
3. A resume that falls between the flag's test and the wait is lost (LostWakeup).
4. Memory may be dumped while the guest runs (DumpWhileRunning).
5. Two VMs may serve one name (FsRace).
6. A crash leaves a name that every later run is refused (`RefusalExplained`).
7. A VM may start without interrupt controller (`SetupIrq` in VmSetup cannot fail).
8. A client takes the end of the VM for an answer and announces success (`ServedInOrder`).
9. Accepted descriptors are never closed, until no client is accepted any more
   (`ClientEnds`).
10. `--vcpu` after `--mem` clears the lower half of the memory size (`SizesAsAsked`).
11. `status --regs` without a list selects vCPU 0 and not all (`DefaultMask` in StatusRequest), and shows
    the registers of the right vCPU for vCPU 0 only (`OwnRegsShown`).
12. A dump prints a word more than it announces (`DumpWithinHeader`).

## 7. Not modelled

The page table entries and segment registers (constants); formatting of the log and of
registers; a kernel larger than the memory; the guest's code and BIOS; tests and build
files. `vec_pop`, `logger_set_level` and `logger_stop` have no caller.
