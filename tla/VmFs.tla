-------------------------------- MODULE VmFs --------------------------------
(***************************************************************************)
(* The directory of a VM name, /tmp/mini_kvm/<name>, shared by every        *)
(* `mini_kvm run --name <name>' process: its pidfile says who runs the VM,  *)
(* its socket is where the sub commands connect.  Nothing locks it, so each *)
(* system call of init_filesystem, mini_kvm_ipc_create_socket and rmrf is a *)
(* step of its own, and a process may be killed between any two of them.    *)
(***************************************************************************)
EXTENDS Integers, FiniteSets

CONSTANTS
    Procs,     \* the pids of the run processes, in the order they may start
    MaxBusy,   \* how many of them may be setting up or tearing down when one starts
    Crashes    \* whether processes may be killed

ASSUME ProcsAssumption == Procs \subseteq Nat \ {0} /\ IsFiniteSet(Procs)
ASSUME MaxBusyAssumption == MaxBusy \in Nat \ {0}
ASSUME CrashesAssumption == Crashes \in BOOLEAN

VARIABLES
    dir,        \* the VM's directory: 0, or the inode it has now
    pidfile,    \* the pidfile in it: its inode (0: there is none), the pid inside
    sock,       \* the socket in it: 0, or the process that bound it
    inodes,     \* inodes handed out so far
    pc,         \* control location of each process
    fs_exists,  \* the directory existed when the process looked
    fs_fd,      \* the directory the process has open
    pid_fd,     \* the pidfile the process has open for writing
    pid,        \* the pid it read
    todo        \* what rmrf has still to remove

procVars == <<fs_exists, fs_fd, pid_fd, pid, todo>>
vars == <<dir, pidfile, sock, inodes, pc, procVars>>

Setup == {"stat", "mkdir", "open_dir", "open_pid", "kill", "create", "write", "bind"}
Teardown == {"rm_list", "rm_entry", "clean", "refused", "failed"}
RunPc == Setup \cup Teardown \cup {"idle", "serve", "done", "crashed"}
Entries == {"pidfile", "sock"}

NoFile == [ino |-> 0, pid |-> 0]

TypeOK ==
    /\ dir \in Nat
    /\ pidfile \in [ino : Nat, pid : Procs \cup {0}]
    /\ sock \in Procs \cup {0}
    /\ inodes \in Nat
    /\ pc \in [Procs -> RunPc]
    /\ fs_exists \in [Procs -> BOOLEAN]
    /\ fs_fd \in [Procs -> Nat]
    /\ pid_fd \in [Procs -> Nat]
    /\ pid \in [Procs -> Procs \cup {0}]
    /\ todo \in [Procs -> SUBSET Entries]

Init ==
    /\ dir = 0
    /\ pidfile = NoFile
    /\ sock = 0
    /\ inodes = 0
    /\ pc = [p \in Procs |-> "idle"]
    /\ fs_exists = [p \in Procs |-> FALSE]
    /\ fs_fd = [p \in Procs |-> 0]
    /\ pid_fd = [p \in Procs |-> 0]
    /\ pid = [p \in Procs |-> 0]
    /\ todo = [p \in Procs |-> {}]

Goto(p, from, to) == pc[p] = from /\ pc' = [pc EXCEPT ![p] = to]

Alive(p) == pc[p] \notin {"idle", "done", "crashed"}
Busy == {p \in Procs : pc[p] \in Setup \cup Teardown}
Present == {e \in Entries : (e = "pidfile" /\ pidfile.ino # 0) \/ (e = "sock" /\ sock # 0)}
------------------------------------------------------------------------------
(* init_filesystem *)

\* The user starts the processes in order.
Start(p) ==
    /\ Cardinality(Busy) < MaxBusy
    /\ \A q \in Procs : q < p => pc[q] # "idle"
    /\ Goto(p, "idle", "stat")
    /\ UNCHANGED <<dir, pidfile, sock, inodes, procVars>>

\* fs_exists = stat(kvm->fs_path)
Stat(p) ==
    /\ Goto(p, "stat", "mkdir")
    /\ fs_exists' = [fs_exists EXCEPT ![p] = dir # 0]
    /\ UNCHANGED <<dir, pidfile, sock, inodes, fs_fd, pid_fd, pid, todo>>

\* mkdirat; its result is not looked at.
MkDir(p) ==
    /\ Goto(p, "mkdir", "open_dir")
    /\ \/ dir = 0 /\ dir' = inodes + 1 /\ inodes' = inodes + 1
       \/ dir # 0 /\ UNCHANGED <<dir, inodes>>
    /\ UNCHANGED <<pidfile, sock, procVars>>

\* openat of the directory: without it the run gives up.  The pidfile is only
\* looked at when the directory was there before.
OpenDir(p) ==
    /\ Goto(p, "open_dir", CASE dir = 0 -> "failed"
                             [] dir # 0 /\ fs_exists[p] -> "open_pid"
                             [] OTHER -> "create")
    /\ fs_fd' = [fs_fd EXCEPT ![p] = dir]
    /\ UNCHANGED <<dir, pidfile, sock, inodes, fs_exists, pid_fd, pid, todo>>

\* Mutation: a pid of -1 stands for an empty pidfile.
ReadPidMinusOne(p) ==
    /\ fs_fd[p] = dir /\ pidfile.ino # 0
    /\ Goto(p, "open_pid", "kill")
    /\ pid' = [pid EXCEPT ![p] = IF pidfile.pid = 0 THEN -1 ELSE pidfile.pid]
    /\ UNCHANGED <<dir, pidfile, sock, inodes, fs_exists, fs_fd, pid_fd, todo>>

\* openat and read of the pidfile; an empty one leaves pid at 0.
ReadPid(p) ==
    /\ \/ /\ fs_fd[p] = dir /\ pidfile.ino # 0
          /\ Goto(p, "open_pid", "kill")
          /\ pid' = [pid EXCEPT ![p] = pidfile.pid]
       \/ /\ fs_fd[p] # dir \/ pidfile.ino = 0
          /\ Goto(p, "open_pid", "create")
          /\ UNCHANGED pid
    /\ UNCHANGED <<dir, pidfile, sock, inodes, fs_exists, fs_fd, pid_fd, todo>>

\* Mutation: a pidfile alone stands for a running VM.
PidfileSuffices(p) == p \in Procs

\* kill(pid, 0); pid 0 is the caller's own process group, which always exists.
KillSucceeds(p) == pid[p] = 0 \/ Alive(pid[p])

\* Mutation: the process behind the pidfile is not looked for.
CheckPidMissing(p) ==
    /\ Goto(p, "kill", "create")
    /\ UNCHANGED <<dir, pidfile, sock, inodes, procVars>>

\* "a virtual machine with the same name is already running": the run gives up.
CheckPid(p) ==
    /\ Goto(p, "kill", IF KillSucceeds(p) THEN "refused" ELSE "create")
    /\ UNCHANGED <<dir, pidfile, sock, inodes, procVars>>

\* openat(O_CREAT | O_TRUNC): fails in a directory that has been removed.
CreatePidfile(p) ==
    /\ \/ /\ fs_fd[p] # dir
          /\ Goto(p, "create", "failed")
          /\ UNCHANGED <<pidfile, inodes, pid_fd>>
       \/ /\ fs_fd[p] = dir
          /\ Goto(p, "create", "write")
          /\ IF pidfile.ino = 0
             THEN /\ inodes' = inodes + 1
                  /\ pidfile' = [ino |-> inodes + 1, pid |-> 0]
             ELSE /\ UNCHANGED inodes
                  /\ pidfile' = [pidfile EXCEPT !.pid = 0]
          /\ pid_fd' = [pid_fd EXCEPT ![p] = pidfile'.ino]
    /\ UNCHANGED <<dir, sock, fs_exists, fs_fd, pid, todo>>

\* write(getpid()); a pidfile removed meanwhile is written for nobody.
WritePid(p) ==
    /\ Goto(p, "write", "bind")
    /\ pidfile' = IF pidfile.ino = pid_fd[p] THEN [pidfile EXCEPT !.pid = p] ELSE pidfile
    /\ UNCHANGED <<dir, sock, inodes, procVars>>
------------------------------------------------------------------------------
(* run_main_loop, seen from the directory *)

\* bind creates the socket by its path: it fails without the directory and on an
\* existing socket, also one that nobody listens on any more.
Bind(p) ==
    /\ \/ dir # 0 /\ sock = 0 /\ Goto(p, "bind", "serve") /\ sock' = p
       \/ (dir = 0 \/ sock # 0) /\ Goto(p, "bind", "rm_list") /\ UNCHANGED sock
    /\ UNCHANGED <<dir, pidfile, inodes, procVars>>

\* The main loop ends, or the VM could not be started.
Finish(p) ==
    /\ Goto(p, "serve", "rm_list")
    /\ UNCHANGED <<dir, pidfile, sock, inodes, procVars>>
------------------------------------------------------------------------------
(* rmrf: nftw with FTW_DEPTH, stopped by the first removal that fails *)

RmList(p) ==
    /\ Goto(p, "rm_list", IF dir = 0 THEN "clean" ELSE "rm_entry")
    /\ todo' = [todo EXCEPT ![p] = Present]
    /\ UNCHANGED <<dir, pidfile, sock, inodes, fs_exists, fs_fd, pid_fd, pid>>

RmEntry(p, e) ==
    /\ e \in todo[p]
    /\ Goto(p, "rm_entry", IF e \in Present THEN "rm_entry" ELSE "clean")
    /\ todo' = [todo EXCEPT ![p] = @ \ {e}]
    /\ pidfile' = IF e = "pidfile" THEN NoFile ELSE pidfile
    /\ sock' = IF e = "sock" THEN 0 ELSE sock
    /\ UNCHANGED <<dir, inodes, fs_exists, fs_fd, pid_fd, pid>>

RmDir(p) ==
    /\ todo[p] = {}
    /\ Goto(p, "rm_entry", "clean")
    /\ dir' = IF Present = {} THEN 0 ELSE dir
    /\ UNCHANGED <<pidfile, sock, inodes, procVars>>

\* mini_kvm_clean_kvm, and the process ends.
Exit(p) ==
    /\ Goto(p, "clean", "done") \/ Goto(p, "refused", "done") \/ Goto(p, "failed", "done")
    /\ UNCHANGED <<dir, pidfile, sock, inodes, procVars>>

\* The process is killed.
Crash(p) ==
    /\ Crashes
    /\ Alive(p)
    /\ pc' = [pc EXCEPT ![p] = "crashed"]
    /\ UNCHANGED <<dir, pidfile, sock, inodes, procVars>>

RunStep(p) ==
    \/ Stat(p) \/ MkDir(p) \/ OpenDir(p) \/ ReadPid(p) \/ CheckPid(p)
    \/ CreatePidfile(p) \/ WritePid(p) \/ Bind(p)
    \/ RmList(p) \/ (\E e \in Entries : RmEntry(p, e)) \/ RmDir(p) \/ Exit(p)

Next == \E p \in Procs : Start(p) \/ RunStep(p) \/ Finish(p) \/ Crash(p)

Spec == Init /\ [][Next]_vars
------------------------------------------------------------------------------
(* What the sub commands see *)

\* mini_kvm_check_vm: the directory and a pidfile that is not empty are there, and
\* kill(vm_pid, 0) finds the process.
check_vm == dir # 0 /\ pidfile.ino # 0 /\ pidfile.pid # 0 /\ Alive(pidfile.pid)

\* mini_kvm_ipc_connect reaches the process listening on the socket.
connects_to(p) == dir # 0 /\ sock = p /\ pc[p] = "serve"
------------------------------------------------------------------------------
(* Properties *)

\* A VM that serves its socket can be found and reached by its name.
ServingVmReachable ==
    \A p \in Procs : pc[p] = "serve" => check_vm /\ connects_to(p) /\ pidfile.pid = p

\* Two VMs never serve the same name.
NameExclusive ==
    \A p, q \in Procs : pc[p] = "serve" /\ pc[q] = "serve" => p = q

\* A run is refused only while another process of that name exists, or because of
\* an empty pidfile whose creator was killed before it wrote its pid: read leaves
\* pid at 0, and kill(0, 0) finds the caller's own process group.
RefusalExplained ==
    [][\A p \in Procs : pc[p] = "kill" /\ pc'[p] = "refused" =>
           \/ \E q \in Procs \ {p} : Alive(q)
           \/ pidfile.pid = 0 /\ \E q \in Procs : pc[q] = "crashed" /\ pid_fd[q] = pidfile.ino]_vars
==============================================================================
