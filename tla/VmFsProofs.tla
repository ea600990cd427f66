----------------------------- MODULE VmFsProofs -----------------------------
(***************************************************************************)
(* Safety of VmFs for every number of processes.  The theorems but for     *)
(* TypeCorrect are about runs that are started one at a time: no process   *)
(* of the name is setting up or tearing down when the next one starts,     *)
(* although a VM may end, and any process may be killed, at any moment.    *)
(***************************************************************************)
EXTENDS VmFs, TLAPS, FiniteSetTheorems

Holders == {"serve", "rm_list", "rm_entry"}
Creating == {"create", "write", "bind"}
Unwritten == {"idle", "stat", "mkdir", "open_dir", "open_pid", "kill", "create", "write"}

\* Process q may still take the pidfile away: it serves, or its rmrf has not come to it.
Holds(q) ==
    \/ pc[q] \in {"serve", "rm_list"}
    \/ pc[q] = "rm_entry" /\ "pidfile" \in todo[q]

\* The pidfile is there and names q.
Owner(q) == dir # 0 /\ pidfile.ino # 0 /\ pidfile.pid = q

\* One process sets up at a time, beside at most one VM that runs or is removed.
SpacingInv ==
    \A p, q, r \in Procs : pc[p] \in Setup =>
        /\ pc[q] \in Setup => p = q
        /\ pc[q] \in Holders /\ pc[r] \in Holders => q = r

\* Who may still take the pidfile away has written it.
OwnerInv == \A q \in Procs : Holds(q) \/ pc[q] = "bind" => Owner(q)

\* What process p of a set-up knows while there is such a q: the directory was there,
\* is the one it has open, and its pidfile names q.
ClearInv ==
    \A p, q \in Procs : Holds(q) =>
        /\ pc[p] \notin Creating
        /\ pc[p] \in {"mkdir", "open_dir"} => fs_exists[p]
        /\ pc[p] = "open_pid" => fs_fd[p] = dir
        /\ pc[p] = "kill" => pid[p] = q

\* The descriptors of a set-up; its pidfile is still in the directory when it is written.
FdInv ==
    \A p \in Procs :
        /\ pc[p] \in {"open_pid", "kill", "create"} => fs_fd[p] # 0
        /\ pc[p] = "write" => dir # 0 /\ pidfile.ino # 0 /\ pidfile.ino = pid_fd[p]

\* The socket belongs to the VM that serves, and an rmrf that has it on its list is
\* neither too late nor beside such a VM.
SockInv ==
    \A p, r \in Procs :
        /\ pc[p] = "serve" => sock = p
        /\ pc[r] = "rm_entry" /\ "sock" \in todo[r] =>
               pc[p] # "serve" /\ (pc[p] \in Setup => sock # 0)

\* Nobody reads its own pid, and an empty pidfile has a creator who is at it or was killed.
RefusalInv ==
    /\ \A p \in Procs :
         /\ pc[p] \in Unwritten => pidfile.pid # p /\ pid[p] # p
         /\ pc[p] = "kill" /\ pid[p] = 0 => pidfile.ino # 0 /\ pidfile.pid = 0
    /\ pidfile.ino # 0 /\ pidfile.pid = 0 =>
         \E q \in Procs : pc[q] \in {"write", "crashed"} /\ pid_fd[q] = pidfile.ino

IInv == TypeOK /\ SpacingInv /\ OwnerInv /\ ClearInv /\ FdInv /\ SockInv /\ RefusalInv

\* A step of process p.
Step(p) == Start(p) \/ RunStep(p) \/ Finish(p) \/ Crash(p)

\* No step takes a variable out of its type.
LEMMA TypeStep ==
  ASSUME TypeOK, NEW p \in Procs, Step(p)
  PROVE  TypeOK'
  <1> USE ProcsAssumption DEF TypeOK, Goto, RunPc, Setup, Teardown, procVars
  <1>1. CASE Start(p)
    BY <1>1 DEF Start
  <1>2. CASE Stat(p)
    BY <1>2 DEF Stat
  <1>3. CASE MkDir(p)
    BY <1>3 DEF MkDir
  <1>4. CASE OpenDir(p)
    BY <1>4 DEF OpenDir
  <1>5. CASE ReadPid(p)
    BY <1>5 DEF ReadPid
  <1>6. CASE CheckPid(p)
    BY <1>6 DEF CheckPid
  <1>7. CASE CreatePidfile(p)
    BY <1>7 DEF CreatePidfile
  <1>8. CASE WritePid(p)
    BY <1>8 DEF WritePid
  <1>9. CASE Bind(p)
    BY <1>9 DEF Bind
  <1>10. CASE RmList(p)
    BY <1>10 DEF RmList, Present
  <1>11. CASE \E e \in Entries : RmEntry(p, e)
    BY <1>11 DEF RmEntry, NoFile
  <1>12. CASE RmDir(p)
    BY <1>12 DEF RmDir
  <1>13. CASE Exit(p)
    BY <1>13 DEF Exit
  <1>14. CASE Finish(p)
    BY <1>14 DEF Finish
  <1>15. CASE Crash(p)
    BY <1>15 DEF Crash
  <1>16. QED
    BY <1>1, <1>2, <1>3, <1>4, <1>5, <1>6, <1>7, <1>8, <1>9, <1>10, <1>11, <1>12,
       <1>13, <1>14, <1>15 DEF Step, RunStep

\* With MaxBusy = 1 a process starts only when no other is setting up or tearing down.
LEMMA NobodyBusy == ASSUME Cardinality(Busy) < MaxBusy, MaxBusy = 1 PROVE Busy = {}
  <1>1. IsFiniteSet(Busy)
    BY ProcsAssumption, FS_Subset DEF Busy
  <1>2. Cardinality(Busy) \in Nat
    BY <1>1, FS_CardinalityType
  <1>3. Cardinality(Busy) = 0
    BY <1>2
  <1>4. QED
    BY <1>1, <1>3, FS_EmptySet

\* A start finds no other process at work, and at most one VM that serves.
LEMMA SpacingStep ==
  ASSUME MaxBusy = 1, TypeOK, SpacingInv, OwnerInv, NEW p \in Procs, Step(p)
  PROVE  SpacingInv'
  <1> USE DEF TypeOK, SpacingInv, Goto, Setup, Holders
  <1>1. CASE Start(p)
    <2>1. Busy = {}
      BY <1>1, NobodyBusy DEF Start
    <2>2. \A q \in Procs : pc[q] \notin Setup \cup Teardown
      BY <2>1 DEF Busy
    <2>3. \A q, r \in Procs : pc[q] \in Holders /\ pc[r] \in Holders => q = r
      BY <2>2 DEF OwnerInv, Holds, Owner, Teardown
    <2>4. QED
      BY <1>1, <2>2, <2>3 DEF Start
  <1>2. CASE Stat(p)
    BY <1>2 DEF Stat
  <1>3. CASE MkDir(p)
    BY <1>3 DEF MkDir
  <1>4. CASE OpenDir(p)
    BY <1>4 DEF OpenDir
  <1>5. CASE ReadPid(p)
    BY <1>5 DEF ReadPid
  <1>6. CASE CheckPid(p)
    BY <1>6 DEF CheckPid
  <1>7. CASE CreatePidfile(p)
    BY <1>7 DEF CreatePidfile
  <1>8. CASE WritePid(p)
    BY <1>8 DEF WritePid
  <1>9. CASE Bind(p)
    BY <1>9 DEF Bind
  <1>10. CASE RmList(p)
    BY <1>10 DEF RmList
  <1>11. CASE \E e \in Entries : RmEntry(p, e)
    BY <1>11 DEF RmEntry
  <1>12. CASE RmDir(p)
    BY <1>12 DEF RmDir
  <1>13. CASE Exit(p)
    BY <1>13 DEF Exit
  <1>14. CASE Finish(p)
    BY <1>14 DEF Finish
  <1>15. CASE Crash(p)
    BY <1>15 DEF Crash
  <1>16. QED
    BY <1>1, <1>2, <1>3, <1>4, <1>5, <1>6, <1>7, <1>8, <1>9, <1>10, <1>11, <1>12,
       <1>13, <1>14, <1>15 DEF Step, RunStep

\* Nobody overwrites or removes the pidfile of another.
LEMMA OwnerStep ==
  ASSUME TypeOK, SpacingInv, OwnerInv, ClearInv, FdInv, NEW p \in Procs, Step(p)
  PROVE  OwnerInv'
  <1> USE DEF TypeOK, OwnerInv, Holds, Owner, Goto, Setup, procVars
  <1>1. CASE Start(p)
    BY <1>1 DEF Start
  <1>2. CASE Stat(p)
    BY <1>2 DEF Stat
  <1>3. CASE MkDir(p)
    BY <1>3 DEF MkDir
  <1>4. CASE OpenDir(p)
    BY <1>4 DEF OpenDir
  <1>5. CASE ReadPid(p)
    BY <1>5 DEF ReadPid
  <1>6. CASE CheckPid(p)
    BY <1>6 DEF CheckPid
  <1>7. CASE CreatePidfile(p)
    BY <1>7 DEF CreatePidfile, SpacingInv, ClearInv, Creating
  <1>8. CASE WritePid(p)
    BY <1>8 DEF WritePid, SpacingInv, ClearInv, Creating, FdInv
  <1>9. CASE Bind(p)
    BY <1>9 DEF Bind
  <1>10. CASE RmList(p)
    BY <1>10 DEF RmList
  <1>11. CASE \E e \in Entries : RmEntry(p, e)
    BY <1>11 DEF RmEntry
  <1>12. CASE RmDir(p)
    BY <1>12 DEF RmDir, Present, Entries
  <1>13. CASE Exit(p)
    BY <1>13 DEF Exit
  <1>14. CASE Finish(p)
    BY <1>14 DEF Finish
  <1>15. CASE Crash(p)
    BY <1>15 DEF Crash
  <1>16. QED
    BY <1>1, <1>2, <1>3, <1>4, <1>5, <1>6, <1>7, <1>8, <1>9, <1>10, <1>11, <1>12,
       <1>13, <1>14, <1>15 DEF Step, RunStep

\* A set-up gets past its checks only when nobody holds the pidfile.
LEMMA ClearStep ==
  ASSUME TypeOK, SpacingInv, OwnerInv, ClearInv, NEW p \in Procs, Step(p)
  PROVE  ClearInv'
  <1> USE DEF TypeOK, ClearInv, OwnerInv, Holds, Owner, Goto, Creating, procVars
  <1>1. CASE Start(p)
    BY <1>1 DEF Start
  <1>2. CASE Stat(p)
    BY <1>2 DEF Stat
  <1>3. CASE MkDir(p)
    BY <1>3 DEF MkDir, SpacingInv, Setup
  <1>4. CASE OpenDir(p)
    BY <1>4 DEF OpenDir
  <1>5. CASE ReadPid(p)
    BY <1>5 DEF ReadPid
  <1>6. CASE CheckPid(p)
    BY <1>6 DEF CheckPid, KillSucceeds, Alive
  <1>7. CASE CreatePidfile(p)
    BY <1>7 DEF CreatePidfile
  <1>8. CASE WritePid(p)
    BY <1>8 DEF WritePid
  <1>9. CASE Bind(p)
    BY <1>9 DEF Bind, SpacingInv, Setup
  <1>10. CASE RmList(p)
    BY <1>10 DEF RmList
  <1>11. CASE \E e \in Entries : RmEntry(p, e)
    BY <1>11 DEF RmEntry
  <1>12. CASE RmDir(p)
    BY <1>12 DEF RmDir, Present, Entries
  <1>13. CASE Exit(p)
    BY <1>13 DEF Exit
  <1>14. CASE Finish(p)
    BY <1>14 DEF Finish
  <1>15. CASE Crash(p)
    BY <1>15 DEF Crash
  <1>16. QED
    BY <1>1, <1>2, <1>3, <1>4, <1>5, <1>6, <1>7, <1>8, <1>9, <1>10, <1>11, <1>12,
       <1>13, <1>14, <1>15 DEF Step, RunStep

\* The pidfile a set-up has open stays in its directory until it is written.
LEMMA FdStep ==
  ASSUME TypeOK, SpacingInv, OwnerInv, ClearInv, FdInv, NEW p \in Procs, Step(p)
  PROVE  FdInv'
  <1> USE DEF TypeOK, FdInv, Goto, procVars
  <1>1. CASE Start(p)
    BY <1>1 DEF Start
  <1>2. CASE Stat(p)
    BY <1>2 DEF Stat
  <1>3. CASE MkDir(p)
    BY <1>3 DEF MkDir, SpacingInv, Setup
  <1>4. CASE OpenDir(p)
    BY <1>4 DEF OpenDir
  <1>5. CASE ReadPid(p)
    BY <1>5 DEF ReadPid
  <1>6. CASE CheckPid(p)
    BY <1>6 DEF CheckPid
  <1>7. CASE CreatePidfile(p)
    BY <1>7 DEF CreatePidfile, SpacingInv, Setup
  <1>8. CASE WritePid(p)
    BY <1>8 DEF WritePid, SpacingInv, Setup
  <1>9. CASE Bind(p)
    BY <1>9 DEF Bind
  <1>10. CASE RmList(p)
    BY <1>10 DEF RmList
  <1>11. CASE \E e \in Entries : RmEntry(p, e)
    BY <1>11 DEF RmEntry, ClearInv, Holds, Creating
  <1>12. CASE RmDir(p)
    BY <1>12 DEF RmDir, Present, Entries
  <1>13. CASE Exit(p)
    BY <1>13 DEF Exit
  <1>14. CASE Finish(p)
    BY <1>14 DEF Finish
  <1>15. CASE Crash(p)
    BY <1>15 DEF Crash
  <1>16. QED
    BY <1>1, <1>2, <1>3, <1>4, <1>5, <1>6, <1>7, <1>8, <1>9, <1>10, <1>11, <1>12,
       <1>13, <1>14, <1>15 DEF Step, RunStep

\* The socket of a VM that serves is removed by that VM only.
LEMMA SockStep ==
  ASSUME MaxBusy = 1, TypeOK, SpacingInv, OwnerInv, SockInv, NEW p \in Procs, Step(p)
  PROVE  SockInv'
  <1> USE ProcsAssumption DEF TypeOK, SockInv, Goto, Setup, procVars
  <1>1. CASE Start(p)
    <2>1. Busy = {}
      BY <1>1, NobodyBusy DEF Start
    <2>2. \A q \in Procs : pc[q] # "rm_entry"
      BY <2>1 DEF Busy, Teardown
    <2>3. QED
      BY <1>1, <2>2 DEF Start
  <1>2. CASE Stat(p)
    BY <1>2 DEF Stat
  <1>3. CASE MkDir(p)
    BY <1>3 DEF MkDir
  <1>4. CASE OpenDir(p)
    BY <1>4 DEF OpenDir
  <1>5. CASE ReadPid(p)
    BY <1>5 DEF ReadPid
  <1>6. CASE CheckPid(p)
    BY <1>6 DEF CheckPid
  <1>7. CASE CreatePidfile(p)
    BY <1>7 DEF CreatePidfile
  <1>8. CASE WritePid(p)
    BY <1>8 DEF WritePid
  <1>9. CASE Bind(p)
    BY <1>9 DEF Bind, SpacingInv
  <1>10. CASE RmList(p)
    BY <1>10 DEF RmList, Present, OwnerInv, Holds, Owner
  <1>11. CASE \E e \in Entries : RmEntry(p, e)
    BY <1>11 DEF RmEntry, SpacingInv, Holders
  <1>12. CASE RmDir(p)
    BY <1>12 DEF RmDir
  <1>13. CASE Exit(p)
    BY <1>13 DEF Exit
  <1>14. CASE Finish(p)
    BY <1>14 DEF Finish
  <1>15. CASE Crash(p)
    BY <1>15 DEF Crash
  <1>16. QED
    BY <1>1, <1>2, <1>3, <1>4, <1>5, <1>6, <1>7, <1>8, <1>9, <1>10, <1>11, <1>12,
       <1>13, <1>14, <1>15 DEF Step, RunStep

\* An empty pidfile that a set-up has read stays as it is.
LEMMA RefusalStep ==
  ASSUME TypeOK, SpacingInv, OwnerInv, FdInv, RefusalInv, NEW p \in Procs, Step(p)
  PROVE  RefusalInv'
  <1> USE ProcsAssumption DEF TypeOK, RefusalInv, Unwritten, Goto, procVars
  <1>1. CASE Start(p)
    BY <1>1 DEF Start
  <1>2. CASE Stat(p)
    BY <1>2 DEF Stat
  <1>3. CASE MkDir(p)
    BY <1>3 DEF MkDir
  <1>4. CASE OpenDir(p)
    BY <1>4 DEF OpenDir
  <1>5. CASE ReadPid(p)
    BY <1>5 DEF ReadPid
  <1>6. CASE CheckPid(p)
    BY <1>6 DEF CheckPid
  <1>7. CASE CreatePidfile(p)
    BY <1>7 DEF CreatePidfile, SpacingInv, Setup
  <1>8. CASE WritePid(p)
    BY <1>8 DEF WritePid, SpacingInv, Setup, FdInv
  <1>9. CASE Bind(p)
    BY <1>9 DEF Bind
  <1>10. CASE RmList(p)
    BY <1>10 DEF RmList
  <1>11. CASE \E e \in Entries : RmEntry(p, e)
    BY <1>11 DEF RmEntry, OwnerInv, Holds, Owner, NoFile
  <1>12. CASE RmDir(p)
    BY <1>12 DEF RmDir
  <1>13. CASE Exit(p)
    BY <1>13 DEF Exit
  <1>14. CASE Finish(p)
    BY <1>14 DEF Finish
  <1>15. CASE Crash(p)
    BY <1>15 DEF Crash, Alive
  <1>16. QED
    BY <1>1, <1>2, <1>3, <1>4, <1>5, <1>6, <1>7, <1>8, <1>9, <1>10, <1>11, <1>12,
       <1>13, <1>14, <1>15 DEF Step, RunStep

\* Stuttering keeps every part.
LEMMA Stutter == IInv /\ UNCHANGED vars => IInv'
  BY DEF IInv, TypeOK, SpacingInv, OwnerInv, ClearInv, FdInv, SockInv, RefusalInv, Holds, Owner,
     vars, procVars

\* No process exists yet.
LEMMA InitIInv == Init => IInv
  <1> SUFFICES ASSUME Init PROVE IInv
    OBVIOUS
  <1>1. TypeOK
    BY DEF Init, TypeOK, NoFile, RunPc
  <1>2. SpacingInv /\ OwnerInv /\ ClearInv /\ FdInv /\ SockInv
    BY DEF Init, SpacingInv, OwnerInv, ClearInv, FdInv, SockInv, Holds, Setup, Holders
  <1>3. RefusalInv
    BY ProcsAssumption DEF Init, RefusalInv, NoFile
  <1>4. QED
    BY <1>1, <1>2, <1>3 DEF IInv

\* Every variable keeps its type, however many runs race for the directory.
THEOREM TypeCorrect == Spec => []TypeOK
  <1>1. TypeOK /\ [Next]_vars => TypeOK'
    <2>1. TypeOK /\ UNCHANGED vars => TypeOK'
      BY DEF TypeOK, vars, procVars
    <2>2. QED
      BY <2>1, TypeStep DEF Next, Step
  <1>2. Init => TypeOK
    BY InitIInv DEF IInv
  <1>3. QED
    BY <1>1, <1>2, PTL DEF Spec

\* IInv holds whenever runs of a name are started one at a time.
THEOREM Inductive == ASSUME MaxBusy = 1 PROVE Spec => []IInv
  <1>1. IInv /\ [Next]_vars => IInv'
    <2> SUFFICES ASSUME IInv, NEW p \in Procs, Step(p) PROVE IInv'
      BY Stutter DEF Next, Step
    <2> USE DEF IInv
    <2>1. TypeOK' /\ SpacingInv' /\ OwnerInv' /\ ClearInv'
      BY TypeStep, SpacingStep, OwnerStep, ClearStep
    <2>2. FdInv' /\ SockInv' /\ RefusalInv'
      BY FdStep, SockStep, RefusalStep
    <2>3. QED
      BY <2>1, <2>2
  <1>2. QED
    BY InitIInv, <1>1, PTL DEF Spec

\* mini_kvm_check_vm and mini_kvm_ipc_connect find the VM that serves, by its name.
THEOREM ServingVmReachableHolds == ASSUME MaxBusy = 1 PROVE Spec => []ServingVmReachable
  <1>1. IInv => ServingVmReachable
    BY ProcsAssumption DEF IInv, OwnerInv, SockInv, Holds, Owner, ServingVmReachable, check_vm,
       connects_to, Alive
  <1>2. QED
    BY Inductive, <1>1, PTL

\* Two VMs never serve the same name: both would have written the same pidfile last.
THEOREM NameExclusiveHolds == ASSUME MaxBusy = 1 PROVE Spec => []NameExclusive
  <1>1. IInv => NameExclusive
    BY DEF IInv, OwnerInv, Holds, Owner, NameExclusive
  <1>2. QED
    BY Inductive, <1>1, PTL

\* A run is refused because of another live process, or of an empty pidfile that a
\* killed process has left.
THEOREM RefusalExplainedHolds == ASSUME MaxBusy = 1 PROVE Spec => RefusalExplained
  <1>1. ASSUME IInv, [Next]_vars, NEW p \in Procs, pc[p] = "kill", pc'[p] = "refused"
        PROVE  \/ \E q \in Procs \ {p} : Alive(q)
               \/ pidfile.pid = 0 /\ \E q \in Procs : pc[q] = "crashed" /\ pid_fd[q] = pidfile.ino
    <2>1. KillSucceeds(p)
      BY <1>1 DEF Next, RunStep, Start, Stat, MkDir, OpenDir, ReadPid, CheckPid, CreatePidfile,
         WritePid, Bind, RmList, RmEntry, RmDir, Exit, Finish, Crash, Goto, vars, IInv, TypeOK
    <2>2. CASE pid[p] = 0
      <3>1. PICK q \in Procs : pc[q] \in {"write", "crashed"} /\ pid_fd[q] = pidfile.ino
        BY <1>1, <2>2 DEF IInv, RefusalInv
      <3>2. pc[q] # "write"
        BY <1>1 DEF IInv, SpacingInv, Setup
      <3>3. QED
        BY <1>1, <2>2, <3>1, <3>2 DEF IInv, RefusalInv
    <2>3. CASE pid[p] # 0
      BY <1>1, <2>1, <2>3 DEF IInv, TypeOK, RefusalInv, Unwritten, KillSucceeds
    <2>4. QED
      BY <2>2, <2>3
  <1>2. IInv /\ [Next]_vars =>
          [\A p \in Procs : pc[p] = "kill" /\ pc'[p] = "refused" =>
             \/ \E q \in Procs \ {p} : Alive(q)
             \/ pidfile.pid = 0 /\ \E q \in Procs : pc[q] = "crashed" /\ pid_fd[q] = pidfile.ino]_vars
    BY <1>1
  <1>3. QED
    BY Inductive, <1>2, PTL DEF Spec, RefusalExplained
=============================================================================
