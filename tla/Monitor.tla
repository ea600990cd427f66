------------------------------- MODULE Monitor -------------------------------
(***************************************************************************)
(* The monitor's socket: the client programs `mini_kvm pause', `resume',   *)
(* `shutdown' and `status', each a process of its own, and the main loop   *)
(* of the VM, which serves one connection at a time until its client       *)
(* closes it.  The handlers and the clean up are their effect on           *)
(* kvm->state and whether they return (VmRuntime opens them up); here it   *)
(* is the connections, the blocking calls and the results no caller looks  *)
(* at that count.                                                          *)
(***************************************************************************)
EXTENDS Integers, FiniteSets, Sequences, SequencesExt

CONSTANTS
    Clients,  \* the client processes, as positive numbers
    Kinds,    \* for each of them, the sub commands it may run
    MaxFds,   \* how many accepted connections the descriptor table has room for
    MaxFaulty,  \* bound: how many clients may die or stop
    Faults    \* "die", "stall" (a client); "halt" (the guest); "sigterm"

SubCommands == {"pause", "resume", "shutdown", "status"}

ASSUME ClientsAssumption == Clients \subseteq Nat \ {0}
ASSUME KindsAssumption == Kinds \in [Clients -> SUBSET SubCommands]
ASSUME MaxFdsAssumption == MaxFds \in Nat
ASSUME MaxFaultyAssumption == MaxFaulty \in Nat
ASSUME FaultsAssumption == Faults \subseteq {"die", "stall", "halt", "sigterm"}

NoClient == 0
Commands == {"PAUSE", "RESUME", "SHUTDOWN", "SHOW_STATE", "SHOW_REGS", "DUMP_MEM"}
VMState == {"PAUSED", "RUNNING", "SHUTDOWN"}

\* listen(sock, 0): the kernel queues one connection; further connects block.
Backlog == 1

VARIABLES
    \* the VM
    state,       \* kvm->state
    woken,       \* a resume has woken a vCPU, which may own pause_lock ever since
    spc,         \* control location of the main loop
    conn,        \* the client behind remote_sock
    backlog,     \* connections waiting for accept
    fds,         \* descriptors taken by accepted connections, never closed
    res,         \* the loop's result buffer, one for all clients
    sig_status,  \* SIGINT or SIGTERM received
    path,        \* the VM's directory and socket exist
    \* the clients
    kind, cpc,   \* sub command, control location
    plan, at,    \* the commands it means to send, and which is next
    linked,      \* connect succeeded
    request, reply,  \* in flight on its connection
    cres,        \* its result buffer
    outcome,     \* how it ended
    stalled,     \* the clients that have stopped for good (not ended)
    \* history
    served,      \* the commands carried out for each client
    seen         \* the state its SHOW_STATE found

vmVars == <<state, woken, spc, res, sig_status, path>>
linkVars == <<conn, backlog, fds>>
serverVars == <<vmVars, linkVars>>
channelVars == <<request, reply>>
clientVars == <<kind, cpc, plan, at, linked, cres, outcome, stalled>>
historyVars == <<served, seen>>
vars == <<serverVars, channelVars, clientVars, historyVars>>

Result == [cmd : Commands \cup {"NONE"}, state : VMState]
ZeroResult == [cmd |-> "NONE", state |-> "PAUSED"]

Gone == {"exited", "killed"}
Alive == spc \notin Gone

Outcomes == {"none", "not_running", "error", "not_needed", "success",
             "sigpipe", "died"}

\* What each sub command sends, if nothing goes wrong; status follows its options.
PausePlan == <<"SHOW_STATE", "PAUSE">>
ResumePlan == <<"SHOW_STATE", "RESUME">>
ShutdownPlan == <<"SHUTDOWN">>
StatusPlans == {<<"SHOW_STATE">>, <<"SHOW_REGS", "DUMP_MEM">>}

Plans(k) ==
    CASE k = "pause" -> {PausePlan}
      [] k = "resume" -> {ResumePlan}
      [] k = "shutdown" -> {ShutdownPlan}
      [] k = "status" -> StatusPlans

\* The states in which pause and resume leave it at their question.
PauseNeedless == {"PAUSED", "SHUTDOWN"}
ResumeNeedless == {"RUNNING", "SHUTDOWN"}

TypeOK ==
    /\ state \in VMState
    /\ woken \in BOOLEAN
    /\ spc \in {"loop", "accept", "recv", "send", "sig", "rm", "clean", "waiting"} \cup Gone
    /\ conn \in Clients \cup {NoClient}
    /\ backlog \in Seq(Clients) /\ Len(backlog) <= Backlog
    /\ fds \in 0 .. MaxFds
    /\ res \in Result
    /\ sig_status \in BOOLEAN /\ path \in BOOLEAN
    /\ kind \in [Clients -> SubCommands \cup {"none"}]
    /\ cpc \in [Clients -> {"idle", "connect", "send", "recv", "end"}]
    /\ plan \in [Clients -> Seq(Commands)]
    /\ at \in [Clients -> 1 .. 3]
    /\ linked \in [Clients -> BOOLEAN]
    /\ request \in [Clients -> Commands \cup {"NONE"}]
    /\ reply \in [Clients -> Result]
    /\ cres \in [Clients -> Result]
    /\ outcome \in [Clients -> Outcomes]
    /\ stalled \subseteq Clients
    /\ served \in [Clients -> Seq(Commands)]
    /\ seen \in [Clients -> VMState]

\* mini_kvm_start_vm has succeeded and the socket listens; status clients that have gone
\* may have used up descriptors already.
Init ==
    /\ state = "RUNNING"
    /\ woken = FALSE
    /\ spc = "loop"
    /\ conn = NoClient
    /\ backlog = <<>>
    /\ fds \in 0 .. MaxFds
    /\ res = ZeroResult
    /\ sig_status = FALSE
    /\ path = TRUE
    /\ kind = [c \in Clients |-> "none"]
    /\ cpc = [c \in Clients |-> "idle"]
    /\ plan = [c \in Clients |-> <<>>]
    /\ at = [c \in Clients |-> 1]
    /\ linked = [c \in Clients |-> FALSE]
    /\ request = [c \in Clients |-> "NONE"]
    /\ reply = [c \in Clients |-> ZeroResult]
    /\ cres = [c \in Clients |-> ZeroResult]
    /\ outcome = [c \in Clients |-> "none"]
    /\ stalled = {}
    /\ served = [c \in Clients |-> <<>>]
    /\ seen = [c \in Clients |-> "PAUSED"]
------------------------------------------------------------------------------
(* The client programs *)

\* Client c leaves a location; with an outcome it also closes its socket and ends.
Goto(c, from, to) ==
    /\ c \notin stalled
    /\ cpc[c] = from
    /\ cpc' = [cpc EXCEPT ![c] = to]
    /\ UNCHANGED outcome

Finish(c, from, how) ==
    /\ c \notin stalled
    /\ cpc[c] = from
    /\ cpc' = [cpc EXCEPT ![c] = "end"]
    /\ outcome' = [outcome EXCEPT ![c] = how]

\* The program starts and looks for the VM with mini_kvm_check_vm.  A line it cannot
\* read, or one without a name, ends it before that: as if it had not been started.
Start(c, k) ==
    /\ kind' = [kind EXCEPT ![c] = k]
    /\ \E p \in Plans(k) : plan' = [plan EXCEPT ![c] = p]
    /\ \/ path /\ Alive /\ Goto(c, "idle", "connect")
       \/ ~(path /\ Alive) /\ Finish(c, "idle", "not_running")
    /\ UNCHANGED <<serverVars, channelVars, at, linked, cres, stalled, historyVars>>

\* Mutation: the listening socket queues whoever comes.
RoomAlways == TRUE

Room == Len(backlog) < Backlog

\* mini_kvm_ipc_connect waits while the queue is full.  When it fails it closes the
\* descriptor and returns it all the same, so the client goes on to send.
Connect(c) ==
    /\ Goto(c, "connect", "send")
    /\ \/ path /\ Alive /\ Room
          /\ backlog' = Append(backlog, c)
          /\ linked' = [linked EXCEPT ![c] = TRUE]
       \/ ~(path /\ Alive) /\ UNCHANGED <<backlog, linked>>
    /\ UNCHANGED <<vmVars, conn, fds, channelVars, kind, plan, at, cres, stalled, historyVars>>

\* send in mini_kvm_ipc_send_cmd: EBADF on the closed descriptor of a failed connect;
\* SIGPIPE, and the end of the client, once the VM has gone.
Send(c) ==
    /\ \/ linked[c] /\ Alive /\ Goto(c, "send", "recv")
          /\ request' = [request EXCEPT ![c] = plan[c][at[c]]]
       \/ linked[c] /\ ~Alive /\ Finish(c, "send", "sigpipe") /\ UNCHANGED request
       \/ ~linked[c] /\ Finish(c, "send", "error") /\ UNCHANGED request
    /\ UNCHANGED <<serverVars, reply, kind, plan, at, linked, cres, stalled, historyVars>>

\* What the client does with the result: pause and resume look at the state before
\* their second command, status goes on to its next one.
Proceed(c) ==
    LET r == cres'[c]
        gives_up == /\ plan[c][at[c]] = "SHOW_STATE"
                    /\ \/ kind[c] = "pause" /\ r.state \in PauseNeedless
                       \/ kind[c] = "resume" /\ r.state \in ResumeNeedless
    IN  /\ at' = [at EXCEPT ![c] = @ + 1]
        /\ CASE gives_up -> Finish(c, "recv", "not_needed")
             [] ~gives_up /\ at[c] = Len(plan[c]) -> Finish(c, "recv", "success")
             [] OTHER -> Goto(c, "recv", "send")

\* Mutation: the client's socket does not block, and EAGAIN passes for success.
ReturnsAtOnce(c) == TRUE

\* recv waits for the reply or for the end of the VM.
Returns(c) == reply[c].cmd # "NONE" \/ ~Alive

\* recv in mini_kvm_ipc_send_cmd.  The end of the VM makes it return 0 or -1, neither
\* of which is below -1: the buffer keeps what it had.
Recv(c) ==
    /\ cpc[c] = "recv"
    /\ Returns(c)
    /\ cres' = [cres EXCEPT ![c] = IF reply[c].cmd # "NONE" THEN reply[c] ELSE @]
    /\ Proceed(c)
    /\ reply' = [reply EXCEPT ![c] = ZeroResult]
    /\ UNCHANGED <<serverVars, request, kind, plan, linked, stalled, historyVars>>

ClientStep(c) == Connect(c) \/ Send(c) \/ Recv(c)

Faulty(c) == outcome[c] = "died" \/ c \in stalled
MayFail(c) == Cardinality({d \in Clients : Faulty(d)} \ {c}) < MaxFaulty

\* The client is killed wherever it is, or stops for good with its connection open.
Die(c) ==
    /\ "die" \in Faults /\ MayFail(c)
    /\ cpc[c] \notin {"idle", "end"}
    /\ cpc' = [cpc EXCEPT ![c] = "end"]
    /\ outcome' = [outcome EXCEPT ![c] = "died"]
    /\ stalled' = stalled \ {c}
    /\ UNCHANGED <<serverVars, channelVars, kind, plan, at, linked, cres, historyVars>>

Stall(c) ==
    /\ "stall" \in Faults /\ MayFail(c)
    /\ linked[c] /\ cpc[c] # "end" /\ c \notin stalled
    /\ stalled' = stalled \cup {c}
    /\ UNCHANGED <<serverVars, channelVars, kind, cpc, plan, at, linked, cres, outcome,
                   historyVars>>
------------------------------------------------------------------------------
(* run_main_loop *)

Closed(c) == cpc[c] = "end"

\* Main goes from one location to another.
Main(from, to) == spc = from /\ spc' = to

LoopTest ==
    /\ Main("loop", IF state # "SHUTDOWN" THEN "accept" ELSE "rm")
    /\ UNCHANGED <<state, woken, res, sig_status, path, linkVars, channelVars,
                   clientVars, historyVars>>

\* mini_kvm_ipc_receive_cmd does not block; a full descriptor table (EMFILE) leaves
\* the connection in the queue.
Accept ==
    /\ IF backlog # <<>> /\ fds < MaxFds
       THEN /\ Main("accept", "recv")
            /\ conn' = Head(backlog)
            /\ backlog' = Tail(backlog)
            /\ fds' = fds + 1
       ELSE Main("accept", "sig") /\ UNCHANGED linkVars
    /\ UNCHANGED <<state, woken, res, sig_status, path, channelVars, clientVars,
                   historyVars>>

\* mini_kvm_status_handle_command returns: the effect of command c and the result buffer.
HandleWith(c, result) ==
    /\ state' = CASE c = "PAUSE" -> "PAUSED"
                  [] c = "RESUME" -> "RUNNING"
                  [] c = "SHUTDOWN" -> "SHUTDOWN"
                  [] OTHER -> state
    /\ woken' = (woken \/ c \in {"RESUME", "SHUTDOWN"})
    /\ res' = result

\* Mutation: the type of the result is stored with the first command only.
HandleTypedOnce(c) ==
    HandleWith(c, [cmd |-> IF res.cmd = "NONE" THEN c ELSE res.cmd,
                   state |-> IF c = "SHOW_STATE" THEN state ELSE res.state])

\* Mutation: the handler of SHOW_STATE leaves the state of the buffer as it was.
HandleStale(c) == HandleWith(c, [res EXCEPT !.cmd = c])

Handle(c) ==
    HandleWith(c, [res EXCEPT !.cmd = c, !.state = IF c = "SHOW_STATE" THEN state ELSE @])

\* The blocking recv of the inner loop returns a command, which is carried out.
Serve ==
    /\ Main("recv", "send")
    /\ request[conn] # "NONE"
    /\ Handle(request[conn])
    /\ served' = [served EXCEPT ![conn] = Append(@, request[conn])]
    /\ seen' = IF request[conn] = "SHOW_STATE" THEN [seen EXCEPT ![conn] = state] ELSE seen
    /\ request' = [request EXCEPT ![conn] = "NONE"]
    /\ UNCHANGED <<sig_status, path, linkVars, reply, clientVars>>

\* The command's handler never returns: status_handle_pause stores PAUSED and then waits
\* for the pause_lock of a woken vCPU; on a paused VM, status_handle_regs waits for a
\* vCPU that has gone back into the guest, status_handle_dump_mem for the reader of the
\* client's output.
HandlerWaits ==
    /\ Main("recv", "waiting")
    /\ \/ request[conn] = "PAUSE" /\ woken /\ state' = "PAUSED"
       \/ request[conn] \in {"SHOW_REGS", "DUMP_MEM"} /\ state = "PAUSED" /\ UNCHANGED state
    /\ request' = [request EXCEPT ![conn] = "NONE"]
    /\ UNCHANGED <<woken, res, sig_status, path, linkVars, reply, clientVars, historyVars>>

\* send to a client that has closed its end raises SIGPIPE, which ends the VM.
SendReply ==
    /\ spc = "send"
    /\ IF Closed(conn)
       THEN spc' = "killed" /\ UNCHANGED reply
       ELSE spc' = "recv" /\ reply' = [reply EXCEPT ![conn] = res]
    /\ UNCHANGED <<state, woken, res, sig_status, path, linkVars, request, clientVars,
                   historyVars>>

\* Mutation: the end of the connection is taken for a reason to read again.
AtEndNever == FALSE

\* recv returns 0: the client has closed its end and left nothing to read.
AtEnd == request[conn] = "NONE" /\ Closed(conn)

\* The inner loop ends.  remote_sock is not closed.
Hangup ==
    /\ spc = "recv" /\ AtEnd
    /\ spc' = "sig"
    /\ conn' = NoClient
    /\ UNCHANGED <<state, woken, res, sig_status, path, backlog, fds, channelVars, clientVars,
                   historyVars>>

\* Mutation: the recorded signal is not looked at.
StateAfterTurnKept == state

\* End of a turn: a recorded SIGINT or SIGTERM shuts the VM down.
StateAfterTurn == IF sig_status THEN "SHUTDOWN" ELSE state

CheckSignal ==
    /\ Main("sig", "loop")
    /\ state' = StateAfterTurn
    /\ UNCHANGED <<woken, res, sig_status, path, linkVars, channelVars, clientVars,
                   historyVars>>

\* rmrf of the VM's directory; the listening socket stays open until the process ends.
RemovePath ==
    /\ Main("rm", "clean")
    /\ path' = FALSE
    /\ UNCHANGED <<state, woken, res, sig_status, linkVars, channelVars, clientVars,
                   historyVars>>

\* mini_kvm_clean_kvm: pthread_join returns for every vCPU thread, main frees and ends.
Exit ==
    /\ Main("clean", "exited")
    /\ UNCHANGED <<state, woken, res, sig_status, path, linkVars, channelVars,
                   clientVars, historyVars>>

\* pthread_join waits for ever: for a vCPU that sleeps in the pause, that is in a guest
\* which runs on, or that is stuck in its signal handler.
JoinWaits ==
    /\ Main("clean", "waiting")
    /\ UNCHANGED <<state, woken, res, sig_status, path, linkVars, channelVars, clientVars,
                   historyVars>>

ServerStep ==
    \/ LoopTest \/ Accept \/ Serve \/ HandlerWaits \/ SendReply \/ Hangup \/ CheckSignal
    \/ RemovePath \/ Exit \/ JoinWaits

\* A vCPU stores SHUTDOWN.
Halt ==
    /\ "halt" \in Faults
    /\ Alive /\ state # "SHUTDOWN"
    /\ state' = "SHUTDOWN"
    /\ UNCHANGED <<spc, woken, res, sig_status, path, linkVars, channelVars,
                   clientVars, historyVars>>

Sigterm ==
    /\ "sigterm" \in Faults
    /\ Alive /\ ~sig_status
    /\ sig_status' = TRUE
    /\ UNCHANGED <<spc, state, woken, res, path, linkVars, channelVars, clientVars,
                   historyVars>>

Next ==
    \/ ServerStep \/ Halt \/ Sigterm
    \/ \E c \in Clients : ClientStep(c) \/ Die(c) \/ Stall(c) \/ \E k \in Kinds[c] : Start(c, k)

\* The VM and every client that has not been stopped are scheduled; the guest, the
\* users and the faults are not.
Fairness == WF_vars(ServerStep) /\ \A c \in Clients : WF_vars(ClientStep(c))

Spec == Init /\ [][Next]_vars /\ Fairness
------------------------------------------------------------------------------
(* Properties *)

\* However connections queue up, end early or share the loop's buffers, the VM
\* carries out each client's commands once and in order, and a client that announces
\* success had all of them carried out - unless the VM has gone: mini_kvm_ipc_send_cmd
\* takes a connection that ends for an answer.
ServedInOrder ==
    \A c \in Clients :
        /\ IsPrefix(served[c], plan[c])
        /\ outcome[c] = "success" => served[c] = plan[c] \/ ~Alive

\* While the VM lives, what a client reads is the answer to the command it has just
\* sent: the result buffer shared by all clients carries nothing over.
AnswerIsForLastCommand ==
    [][\A c \in Clients :
           cpc[c] = "recv" /\ at'[c] # at[c] /\ Alive => cres'[c].cmd = plan[c][at[c]]]_vars

\* pause and resume never change a VM on the word of somebody else's result: the VM
\* was RUNNING (PAUSED) when this client asked, whatever it became since.
ActsOnShownState ==
    \A c \in Clients : Len(served[c]) = 2 =>
        /\ kind[c] = "pause" => seen[c] = "RUNNING"
        /\ kind[c] = "resume" => seen[c] = "PAUSED"

\* A reply ends the VM (SIGPIPE) only when its client was killed: a client that
\* runs to its end waits for each answer.
KilledOnlyByDeadClient == spc = "killed" => outcome[conn] = "died"

\* Main is kept for ever: by a client that has stopped with its connection open, or by
\* a handler or a join that does not return.
Blocked == spc = "recv" /\ conn \in stalled
Waiting == spc = "waiting"

\* The connections the VM never closes have filled its descriptor table before c got in.
Shut(c) == fds = MaxFds /\ conn # c

\* A client that found the VM comes to its end, however the others queue up or die,
\* unless it has stopped itself, the VM waits for a stopped client, for a vCPU in one of
\* its handlers or in pthread_join, or the VM has run out of descriptors.
ClientEnds ==
    \A c \in Clients :
        cpc[c] = "connect" ~> (Closed(c) \/ c \in stalled \/ Blocked \/ Waiting \/ Shut(c))

\* A VM told to end by SIGTERM leaves its main loop and removes its directory however
\* many clients keep it busy, and one whose guest has halted does too unless a PAUSE or
\* RESUME that is served late takes the SHUTDOWN back; a stopped client, a handler that
\* waits for a vCPU and a reply to a client that was killed prevent it.  That the
\* process then ends is not promised: it joins its vCPUs first, and after a SIGTERM
\* nobody wakes the ones that sleep in the pause.
ShutdownIsServed ==
    /\ sig_status ~> (~path \/ spc = "killed" \/ Blocked \/ Waiting)
    /\ state = "SHUTDOWN" ~> (~path \/ spc = "killed" \/ Blocked \/ Waiting
                                 \/ state # "SHUTDOWN")
==============================================================================
