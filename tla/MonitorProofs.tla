---------------------------- MODULE MonitorProofs ----------------------------
(***************************************************************************)
(* Safety of Monitor for every number of clients, of descriptors and of    *)
(* faults.                                                                 *)
(***************************************************************************)
EXTENDS Monitor, TLAPS

Working == {"connect", "send", "recv"}

\* Where the last command of client c is: on its way, carried out, or answered.
Asked(c) == request[c] # "NONE"
Carried(c) == spc = "send" /\ conn = c
Answered(c) == reply[c].cmd # "NONE"

\* What a client is about, from its start to its end.
PlanInv(c) ==
    /\ cpc[c] = "idle" => plan[c] = <<>> /\ served[c] = <<>> /\ at[c] = 1
    /\ cpc[c] # "idle" => kind[c] \in SubCommands /\ plan[c] \in Plans(kind[c])
    /\ cpc[c] \in Working => at[c] <= Len(plan[c])
    /\ cpc[c] \in Working \cup {"idle"} <=> outcome[c] = "none"

\* As long as the VM lives, the commands carried out for a client are the ones before
\* its current one, and that one too once it is carried out or answered; only a client
\* that waits, or that was killed, has a command in flight.
FlightInv(c) ==
    Alive =>
        /\ Asked(c) => ~Carried(c) /\ ~Answered(c) /\ request[c] = plan[c][at[c]]
        /\ Carried(c) => ~Answered(c) /\ res.cmd = plan[c][at[c]]
        /\ Answered(c) => reply[c].cmd = plan[c][at[c]]
        /\ Asked(c) \/ Carried(c) \/ Answered(c) =>
               /\ cpc[c] = "recv" \/ outcome[c] = "died"
               /\ at[c] <= Len(plan[c])
        /\ Len(served[c]) = IF Carried(c) \/ Answered(c) THEN at[c] ELSE at[c] - 1

\* The commands carried out for a client are the first ones of its plan.
OrderInv(c) ==
    /\ Len(served[c]) <= Len(plan[c])
    /\ \A i \in 1 .. Len(served[c]) : served[c][i] = plan[c][i]
    /\ outcome[c] = "success" => ~Alive \/ Len(served[c]) = Len(plan[c])

\* The state on its way to a client is the one its SHOW_STATE found, and its second
\* command is sent on the strength of that one.
Shown(c) ==
    /\ kind[c] = "pause" => seen[c] = "RUNNING"
    /\ kind[c] = "resume" => seen[c] = "PAUSED"
SeenInv(c) ==
    /\ Alive =>
         /\ Carried(c) /\ res.cmd = "SHOW_STATE" => res.state = seen[c]
         /\ reply[c].cmd = "SHOW_STATE" => reply[c].state = seen[c]
         /\ at[c] = 2 /\ outcome[c] \in {"none", "died"} => Shown(c)
    /\ Len(served[c]) = 2 => Shown(c)

ClientInv(c) == PlanInv(c) /\ FlightInv(c) /\ OrderInv(c) /\ SeenInv(c)

\* Main works for a client, and the one whose reply killed the VM had been killed itself.
ConnInv ==
    /\ spc \in {"recv", "send", "killed"} => conn \in Clients
    /\ spc = "killed" => outcome[conn] = "died"

IInv == TypeOK /\ ConnInv /\ \A c \in Clients : ClientInv(c)

(* Plans and results *)

\* Every plan is one or two commands; pause and resume ask for the state first.
LEMMA PlanFacts ==
  ASSUME NEW k \in SubCommands, NEW p \in Plans(k)
  PROVE  /\ p \in Seq(Commands) /\ Len(p) \in 1 .. 2
         /\ \A i \in 1 .. Len(p) : p[i] \in Commands
         /\ Len(p) = 2 => p[2] # "SHOW_STATE"
         /\ k \in {"pause", "resume"} => Len(p) = 2 /\ p[1] = "SHOW_STATE"
  <1>1. \A x \in Commands : <<x>> \in Seq(Commands) /\ Len(<<x>>) = 1 /\ <<x>>[1] = x
    OBVIOUS
  <1>2. \A x, y \in Commands :
           /\ <<x, y>> \in Seq(Commands) /\ Len(<<x, y>>) = 2
           /\ <<x, y>>[1] = x /\ <<x, y>>[2] = y
    OBVIOUS
  <1>3. Commands = {"PAUSE", "RESUME", "SHUTDOWN", "SHOW_STATE", "SHOW_REGS", "DUMP_MEM"}
    BY DEF Commands
  <1>4. CASE k = "pause"
    <2>1. p = <<"SHOW_STATE", "PAUSE">>
      BY <1>4 DEF Plans, PausePlan
    <2>2. QED
      BY <1>2, <1>3, <1>4, <2>1
  <1>5. CASE k = "resume"
    <2>1. p = <<"SHOW_STATE", "RESUME">>
      BY <1>5 DEF Plans, ResumePlan
    <2>2. QED
      BY <1>2, <1>3, <1>5, <2>1
  <1>6. CASE k = "shutdown"
    <2>1. p = <<"SHUTDOWN">>
      BY <1>6 DEF Plans, ShutdownPlan
    <2>2. QED
      BY <1>1, <1>3, <1>6, <2>1
  <1>7. CASE k = "status"
    <2>1. p = <<"SHOW_STATE">> \/ p = <<"SHOW_REGS", "DUMP_MEM">>
      BY <1>7 DEF Plans, StatusPlans
    <2>2. CASE p = <<"SHOW_STATE">>
      BY <1>1, <1>3, <1>7, <2>2
    <2>3. CASE p = <<"SHOW_REGS", "DUMP_MEM">>
      BY <1>2, <1>3, <1>7, <2>3
    <2>4. QED
      BY <2>1, <2>2, <2>3
  <1>8. QED
    BY <1>4, <1>5, <1>6, <1>7 DEF SubCommands

\* A list that agrees with the beginning of another one is a prefix of it.
LEMMA PrefixOf ==
  ASSUME NEW S, NEW s \in Seq(S), NEW t \in Seq(S), Len(s) <= Len(t),
         \A i \in 1 .. Len(s) : s[i] = t[i]
  PROVE  IsPrefix(s, t) /\ (Len(s) = Len(t) => s = t)
  <1>1. Len(s) \in Nat /\ Len(t) \in Nat
    OBVIOUS
  <1>2. SubSeq(s, 1, Len(s)) = SubSeq(t, 1, Len(s))
    BY <1>1
  <1>3. Len(s) = Len(t) => s = t
    OBVIOUS
  <1>4. QED
    BY <1>2, <1>3 DEF IsPrefix

\* A client that found an answer, or the end of the VM, ends or goes on to its next
\* command; it does not go on after its last one, nor, with pause and resume, after a
\* state that leaves nothing to do.
RecvEffect(c) ==
    /\ cpc[c] = "recv" /\ c \notin stalled
    /\ at' = [at EXCEPT ![c] = @ + 1]
    /\ \/ /\ \E how \in {"not_needed", "success"} :
               /\ outcome' = [outcome EXCEPT ![c] = how]
               /\ how = "success" => at[c] = Len(plan[c])
          /\ cpc' = [cpc EXCEPT ![c] = "end"]
       \/ /\ cpc' = [cpc EXCEPT ![c] = "send"]
          /\ at[c] # Len(plan[c])
          /\ UNCHANGED outcome
          /\ plan[c][at[c]] = "SHOW_STATE" =>
                 /\ kind[c] = "pause" => cres'[c].state \notin PauseNeedless
                 /\ kind[c] = "resume" => cres'[c].state \notin ResumeNeedless

LEMMA ProceedEffect == ASSUME NEW c \in Clients, Recv(c) PROVE RecvEffect(c)
  <1> DEFINE gives_up == /\ plan[c][at[c]] = "SHOW_STATE"
                         /\ \/ kind[c] = "pause" /\ cres'[c].state \in PauseNeedless
                            \/ kind[c] = "resume" /\ cres'[c].state \in ResumeNeedless
  <1>1. CASE gives_up
    BY <1>1 DEF RecvEffect, Recv, Proceed, Finish
  <1>2. CASE ~gives_up /\ at[c] = Len(plan[c])
    BY <1>2 DEF RecvEffect, Recv, Proceed, Finish
  <1>3. CASE ~gives_up /\ at[c] # Len(plan[c])
    BY <1>3 DEF RecvEffect, Recv, Proceed, Goto
  <1>4. QED
    BY <1>1, <1>2, <1>3

\* A client at work is about one of the commands of its plan.
LEMMA AtFacts ==
  ASSUME TypeOK, NEW c \in Clients, PlanInv(c), cpc[c] # "idle"
  PROVE  /\ Len(plan[c]) \in 1 .. 2
         /\ Len(plan[c]) = 2 => plan[c][2] # "SHOW_STATE"
         /\ kind[c] \in {"pause", "resume"} => Len(plan[c]) = 2 /\ plan[c][1] = "SHOW_STATE"
         /\ at[c] \in 1 .. 3
         /\ cpc[c] \in Working => at[c] \in 1 .. Len(plan[c]) /\ plan[c][at[c]] \in Commands
         /\ cpc[c] \in Working => at[c] = 1 \/ at[c] = 2
  <1>1. kind[c] \in SubCommands /\ plan[c] \in Plans(kind[c])
    BY DEF PlanInv
  <1>2. /\ Len(plan[c]) \in 1 .. 2
        /\ Len(plan[c]) = 2 => plan[c][2] # "SHOW_STATE"
        /\ \A i \in 1 .. Len(plan[c]) : plan[c][i] \in Commands
        /\ kind[c] \in {"pause", "resume"} => Len(plan[c]) = 2 /\ plan[c][1] = "SHOW_STATE"
    <2>1. PICK k \in SubCommands : k = kind[c]
      BY <1>1
    <2>2. PICK p \in Plans(k) : p = plan[c]
      BY <1>1, <2>1
    <2>3. QED
      BY <2>1, <2>2, PlanFacts
  <1>3. at[c] \in 1 .. 3
    BY DEF TypeOK
  <1>4. cpc[c] \in Working => at[c] <= Len(plan[c])
    BY DEF PlanInv
  <1>5. QED
    BY <1>2, <1>3, <1>4

(* Type correctness *)

\* The VM listens and no client has been started.
LEMMA TypeInit == Init => TypeOK
  <1> SUFFICES ASSUME Init PROVE TypeOK
    OBVIOUS
  <1>1. ZeroResult \in Result
    BY DEF ZeroResult, Result, VMState
  <1>2. /\ state \in VMState
        /\ spc \in {"loop", "accept", "recv", "send", "sig", "rm", "clean", "waiting"} \cup Gone
        /\ conn \in Clients \cup {NoClient}
        /\ backlog \in Seq(Clients) /\ Len(backlog) <= Backlog
        /\ fds \in 0 .. MaxFds
    BY MaxFdsAssumption DEF Init, VMState, Backlog
  <1>3. res \in Result /\ woken \in BOOLEAN /\ sig_status \in BOOLEAN /\ path \in BOOLEAN
    BY <1>1, Zenon DEF Init
  <1>4. /\ kind \in [Clients -> SubCommands \cup {"none"}]
        /\ cpc \in [Clients -> {"idle", "connect", "send", "recv", "end"}]
        /\ at \in [Clients -> 1 .. 3]
        /\ request \in [Clients -> Commands \cup {"NONE"}]
        /\ outcome \in [Clients -> Outcomes]
        /\ seen \in [Clients -> VMState]
    BY DEF Init, Outcomes, VMState
  <1>5. plan \in [Clients -> Seq(Commands)] /\ served \in [Clients -> Seq(Commands)]
    BY DEF Init
  <1>6. linked \in [Clients -> BOOLEAN] /\ stalled \subseteq Clients
    BY Zenon DEF Init
  <1>7. reply \in [Clients -> Result] /\ cres \in [Clients -> Result]
    BY <1>1, Zenon DEF Init
  <1>8. QED
    BY <1>2, <1>3, <1>4, <1>5, <1>6, <1>7 DEF TypeOK

\* No step takes a variable out of its type; a client's place in its plan needs to
\* know the plan's length.
LEMMA TypeStep == IInv /\ [Next]_vars => TypeOK'
  <1> SUFFICES ASSUME TypeOK, ConnInv, \A c \in Clients : PlanInv(c), [Next]_vars
               PROVE  TypeOK'
    BY DEF IInv, ClientInv
  <1> USE DEF TypeOK, vmVars, linkVars, serverVars, channelVars, clientVars, historyVars
  <1>1. ASSUME NEW c \in Clients, NEW k \in Kinds[c], Start(c, k) PROVE TypeOK'
    <2>1. k \in SubCommands
      BY KindsAssumption
    <2>2. kind' \in [Clients -> SubCommands \cup {"none"}] /\ plan' \in [Clients -> Seq(Commands)]
      <3>1. PICK p \in Plans(k) : plan' = [plan EXCEPT ![c] = p]
        BY <1>1 DEF Start
      <3>2. p \in Seq(Commands)
        BY <2>1, PlanFacts
      <3>3. QED
        BY <1>1, <2>1, <3>1, <3>2 DEF Start
    <2>3. /\ cpc' \in [Clients -> {"idle", "connect", "send", "recv", "end"}]
          /\ outcome' \in [Clients -> Outcomes]
      BY <1>1 DEF Start, Goto, Finish, Outcomes
    <2>4. QED
      BY <1>1, <2>2, <2>3 DEF Start
  <1>2. ASSUME NEW c \in Clients, Connect(c) PROVE TypeOK'
    <2>1. backlog' \in Seq(Clients) /\ Len(backlog') <= Backlog
      BY <1>2 DEF Connect, Room, Backlog
    <2>2. linked' \in [Clients -> BOOLEAN]
      BY <1>2, Zenon DEF Connect
    <2>3. QED
      BY <1>2, <2>1, <2>2 DEF Connect, Goto
  <1>3. ASSUME NEW c \in Clients, Send(c) PROVE TypeOK'
    <2>1. cpc[c] = "send"
      BY <1>3 DEF Send, Goto, Finish
    <2>2. plan[c][at[c]] \in Commands
      BY <2>1, AtFacts DEF Working
    <2>3. request' \in [Clients -> Commands \cup {"NONE"}]
      BY <1>3, <2>2 DEF Send
    <2>4. /\ cpc' \in [Clients -> {"idle", "connect", "send", "recv", "end"}]
          /\ outcome' \in [Clients -> Outcomes]
      BY <1>3 DEF Send, Goto, Finish, Outcomes
    <2>5. QED
      BY <1>3, <2>3, <2>4 DEF Send
  <1>4. ASSUME NEW c \in Clients, Recv(c) PROVE TypeOK'
    <2>1. RecvEffect(c)
      BY <1>4, ProceedEffect
    <2>2. at[c] + 1 \in 1 .. 3
      <3>1. cpc[c] # "idle" /\ cpc[c] \in Working
        BY <2>1 DEF RecvEffect, Working
      <3>2. at[c] = 1 \/ at[c] = 2
        BY <3>1, AtFacts
      <3>3. QED
        BY <3>2
    <2>3. /\ at' \in [Clients -> 1 .. 3]
          /\ cpc' \in [Clients -> {"idle", "connect", "send", "recv", "end"}]
      BY <2>1, <2>2 DEF RecvEffect
    <2>4. outcome' \in [Clients -> Outcomes]
      BY <2>1 DEF RecvEffect, Outcomes
    <2>5. ZeroResult \in Result
      BY DEF ZeroResult, Result, VMState
    <2>6. reply' \in [Clients -> Result] /\ cres' \in [Clients -> Result]
      BY <1>4, <2>5 DEF Recv
    <2>7. QED
      BY <1>4, <2>3, <2>4, <2>6 DEF Recv
  <1>5. ASSUME NEW c \in Clients, Die(c) PROVE TypeOK'
    BY <1>5 DEF Die, Outcomes
  <1>6. ASSUME NEW c \in Clients, Stall(c) PROVE TypeOK'
    BY <1>6 DEF Stall
  <1>7. CASE LoopTest
    BY <1>7 DEF LoopTest, Main
  <1>8. CASE Accept
    <2>1. CASE backlog # <<>> /\ fds < MaxFds
      BY <1>8, <2>1, MaxFdsAssumption DEF Accept, Main, Backlog
    <2>2. CASE ~(backlog # <<>> /\ fds < MaxFds)
      BY <1>8, <2>2 DEF Accept, Main
    <2>3. QED
      BY <2>1, <2>2
  <1>9. CASE Serve
    <2>1. request[conn] \in Commands /\ conn \in Clients
      BY <1>9 DEF Serve, Main, ConnInv
    <2>2. state' \in VMState /\ res' \in Result
      BY <1>9, <2>1 DEF Serve, Handle, HandleWith, VMState, Result
    <2>3. served' \in [Clients -> Seq(Commands)] /\ seen' \in [Clients -> VMState]
      BY <1>9, <2>1 DEF Serve
    <2>4. woken' \in BOOLEAN
      BY <1>9, Zenon DEF Serve, Handle, HandleWith
    <2>5. QED
      BY <1>9, <2>2, <2>3, <2>4 DEF Serve, Main
  <1>10. CASE SendReply
    BY <1>10 DEF SendReply, Gone
  <1>11. CASE Hangup
    BY <1>11 DEF Hangup
  <1>12. CASE CheckSignal
    BY <1>12 DEF CheckSignal, Main, StateAfterTurn, VMState
  <1>13. CASE RemovePath
    BY <1>13 DEF RemovePath, Main
  <1>14. CASE Exit
    BY <1>14 DEF Exit, Main, Gone
  <1>15. CASE Halt
    BY <1>15 DEF Halt, VMState
  <1>16. CASE Sigterm
    BY <1>16 DEF Sigterm
  <1>17. CASE HandlerWaits
    <2>1. state' \in VMState
      BY <1>17 DEF HandlerWaits, VMState
    <2>2. QED
      BY <1>17, <2>1 DEF HandlerWaits, Main
  <1>18. CASE JoinWaits
    BY <1>18 DEF JoinWaits, Main
  <1>19. CASE UNCHANGED vars
    BY <1>19 DEF vars
  <1>20. QED
    BY <1>1, <1>2, <1>3, <1>4, <1>5, <1>6, <1>7, <1>8, <1>9, <1>10, <1>11, <1>12, <1>13,
       <1>14, <1>15, <1>16, <1>17, <1>18, <1>19 DEF Next, ServerStep, ClientStep

(* Steps that leave a client alone *)

\* What a step leaves client d as it was.
Same(d) ==
    /\ kind'[d] = kind[d] /\ cpc'[d] = cpc[d] /\ plan'[d] = plan[d] /\ at'[d] = at[d]
    /\ request'[d] = request[d] /\ reply'[d] = reply[d] /\ outcome'[d] = outcome[d]
    /\ served'[d] = served[d] /\ seen'[d] = seen[d]

\* A step that touches neither a client nor the result held for it keeps what is known
\* about it.
LEMMA Frame ==
  ASSUME NEW d \in Clients, ClientInv(d), Same(d),
         Alive' => Alive,
         Carried(d)' <=> Carried(d),
         Carried(d) => res' = res
  PROVE  ClientInv(d)'
  <1>1. PlanInv(d)'
    BY DEF ClientInv, PlanInv, Same
  <1>2. FlightInv(d)'
    <2>1. (Asked(d)' <=> Asked(d)) /\ (Answered(d)' <=> Answered(d))
      BY DEF Same, Asked, Answered
    <2>2. SUFFICES ASSUME Alive, Alive' PROVE FlightInv(d)'
      BY DEF FlightInv
    <2>3. QED
      BY <2>1, <2>2 DEF ClientInv, FlightInv, Same
  <1>3. OrderInv(d)'
    BY DEF ClientInv, OrderInv, Same
  <1>4. SeenInv(d)'
    <2>1. Shown(d)' <=> Shown(d)
      BY DEF Same, Shown
    <2>2. QED
      BY <2>1 DEF ClientInv, SeenInv, Same
  <1>5. QED
    BY <1>1, <1>2, <1>3, <1>4 DEF ClientInv

\* What the main loop's own steps, the guest and the signals may do: main moves, but
\* neither to nor from the sending of a reply.
QuietEffect ==
    /\ UNCHANGED <<res, channelVars, clientVars, historyVars>>
    /\ \/ UNCHANGED <<spc, conn>>
       \/ /\ spc \notin {"send"} \cup Gone /\ spc' \notin {"send", "killed"}
          /\ spc' = "recv" => conn' \in Clients

LEMMA QuietSteps ==
  ASSUME TypeOK,
         LoopTest \/ Accept \/ Hangup \/ CheckSignal \/ RemovePath \/ Exit \/ JoinWaits
           \/ Halt \/ Sigterm \/ UNCHANGED vars
  PROVE  QuietEffect
  <1> USE DEF QuietEffect, Main, Gone
  <1>1. CASE LoopTest
    BY <1>1 DEF LoopTest, linkVars
  <1>2. CASE Accept
    <2>1. CASE backlog # <<>> /\ fds < MaxFds
      <3>1. Head(backlog) \in Clients
        BY <2>1 DEF TypeOK
      <3>2. QED
        BY <1>2, <2>1, <3>1 DEF Accept
    <2>2. CASE ~(backlog # <<>> /\ fds < MaxFds)
      BY <1>2, <2>2 DEF Accept
    <2>3. QED
      BY <2>1, <2>2
  <1>3. CASE Hangup
    BY <1>3 DEF Hangup
  <1>4. CASE CheckSignal
    BY <1>4 DEF CheckSignal
  <1>5. CASE RemovePath
    BY <1>5 DEF RemovePath
  <1>6. CASE Exit
    BY <1>6 DEF Exit
  <1>7. CASE Halt
    BY <1>7 DEF Halt, linkVars
  <1>8. CASE Sigterm
    BY <1>8 DEF Sigterm, linkVars
  <1>9. CASE JoinWaits
    BY <1>9 DEF JoinWaits
  <1>10. CASE UNCHANGED vars
    BY <1>10 DEF vars, serverVars, vmVars, linkVars
  <1>11. QED
    BY <1>1, <1>2, <1>3, <1>4, <1>5, <1>6, <1>7, <1>8, <1>9, <1>10

LEMMA QuietStep == ASSUME IInv, QuietEffect PROVE ConnInv' /\ \A d \in Clients : ClientInv(d)'
  <1>1. ConnInv'
    BY DEF IInv, ConnInv, QuietEffect, clientVars, Gone
  <1>2. ASSUME NEW d \in Clients PROVE ClientInv(d)'
    <2>1. Same(d) /\ res' = res
      BY DEF QuietEffect, Same, channelVars, clientVars, historyVars
    <2>2. (Alive' => Alive) /\ (Carried(d)' <=> Carried(d))
      BY DEF QuietEffect, Alive, Carried, Gone
    <2>3. QED
      BY <2>1, <2>2, Frame DEF IInv
  <1>3. QED
    BY <1>1, <1>2

(* The steps of a client *)

\* A step of client c leaves the others alone and main where it is.
ClientOnly(c) ==
    /\ UNCHANGED <<spc, conn, res>>
    /\ \A d \in Clients \ {c} : Same(d)

LEMMA ClientFrame ==
  ASSUME IInv, NEW c \in Clients, ClientOnly(c), ClientInv(c)',
         outcome[c] = "died" => outcome'[c] = "died"
  PROVE  ConnInv' /\ \A d \in Clients : ClientInv(d)'
  <1>1. ConnInv'
    BY DEF IInv, ConnInv, ClientOnly, Same
  <1>2. ASSUME NEW d \in Clients \ {c} PROVE ClientInv(d)'
    <2>1. Same(d) /\ res' = res /\ (Alive' => Alive) /\ (Carried(d)' <=> Carried(d))
      BY DEF ClientOnly, Alive, Carried
    <2>2. QED
      BY <2>1, Frame DEF IInv
  <1>3. QED
    BY <1>1, <1>2

LEMMA StartStep ==
  ASSUME IInv, NEW c \in Clients, NEW k \in Kinds[c], Start(c, k)
  PROVE  ConnInv' /\ \A d \in Clients : ClientInv(d)'
  <1> USE DEF serverVars, vmVars, linkVars, channelVars, historyVars
  <1>1. PICK p \in Plans(k) : plan' = [plan EXCEPT ![c] = p]
    BY DEF Start
  <1>2. k \in SubCommands /\ Len(p) \in 1 .. 2
    BY KindsAssumption, PlanFacts
  <1>3. /\ kind'[c] = k /\ plan'[c] = p /\ cpc[c] = "idle" /\ cpc'[c] \in {"connect", "end"}
        /\ cpc'[c] = "connect" => outcome'[c] = outcome[c]
        /\ cpc'[c] = "end" => outcome'[c] = "not_running"
        /\ UNCHANGED <<spc, conn, res, request, reply, at, served, seen>>
    BY <1>1 DEF IInv, TypeOK, Start, Goto, Finish, Outcomes
  <1>4. ClientOnly(c)
    BY <1>1 DEF IInv, TypeOK, Start, Goto, Finish, Same, ClientOnly
  <1>5. served[c] = <<>> /\ at[c] = 1 /\ outcome[c] = "none" /\ Len(served[c]) = 0
    BY <1>3 DEF IInv, ClientInv, PlanInv
  <1>6. PlanInv(c)'
    <2>1. kind'[c] \in SubCommands /\ plan'[c] \in Plans(kind'[c])
      BY <1>2, <1>3
    <2>2. at'[c] <= Len(plan'[c])
      <3>1. at'[c] = 1 /\ Len(plan'[c]) = Len(p)
        BY <1>3, <1>5
      <3>2. 1 <= Len(p)
        <4>1. \A n \in 1 .. 2 : 1 <= n
          OBVIOUS
        <4>2. QED
          BY <1>2, <4>1, Zenon
      <3>3. QED
        BY <3>1, <3>2, Zenon
    <2>3. cpc'[c] \in Working \cup {"idle"} <=> outcome'[c] = "none"
      BY <1>3, <1>5 DEF Working
    <2>4. QED
      BY <1>3, <2>1, <2>2, <2>3 DEF PlanInv
  <1>7. Alive => ~Asked(c) /\ ~Carried(c) /\ ~Answered(c)
    BY <1>3, <1>5 DEF IInv, ClientInv, FlightInv
  <1>8. (Alive' <=> Alive) /\ (Asked(c)' <=> Asked(c)) /\ (Carried(c)' <=> Carried(c))
          /\ (Answered(c)' <=> Answered(c))
    BY <1>3 DEF Alive, Asked, Carried, Answered
  <1>9. FlightInv(c)'
    BY <1>3, <1>5, <1>7, <1>8 DEF FlightInv
  <1>10. OrderInv(c)'
    BY <1>2, <1>3, <1>5 DEF OrderInv
  <1>11. SeenInv(c)'
    BY <1>3, <1>5, <1>7, <1>8 DEF SeenInv, Answered
  <1>12. QED
    BY <1>4, <1>5, <1>6, <1>9, <1>10, <1>11, ClientFrame DEF ClientInv

\* A client that has not sent its next command has none in flight.
LEMMA NoneInFlight ==
  ASSUME NEW c \in Clients, PlanInv(c), FlightInv(c), cpc[c] \in {"connect", "send"}, Alive
  PROVE  /\ ~Asked(c) /\ ~Carried(c) /\ ~Answered(c)
         /\ outcome[c] = "none"
  BY DEF PlanInv, FlightInv, Working

LEMMA ConnectStep ==
  ASSUME IInv, NEW c \in Clients, Connect(c)
  PROVE  ConnInv' /\ \A d \in Clients : ClientInv(d)'
  <1> USE DEF vmVars, channelVars, historyVars
  <1>1. /\ cpc[c] = "connect" /\ cpc'[c] = "send"
        /\ UNCHANGED <<spc, conn, res, kind, plan, request, reply, at, outcome, served, seen>>
    BY DEF IInv, TypeOK, Connect, Goto
  <1>2. ClientOnly(c)
    BY DEF IInv, TypeOK, Connect, Goto, Same, ClientOnly
  <1>3. (Alive' <=> Alive) /\ (Asked(c)' <=> Asked(c)) /\ (Carried(c)' <=> Carried(c))
          /\ (Answered(c)' <=> Answered(c)) /\ (Shown(c)' <=> Shown(c))
    BY <1>1 DEF Alive, Asked, Carried, Answered, Shown
  <1>4. PlanInv(c)'
    BY <1>1 DEF IInv, ClientInv, PlanInv, Working
  <1>5. FlightInv(c)'
    <2>1. Alive => ~Asked(c) /\ ~Carried(c) /\ ~Answered(c)
      BY <1>1, NoneInFlight DEF IInv, ClientInv
    <2>2. QED
      BY <1>1, <1>3, <2>1 DEF IInv, ClientInv, FlightInv
  <1>6. OrderInv(c)' /\ SeenInv(c)'
    BY <1>1, <1>3 DEF IInv, ClientInv, OrderInv, SeenInv
  <1>7. QED
    BY <1>1, <1>2, <1>4, <1>5, <1>6, ClientFrame DEF ClientInv

LEMMA SendStep ==
  ASSUME IInv, NEW c \in Clients, Send(c)
  PROVE  ConnInv' /\ \A d \in Clients : ClientInv(d)'
  <1> USE DEF serverVars, vmVars, linkVars, historyVars
  <1>1. /\ cpc[c] = "send" /\ UNCHANGED <<spc, conn, res, kind, plan, reply, at, served, seen>>
        /\ \/ /\ Alive /\ cpc'[c] = "recv" /\ outcome'[c] = outcome[c]
              /\ request'[c] = plan[c][at[c]]
           \/ /\ cpc'[c] = "end" /\ outcome'[c] \in {"sigpipe", "error"}
              /\ request' = request
    BY DEF IInv, TypeOK, Send, Goto, Finish
  <1>2. ClientOnly(c)
    BY DEF IInv, TypeOK, Send, Goto, Finish, Same, ClientOnly
  <1>3. (Alive' <=> Alive) /\ (Carried(c)' <=> Carried(c)) /\ (Answered(c)' <=> Answered(c))
          /\ (Shown(c)' <=> Shown(c))
    BY <1>1 DEF Alive, Carried, Answered, Shown
  <1>4. outcome[c] = "none"
    BY <1>1 DEF IInv, ClientInv, PlanInv, Working
  <1>5. Alive => ~Asked(c) /\ ~Carried(c) /\ ~Answered(c)
    BY <1>1, NoneInFlight DEF IInv, ClientInv
  <1>6. PlanInv(c)'
    BY <1>1, <1>4 DEF IInv, ClientInv, PlanInv, Working
  <1>7. FlightInv(c)'
    <2>1. at[c] <= Len(plan[c])
      BY <1>1 DEF IInv, ClientInv, PlanInv, Working
    <2>2. QED
      BY <1>1, <1>3, <1>5, <2>1 DEF IInv, ClientInv, FlightInv, Asked
  <1>8. OrderInv(c)'
    BY <1>1, <1>3, <1>4 DEF IInv, ClientInv, OrderInv
  <1>9. SeenInv(c)'
    BY <1>1, <1>3, <1>4, <1>5 DEF IInv, ClientInv, SeenInv
  <1>10. QED
    BY <1>2, <1>4, <1>6, <1>7, <1>8, <1>9, ClientFrame DEF ClientInv

\* What recv leaves behind in a client: its answer taken while the VM lives.
LEMMA RecvAnswer ==
  ASSUME IInv, NEW c \in Clients, Recv(c)
  PROVE  /\ cpc[c] = "recv" /\ ~Answered(c)'
         /\ UNCHANGED <<spc, conn, res, kind, plan, request, served, seen>>
         /\ Alive => Answered(c) /\ cres'[c] = reply[c]
  BY DEF IInv, TypeOK, Recv, Returns, Answered, ZeroResult, serverVars, vmVars, linkVars,
         historyVars

LEMMA RecvStep ==
  ASSUME IInv, NEW c \in Clients, Recv(c)
  PROVE  ConnInv' /\ \A d \in Clients : ClientInv(d)'
  <1>1. RecvEffect(c)
    BY ProceedEffect
  <1>2. /\ cpc[c] = "recv" /\ ~Answered(c)'
        /\ UNCHANGED <<spc, conn, res, kind, plan, request, served, seen>>
        /\ Alive => Answered(c) /\ cres'[c] = reply[c]
    BY RecvAnswer
  <1>3. ClientOnly(c)
    <2>1. reply' = [reply EXCEPT ![c] = ZeroResult]
      BY DEF Recv
    <2>2. QED
      BY <1>1, <1>2, <2>1 DEF IInv, TypeOK, RecvEffect, Same, ClientOnly
  <1>4. /\ at'[c] = at[c] + 1 /\ at[c] \in 1 .. 3
        /\ \/ /\ cpc'[c] = "end" /\ outcome'[c] \in {"not_needed", "success"}
              /\ outcome'[c] = "success" => at[c] = Len(plan[c])
           \/ cpc'[c] = "send" /\ outcome'[c] = outcome[c] /\ at[c] # Len(plan[c])
    BY <1>1 DEF IInv, TypeOK, RecvEffect
  <1>5. (Alive' <=> Alive) /\ (Asked(c)' <=> Asked(c)) /\ (Carried(c)' <=> Carried(c))
          /\ (Shown(c)' <=> Shown(c))
    BY <1>2 DEF Alive, Asked, Carried, Shown
  <1>6. /\ at[c] \in 1 .. Len(plan[c]) /\ Len(plan[c]) \in 1 .. 2
        /\ kind[c] \in {"pause", "resume"} => plan[c][1] = "SHOW_STATE"
    BY <1>2, AtFacts DEF IInv, ClientInv, Working
  <1>7. outcome[c] = "none"
    BY <1>2 DEF IInv, ClientInv, PlanInv, Working
  <1>8. Alive => /\ ~Asked(c) /\ ~Carried(c) /\ reply[c].cmd = plan[c][at[c]]
                 /\ Len(served[c]) = at[c]
    BY <1>2 DEF IInv, ClientInv, FlightInv
  <1>9. PlanInv(c)'
    <2>1. cpc'[c] # "idle" /\ kind'[c] \in SubCommands /\ plan'[c] \in Plans(kind'[c])
      BY <1>2, <1>4 DEF IInv, ClientInv, PlanInv
    <2>2. cpc'[c] \in Working => at'[c] <= Len(plan'[c])
      <3>1. cpc'[c] \in Working => at[c] # Len(plan[c])
        BY <1>4 DEF Working
      <3>2. plan'[c] = plan[c]
        BY <1>2
      <3>3. QED
        BY <1>4, <1>6, <3>1, <3>2
    <2>3. cpc'[c] \in Working \cup {"idle"} <=> outcome'[c] = "none"
      BY <1>4, <1>7 DEF Working
    <2>4. QED
      BY <2>1, <2>2, <2>3 DEF PlanInv
  <1>10. FlightInv(c)'
    <2>1. Alive => Len(served'[c]) = at'[c] - 1
      BY <1>2, <1>4, <1>8
    <2>2. QED
      BY <1>2, <1>5, <1>8, <2>1 DEF FlightInv
  <1>11. OrderInv(c)'
    BY <1>2, <1>4, <1>5, <1>7, <1>8 DEF IInv, ClientInv, OrderInv
  <1>12. SeenInv(c)'
    <2>1. ASSUME Alive, at'[c] = 2, outcome'[c] \in {"none", "died"} PROVE Shown(c)
      <3>1. at[c] = 1 /\ cpc'[c] = "send"
        BY <1>4, <2>1
      <3>2. kind[c] \in {"pause", "resume"} => reply[c].cmd = "SHOW_STATE"
        BY <1>6, <1>8, <2>1, <3>1
      <3>3. kind[c] \in {"pause", "resume"} => cres'[c].state = seen[c]
        BY <1>2, <2>1, <3>2 DEF IInv, ClientInv, SeenInv
      <3>4. /\ kind[c] = "pause" => cres'[c].state \notin PauseNeedless
            /\ kind[c] = "resume" => cres'[c].state \notin ResumeNeedless
        BY <1>1, <1>6, <3>1 DEF RecvEffect, IInv, TypeOK
      <3>5. seen[c] \in VMState
        BY DEF IInv, TypeOK
      <3>6. QED
        BY <3>3, <3>4, <3>5 DEF Shown, VMState, PauseNeedless, ResumeNeedless
    <2>2. QED
      BY <1>2, <1>5, <1>8, <2>1 DEF IInv, ClientInv, SeenInv, Answered
  <1>13. QED
    BY <1>3, <1>7, <1>9, <1>10, <1>11, <1>12, ClientFrame DEF ClientInv

LEMMA DieStep ==
  ASSUME IInv, NEW c \in Clients, Die(c)
  PROVE  ConnInv' /\ \A d \in Clients : ClientInv(d)'
  <1> USE DEF serverVars, vmVars, linkVars, channelVars, historyVars
  <1>1. /\ cpc[c] \in Working /\ cpc'[c] = "end" /\ outcome'[c] = "died"
        /\ UNCHANGED <<spc, conn, res, kind, plan, request, reply, at, served, seen>>
    BY DEF IInv, TypeOK, Die, Working
  <1>2. ClientOnly(c)
    BY DEF IInv, TypeOK, Die, Same, ClientOnly
  <1>3. (Alive' <=> Alive) /\ (Asked(c)' <=> Asked(c)) /\ (Carried(c)' <=> Carried(c))
          /\ (Answered(c)' <=> Answered(c)) /\ (Shown(c)' <=> Shown(c))
    BY <1>1 DEF Alive, Asked, Carried, Answered, Shown
  <1>4. outcome[c] = "none"
    BY <1>1 DEF IInv, ClientInv, PlanInv
  <1>5. PlanInv(c)'
    BY <1>1 DEF IInv, ClientInv, PlanInv, Working
  <1>6. FlightInv(c)'
    BY <1>1, <1>3 DEF IInv, ClientInv, FlightInv
  <1>7. OrderInv(c)' /\ SeenInv(c)'
    BY <1>1, <1>3, <1>4 DEF IInv, ClientInv, OrderInv, SeenInv
  <1>8. QED
    BY <1>1, <1>2, <1>5, <1>6, <1>7, ClientFrame DEF ClientInv

LEMMA StallStep ==
  ASSUME IInv, NEW c \in Clients, Stall(c)
  PROVE  ConnInv' /\ \A d \in Clients : ClientInv(d)'
  <1>1. /\ UNCHANGED <<spc, conn, res, kind, cpc, plan, at, request, reply, outcome>>
        /\ UNCHANGED historyVars
    BY DEF Stall, serverVars, vmVars, linkVars, channelVars
  <1>2. ConnInv'
    BY <1>1 DEF IInv, ConnInv
  <1>3. ASSUME NEW d \in Clients PROVE ClientInv(d)'
    BY <1>1, Frame DEF IInv, Same, Alive, Carried, historyVars
  <1>4. QED
    BY <1>2, <1>3

(* The steps of main that carry out a command and answer it *)

LEMMA ServeStep ==
  ASSUME IInv, Serve
  PROVE  ConnInv' /\ \A d \in Clients : ClientInv(d)'
  <1> USE DEF linkVars, clientVars
  <1>1. spc = "recv" /\ spc' = "send" /\ conn \in Clients /\ conn' = conn /\ Alive
    BY DEF IInv, ConnInv, Serve, Main, Alive, Gone
  <1>2. PICK c \in Clients : c = conn
    BY <1>1
  <1>3. /\ request[c] # "NONE" /\ request' = [request EXCEPT ![c] = "NONE"]
        /\ served' = [served EXCEPT ![c] = Append(@, request[c])]
        /\ seen' = IF request[c] = "SHOW_STATE" THEN [seen EXCEPT ![c] = state] ELSE seen
        /\ UNCHANGED <<reply, kind, cpc, plan, at, outcome>>
    BY <1>2 DEF Serve
  <1>4. /\ res'.cmd = request[c]
        /\ request[c] = "SHOW_STATE" => res'.state = state
    BY <1>2, <1>3 DEF IInv, TypeOK, Result, Serve, Handle, HandleWith
  <1>5. /\ request'[c] = "NONE" /\ served'[c] = Append(served[c], request[c])
        /\ request[c] = "SHOW_STATE" => seen'[c] = state
        /\ request[c] # "SHOW_STATE" => seen'[c] = seen[c]
    BY <1>3 DEF IInv, TypeOK
  <1>6. /\ ~Answered(c) /\ request[c] = plan[c][at[c]]
        /\ cpc[c] = "recv" \/ outcome[c] = "died"
        /\ at[c] <= Len(plan[c])
        /\ Len(served[c]) = at[c] - 1
    BY <1>1, <1>3 DEF IInv, ClientInv, FlightInv, Asked, Carried
  <1>7. at[c] \in 1 .. 3 /\ served[c] \in Seq(Commands) /\ plan[c] \in Seq(Commands)
          /\ request[c] \in Commands
    BY <1>3 DEF IInv, TypeOK
  <1>8. /\ Len(served'[c]) = at[c] /\ served'[c][at[c]] = request[c]
        /\ \A i \in 1 .. at[c] - 1 : served'[c][i] = served[c][i]
    BY <1>5, <1>6, <1>7
  <1>9. Alive' /\ ~Asked(c)' /\ Carried(c)' /\ ~Answered(c)'
    BY <1>1, <1>2, <1>3, <1>5, <1>6 DEF Alive, Gone, Asked, Carried, Answered
  <1>10. outcome[c] \in {"none", "died"} /\ cpc[c] # "idle"
    BY <1>6 DEF IInv, ClientInv, PlanInv, Working
  <1>11. ConnInv'
    BY <1>1 DEF ConnInv
  <1>12. PlanInv(c)'
    BY <1>3, <1>10 DEF IInv, ClientInv, PlanInv
  <1>13. FlightInv(c)'
    BY <1>3, <1>4, <1>6, <1>8, <1>9 DEF FlightInv
  <1>14. OrderInv(c)'
    <2>1. \A i \in 1 .. Len(served[c]) : served[c][i] = plan[c][i]
      BY DEF IInv, ClientInv, OrderInv
    <2>2. \A i \in 1 .. at[c] : served'[c][i] = plan[c][i]
      <3>1. SUFFICES ASSUME NEW i \in 1 .. at[c] PROVE served'[c][i] = plan[c][i]
        OBVIOUS
      <3>2. CASE i = at[c]
        BY <1>6, <1>8, <3>2
      <3>3. CASE i # at[c]
        <4>1. i \in 1 .. at[c] - 1
          BY <1>7, <3>1, <3>3
        <4>2. QED
          BY <1>6, <1>8, <2>1, <4>1
      <3>4. QED
        BY <3>2, <3>3
    <2>3. plan'[c] = plan[c] /\ outcome'[c] # "success"
      BY <1>3, <1>10
    <2>4. QED
      BY <1>6, <1>8, <2>2, <2>3 DEF OrderInv
  <1>15. SeenInv(c)'
    <2>1. at[c] = 2 => Shown(c) /\ request[c] # "SHOW_STATE"
      <3>1. at[c] = 2 => Shown(c)
        BY <1>1, <1>10 DEF IInv, ClientInv, SeenInv
      <3>2. Len(plan[c]) \in 1 .. 2 /\ (Len(plan[c]) = 2 => plan[c][2] # "SHOW_STATE")
        BY <1>10, AtFacts DEF IInv, ClientInv
      <3>3. at[c] = 2 => Len(plan[c]) = 2
        BY <1>6, <3>2
      <3>4. QED
        BY <1>6, <3>1, <3>2, <3>3
    <2>2. at[c] = 2 => Shown(c)'
      BY <1>3, <1>5, <2>1 DEF Shown
    <2>3. reply'[c].cmd # "SHOW_STATE"
      BY <1>9 DEF Answered
    <2>4. res'.cmd = "SHOW_STATE" => res'.state = seen'[c]
      BY <1>4, <1>5
    <2>5. at'[c] = at[c]
      BY <1>3
    <2>6. QED
      BY <1>8, <2>2, <2>3, <2>4, <2>5 DEF SeenInv
  <1>16. ASSUME NEW d \in Clients \ {c} PROVE ClientInv(d)'
    <2>1. Same(d)
      BY <1>3 DEF IInv, TypeOK, Same
    <2>2. ~Carried(d) /\ ~Carried(d)' /\ (Alive' => Alive)
      BY <1>1, <1>2 DEF Carried
    <2>3. QED
      BY <2>1, <2>2, Frame DEF IInv
  <1>17. QED
    BY <1>11, <1>12, <1>13, <1>14, <1>15, <1>16 DEF ClientInv

\* A command whose handler does not return is neither carried out nor answered.
LEMMA HandlerWaitsStep ==
  ASSUME IInv, HandlerWaits
  PROVE  ConnInv' /\ \A d \in Clients : ClientInv(d)'
  <1> USE DEF linkVars, clientVars, historyVars
  <1>1. spc = "recv" /\ spc' = "waiting" /\ conn \in Clients /\ conn' = conn /\ Alive /\ Alive'
    BY DEF IInv, ConnInv, HandlerWaits, Main, Alive, Gone
  <1>2. PICK c \in Clients : c = conn
    BY <1>1
  <1>3. /\ request' = [request EXCEPT ![c] = "NONE"]
        /\ UNCHANGED <<res, reply, kind, cpc, plan, at, outcome, served, seen>>
    BY <1>2 DEF HandlerWaits
  <1>4. ConnInv'
    BY <1>1 DEF ConnInv
  <1>5. ~Asked(c)' /\ (Answered(c)' <=> Answered(c)) /\ (Shown(c)' <=> Shown(c))
    BY <1>3 DEF IInv, TypeOK, Asked, Answered, Shown
  <1>6. \A d \in Clients : ~Carried(d) /\ ~Carried(d)'
    BY <1>1 DEF Carried
  <1>7. PlanInv(c)' /\ OrderInv(c)'
    BY <1>1, <1>3 DEF IInv, ClientInv, PlanInv, OrderInv
  <1>8. FlightInv(c)'
    BY <1>1, <1>3, <1>5, <1>6 DEF IInv, ClientInv, FlightInv
  <1>9. SeenInv(c)'
    BY <1>1, <1>3, <1>5, <1>6 DEF IInv, ClientInv, SeenInv
  <1>10. ASSUME NEW d \in Clients \ {c} PROVE ClientInv(d)'
    <2>1. Same(d)
      BY <1>3 DEF IInv, TypeOK, Same
    <2>2. QED
      BY <1>1, <1>6, <2>1, Frame DEF IInv
  <1>11. QED
    BY <1>4, <1>7, <1>8, <1>9, <1>10 DEF ClientInv

LEMMA SendReplyStep ==
  ASSUME IInv, SendReply
  PROVE  ConnInv' /\ \A d \in Clients : ClientInv(d)'
  <1> USE DEF linkVars, clientVars, historyVars
  <1>1. spc = "send" /\ conn \in Clients /\ conn' = conn /\ Alive
    BY DEF IInv, ConnInv, SendReply, Alive, Gone
  <1>2. PICK c \in Clients : c = conn
    BY <1>1
  <1>3. UNCHANGED <<res, request, kind, cpc, plan, at, outcome, served, seen>>
    BY DEF SendReply
  <1>4. \/ cpc[c] = "end" /\ spc' = "killed" /\ reply' = reply
        \/ cpc[c] # "end" /\ spc' = "recv" /\ reply' = [reply EXCEPT ![c] = res]
    BY <1>2 DEF SendReply, Closed
  <1>5. Carried(c)
    BY <1>1, <1>2 DEF Carried
  <1>6. /\ ~Asked(c) /\ ~Answered(c) /\ res.cmd = plan[c][at[c]]
        /\ cpc[c] = "recv" \/ outcome[c] = "died"
        /\ at[c] <= Len(plan[c]) /\ Len(served[c]) = at[c]
    BY <1>1, <1>5 DEF IInv, ClientInv, FlightInv
  <1>7. ConnInv'
    BY <1>1, <1>2, <1>3, <1>4, <1>6 DEF ConnInv
  <1>8. ~Carried(c)' /\ (Asked(c)' <=> Asked(c)) /\ (Shown(c)' <=> Shown(c))
    BY <1>3, <1>4 DEF Carried, Asked, Shown
  <1>9. PlanInv(c)'
    BY <1>3 DEF IInv, ClientInv, PlanInv
  <1>10. OrderInv(c)'
    BY <1>1, <1>3 DEF IInv, ClientInv, OrderInv
  <1>11. CASE cpc[c] = "end"
    <2>1. ~Alive'
      BY <1>4, <1>11 DEF Alive, Gone
    <2>2. SeenInv(c)' /\ FlightInv(c)'
      BY <1>3, <1>8, <2>1 DEF IInv, ClientInv, SeenInv, FlightInv
    <2>3. ASSUME NEW d \in Clients \ {c} PROVE ClientInv(d)'
      <3>1. Same(d)
        BY <1>3, <1>4, <1>11 DEF Same
      <3>2. ~Carried(d) /\ ~Carried(d)'
        BY <1>1, <1>2 DEF Carried
      <3>3. QED
        BY <2>1, <3>1, <3>2, Frame DEF IInv
    <2>4. QED
      BY <1>7, <1>9, <1>10, <2>2, <2>3 DEF ClientInv
  <1>12. CASE cpc[c] # "end"
    <2>1. /\ Alive' /\ spc' = "recv" /\ reply' = [reply EXCEPT ![c] = res]
          /\ reply'[c] = res
      BY <1>4, <1>12 DEF Alive, Gone, IInv, TypeOK
    <2>2. cpc[c] = "recv"
      <3>1. outcome[c] = "died" => cpc[c] \notin Working \cup {"idle"}
        BY DEF IInv, ClientInv, PlanInv
      <3>2. cpc[c] \in Working \cup {"idle", "end"}
        BY DEF IInv, TypeOK, Working
      <3>3. QED
        BY <1>6, <1>12, <3>1, <3>2
    <2>3. Answered(c)'
      <3>1. res.cmd \in Commands
        BY <1>6, <2>2, AtFacts DEF IInv, ClientInv, Working
      <3>2. QED
        BY <2>1, <3>1 DEF Answered, Commands
    <2>4. FlightInv(c)'
      BY <1>3, <1>6, <1>8, <2>1, <2>2, <2>3 DEF FlightInv
    <2>5. SeenInv(c)'
      BY <1>1, <1>3, <1>5, <1>8, <2>1 DEF IInv, ClientInv, SeenInv
    <2>6. ASSUME NEW d \in Clients \ {c} PROVE ClientInv(d)'
      <3>1. Same(d)
        BY <1>3, <2>1 DEF IInv, TypeOK, Same
      <3>2. ~Carried(d) /\ ~Carried(d)'
        BY <1>1, <1>2 DEF Carried
      <3>3. QED
        BY <1>1, <3>1, <3>2, Frame DEF IInv
    <2>7. QED
      BY <1>7, <1>9, <1>10, <2>4, <2>5, <2>6 DEF ClientInv
  <1>13. QED
    BY <1>11, <1>12

(* Theorems *)

LEMMA InvInit == Init => IInv
  <1> SUFFICES ASSUME Init PROVE IInv
    OBVIOUS
  <1>1. TypeOK
    BY TypeInit
  <1>2. ConnInv
    BY DEF Init, ConnInv
  <1>3. ASSUME NEW c \in Clients PROVE ClientInv(c)
    <2>1. /\ cpc[c] = "idle" /\ plan[c] = <<>> /\ served[c] = <<>> /\ at[c] = 1
          /\ outcome[c] = "none" /\ request[c] = "NONE" /\ reply[c].cmd = "NONE"
          /\ spc = "loop"
      BY DEF Init, ZeroResult
    <2>2. Len(served[c]) = 0 /\ Len(plan[c]) = 0
      BY <2>1
    <2>3. ~Asked(c) /\ ~Carried(c) /\ ~Answered(c)
      BY <2>1 DEF Asked, Carried, Answered
    <2>4. PlanInv(c)
      BY <2>1 DEF PlanInv, Working
    <2>5. FlightInv(c)
      BY <2>1, <2>2, <2>3 DEF FlightInv
    <2>6. OrderInv(c) /\ SeenInv(c)
      BY <2>1, <2>2, <2>3 DEF OrderInv, SeenInv
    <2>7. QED
      BY <2>4, <2>5, <2>6 DEF ClientInv
  <1>4. QED
    BY <1>1, <1>2, <1>3 DEF IInv

LEMMA InvStep == IInv /\ [Next]_vars => IInv'
  <1> SUFFICES ASSUME IInv, [Next]_vars PROVE IInv'
    OBVIOUS
  <1>1. TypeOK /\ TypeOK'
    BY TypeStep DEF IInv
  <1>2. ASSUME NEW c \in Clients, NEW k \in Kinds[c], Start(c, k) PROVE IInv'
    BY <1>1, <1>2, StartStep DEF IInv
  <1>3. ASSUME NEW c \in Clients, ClientStep(c) \/ Die(c) \/ Stall(c) PROVE IInv'
    BY <1>1, <1>3, ConnectStep, SendStep, RecvStep, DieStep, StallStep DEF IInv, ClientStep
  <1>4. CASE Serve
    BY <1>1, <1>4, ServeStep DEF IInv
  <1>5. CASE SendReply
    BY <1>1, <1>5, SendReplyStep DEF IInv
  <1>6. CASE HandlerWaits
    BY <1>1, <1>6, HandlerWaitsStep DEF IInv
  <1>7. CASE LoopTest \/ Accept \/ Hangup \/ CheckSignal \/ RemovePath \/ Exit \/ JoinWaits
               \/ Halt \/ Sigterm \/ UNCHANGED vars
    BY <1>1, <1>7, QuietSteps, QuietStep DEF IInv
  <1>8. QED
    BY <1>2, <1>3, <1>4, <1>5, <1>6, <1>7 DEF Next, ServerStep

\* The inductive invariant: where each client stands in its plan, which of its commands
\* is in flight, and which were carried out, holds in every reachable state.
THEOREM Inductive == Spec => []IInv
  BY InvInit, InvStep, PTL DEF Spec

\* Every variable of the VM and of its clients keeps its type.
THEOREM TypeCorrect == Spec => []TypeOK
  <1>1. IInv => TypeOK
    BY DEF IInv
  <1>2. QED
    BY <1>1, Inductive, PTL

\* run_main_loop carries out each client's commands once and in order, and a client that
\* announces success had all of them carried out unless the VM has gone.
THEOREM ServedInOrderHolds == Spec => []ServedInOrder
  <1>1. ASSUME IInv PROVE ServedInOrder
    <2>1. SUFFICES ASSUME NEW c \in Clients
                   PROVE  /\ IsPrefix(served[c], plan[c])
                          /\ outcome[c] = "success" => served[c] = plan[c] \/ ~Alive
      BY DEF ServedInOrder
    <2>2. served[c] \in Seq(Commands) /\ plan[c] \in Seq(Commands)
      BY <1>1 DEF IInv, TypeOK
    <2>3. /\ Len(served[c]) <= Len(plan[c])
          /\ \A i \in 1 .. Len(served[c]) : served[c][i] = plan[c][i]
          /\ outcome[c] = "success" => ~Alive \/ Len(served[c]) = Len(plan[c])
      BY <1>1 DEF IInv, ClientInv, OrderInv
    <2>4. PICK s \in Seq(Commands), t \in Seq(Commands) : s = served[c] /\ t = plan[c]
      BY <2>2
    <2>5. IsPrefix(s, t) /\ (Len(s) = Len(t) => s = t)
      BY <2>3, <2>4, PrefixOf
    <2>6. QED
      BY <2>3, <2>4, <2>5
  <1>2. QED
    BY <1>1, Inductive, PTL

\* The PAUSE of a pause and the RESUME of a resume follow a SHOW_STATE that found the VM
\* RUNNING or PAUSED for this very client.
THEOREM ActsOnShownStateHolds == Spec => []ActsOnShownState
  <1>1. IInv => ActsOnShownState
    BY DEF IInv, ClientInv, SeenInv, Shown, ActsOnShownState
  <1>2. QED
    BY <1>1, Inductive, PTL

\* The SIGPIPE of a reply ends the VM only when the client was killed while it waited.
THEOREM KilledOnlyByDeadClientHolds == Spec => []KilledOnlyByDeadClient
  <1>1. IInv => KilledOnlyByDeadClient
    BY DEF IInv, ConnInv, KilledOnlyByDeadClient
  <1>2. QED
    BY <1>1, Inductive, PTL

\* While the VM lives, what recv puts into a client's buffer is the answer to the command
\* the client has just sent.
THEOREM AnswerIsForLastCommandHolds == Spec => AnswerIsForLastCommand
  <1> DEFINE Right == \A c \in Clients :
                 cpc[c] = "recv" /\ at'[c] # at[c] /\ Alive => cres'[c].cmd = plan[c][at[c]]
  <1>1. ASSUME IInv, [Next]_vars PROVE [Right]_vars
    <2>1. SUFFICES ASSUME NEW c \in Clients, cpc[c] = "recv", at'[c] # at[c], Alive
                   PROVE  cres'[c].cmd = plan[c][at[c]]
      OBVIOUS
    <2>2. at' = at \/ \E d \in Clients : Recv(d)
      BY <1>1 DEF Next, ServerStep, ClientStep, LoopTest, Accept, Serve, SendReply, Hangup,
                  CheckSignal, RemovePath, Exit, HandlerWaits, JoinWaits, Halt, Sigterm,
                  Connect, Send, Die, Stall, Start, clientVars, vars
    <2>3. PICK d \in Clients : Recv(d)
      BY <2>1, <2>2
    <2>4. at' = [at EXCEPT ![d] = @ + 1]
      BY <2>3, ProceedEffect DEF RecvEffect
    <2>5. d = c
      BY <1>1, <2>1, <2>4 DEF IInv, TypeOK
    <2>6. Answered(c) /\ cres'[c] = reply[c]
      BY <1>1, <2>1, <2>3, <2>5, RecvAnswer
    <2>7. reply[c].cmd = plan[c][at[c]]
      BY <1>1, <2>1, <2>6 DEF IInv, ClientInv, FlightInv
    <2>8. QED
      BY <2>6, <2>7
  <1>2. QED
    BY <1>1, Inductive, PTL DEF Spec, AnswerIsForLastCommand
==============================================================================
