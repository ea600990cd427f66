---------------------------- MODULE CommandLine ----------------------------
(***************************************************************************)
(* main: the first argument chooses a sub command, which then reads its    *)
(* own options.  RunOptions and StatusRequest are composed here; pause,    *)
(* resume and shutdown know only -n and go on as in Monitor.               *)
(***************************************************************************)
EXTENDS RunOptions, StatusRequest

VARIABLE sub  \* the sub command, or how main ended

vars == <<sub, runVars, statusVars>>

\* Any word that begins with the name of a sub command chooses it: strncmp stops at
\* the end of the name, and no name is the beginning of another.
SubCommands == {"pause", "resume", "run", "status", "shutdown"}

Init == sub = "none" /\ RunInit /\ StatusInit

\* No argument, or one that begins with -h or --help, prints the help; a word that is
\* no sub command is refused.
Dispatch(word) ==
    /\ sub = "none"
    /\ sub' = word
    /\ IF word = "run" THEN StartRun ELSE UNCHANGED runVars
    /\ IF word = "status" THEN StartStatus ELSE UNCHANGED statusVars

Next ==
    \/ \E word \in SubCommands \cup {"help", "unrecognized"} : Dispatch(word)
    \/ sub = "run" /\ RunNext /\ UNCHANGED <<sub, statusVars>>
    \/ sub = "status" /\ StatusNext /\ UNCHANGED <<sub, runVars>>

Spec == Init /\ [][Next]_vars

TypeOK == sub \in SubCommands \cup {"none", "help", "unrecognized"} /\ RunTypeOK /\ StatusTypeOK
=============================================================================
