----------------------------- MODULE RunOptions -----------------------------
(***************************************************************************)
(* The options of `mini_kvm run': run_parse_args, parse_mem and the output *)
(* of the logger they write to, one turn of getopt_long per step.  -n only *)
(* stores a pointer and -d is read and ignored; both are left out.         *)
(***************************************************************************)
EXTENDS Conversions

CONSTANTS
    PageBits,     \* PAGE_SIZE as a power of two
    Scale,        \* the shifts of the units K, M and G
    MemStrings,   \* arguments of -m ...
    VcpuStrings,  \* ... and of -v
    MaxRunOptions \* bound: options on a line

ASSUME PageBitsAssumption == PageBits \in 1 .. IntBits - 1
ASSUME ScaleAssumption == Scale \in [{"K", "M", "G"} -> Nat \ {0}]
ASSUME RunStringsAssumption == MemStrings \subseteq Seq(Chars) /\ VcpuStrings \subseteq Seq(Chars)
ASSUME MaxRunOptionsAssumption == MaxRunOptions \in Nat

VARIABLES
    rpc,     \* control location
    args,    \* MiniKvmRunArgs
    ret,
    output,  \* where the logger writes; "null" after an fopen that failed
    level,   \* LOGGER_LEVEL
    line     \* history: the options read so far

runVars == <<rpc, args, ret, output, level, line>>

\* An option has a string (-m, -v) or a file (-k, -l): none given, empty, one that can
\* be opened or one that cannot.
Option(letters, strings, files) == [opt : letters, str : strings, file : files]
RunOptionSet ==
    UNION {Option({"m"}, MemStrings, {"none"}), Option({"v"}, VcpuStrings, {"none"}),
           Option({"l"}, {<<>>}, {"none", "empty", "good", "bad"}),
           Option({"k"}, {<<>>}, {"good", "bad"}), Option({"h"}, {<<>>}, {"none"})}

\* LoggerLevel, and the levels that are used here.
Levels == [TRACE |-> 0, INFO |-> 1, WARN |-> 2, ERROR |-> 3, DISABLE |-> 4]

RunTypeOK ==
    /\ rpc \in {"idle", "getopt", "setup", "refused", "crashed"}
    /\ args \in [log_enabled : BOOLEAN, vcpu : 0 .. Half - 1, mem_size : 0 .. Word - 1,
                 kernel : BOOLEAN]
    /\ ret \in Ret
    /\ output \in {"stdout", "file", "null"}
    /\ level \in {Levels[l] : l \in DOMAIN Levels}
    /\ line \in Seq(RunOptionSet) /\ Len(line) <= MaxRunOptions

\* logger_init has set the output to stdout; args is zeroed.
RunInit ==
    /\ rpc = "idle"
    /\ args = [log_enabled |-> FALSE, vcpu |-> 0, mem_size |-> 0, kernel |-> FALSE]
    /\ ret = "SUCCESS"
    /\ output = "stdout"
    /\ level = Levels.TRACE
    /\ line = <<>>

\* A log call at level l uses the output, if there is one.
LogCrashes(l) == Levels[l] >= level /\ output = "null"

RoundUp(m) == IF m % 2 ^ PageBits = 0 THEN m ELSE m - (m % 2 ^ PageBits) + 2 ^ PageBits

\* Mutation: sizes are rounded down.
aligned_down(m) == m - (m % 2 ^ PageBits)

\* aligned_to_pages, in the arithmetic of a word
aligned_to_pages(m) == RoundUp(m) % Word

\* The unit a size ends with, and the length of its number.
UnitOf(s) == {u \in DOMAIN Unit : s # <<>> /\ Last(s) = Unit[u]}
NumberLen(s) == Len(s) - Cardinality(UnitOf(s))
ScaleOf(s) == IF UnitOf(s) = {} THEN 0 ELSE Scale[CHOOSE u \in UnitOf(s) : TRUE]

\* parse_mem: the result and what *mem becomes.  The result of mini_kvm_to_uint is
\* not looked at, and the shift drops what does not fit.
parse_mem(s, mem) ==
    IF s = <<>> THEN [ret |-> "FAILED", mem |-> mem]
    ELSE IF UnitOf(s) = {} /\ Last(s) \notin Digits THEN [ret |-> "ARGS_FAILED", mem |-> mem]
    ELSE IF ~is_uint(s, NumberLen(s)) THEN [ret |-> "FAILED", mem |-> mem]
    ELSE [ret |-> "SUCCESS",
          mem |-> aligned_to_pages((to_uint(s, NumberLen(s)).dst * 2 ^ ScaleOf(s)) % Word)]
-----------------------------------------------------------------------------
(* run_parse_args *)

\* LOGGER_LEVEL is what logger_init found in the environment.
StartRun ==
    /\ rpc = "idle" /\ rpc' = "getopt"
    /\ level' \in {Levels[l] : l \in DOMAIN Levels}
    /\ UNCHANGED <<args, ret, output, line>>

\* One turn of the loop: option o is read; the program goes on unless it crashes.
Read(o, crashes) ==
    /\ rpc = "getopt" /\ ret # "ARGS_FAILED"
    /\ Len(line) < MaxRunOptions
    /\ line' = Append(line, o)
    /\ rpc' = IF crashes THEN "crashed" ELSE "getopt"
    /\ UNCHANGED level

\* The result of an earlier -m is overwritten.
MemOption(o) ==
    LET p == parse_mem(o.str, args.mem_size)
    IN  /\ o.opt = "m"
        /\ Read(o, p.ret # "SUCCESS" /\ LogCrashes("ERROR"))
        /\ ret' = p.ret
        /\ args' = [args EXCEPT !.mem_size = p.mem]
        /\ UNCHANGED output

\* Mutation: the whole number ends up in vcpu.
StoreVcpuWhole(v) == [args EXCEPT !.vcpu = v]

\* What a 64-bit store at &args->vcpu does: mem_size is the next field.
StoreVcpu(v) ==
    [args EXCEPT !.vcpu = v % Half, !.mem_size = (@ \div Half) * Half + v \div Half]

\* Mutation: -v only reports its error.
VcpuResultKept(conv) == ret

VcpuResult(conv) == IF conv.stored THEN ret ELSE "ARGS_FAILED"

VcpuOption(o) ==
    LET conv == to_uint(o.str, Len(o.str))
    IN  /\ o.opt = "v"
        /\ Read(o, ~conv.stored /\ LogCrashes("ERROR"))
        /\ ret' = VcpuResult(conv)
        /\ args' = IF conv.stored THEN StoreVcpu(conv.dst) ELSE args
        /\ UNCHANGED output

\* Mutation: the empty path is opened too.
logger_set_output_any(file) == IF file = "good" THEN "file" ELSE "null"

\* The output after logger_set_output: a file that cannot be opened leaves none.
logger_set_output(file) ==
    CASE file = "empty" -> "stdout"
      [] file = "good" -> "file"
      [] file = "bad" -> "null"

\* Without an argument the output stays.
LogOption(o) ==
    /\ o.opt = "l"
    /\ Read(o, FALSE)
    /\ args' = [args EXCEPT !.log_enabled = TRUE]
    /\ output' = IF o.file = "none" THEN output ELSE logger_set_output(o.file)
    /\ UNCHANGED ret

\* A kernel that cannot be opened is reported, and fseek is called on it all the same.
KernelOption(o) ==
    /\ o.opt = "k"
    /\ Read(o, o.file = "bad")
    /\ ret' = IF o.file = "bad" THEN "ARGS_FAILED" ELSE ret
    /\ args' = [args EXCEPT !.kernel = (o.file = "good")]
    /\ UNCHANGED output

HelpOption(o) ==
    /\ o.opt = "h"
    /\ Read(o, FALSE)
    /\ ret' = "ARGS_FAILED"
    /\ UNCHANGED <<args, output>>

\* The loop ends; mini_kvm_run announces the start or gives up.
Parsed ==
    /\ rpc = "getopt"
    /\ args' = [args EXCEPT !.vcpu = IF @ = 0 THEN 1 ELSE @]
    /\ rpc' = IF ret # "SUCCESS" THEN "refused"
              ELSE IF LogCrashes("INFO") THEN "crashed" ELSE "setup"
    /\ UNCHANGED <<ret, output, level, line>>

RunNext ==
    \/ Parsed
    \/ \E o \in RunOptionSet :
           MemOption(o) \/ VcpuOption(o) \/ LogOption(o) \/ KernelOption(o) \/ HelpOption(o)
-----------------------------------------------------------------------------
(* Properties *)

Positions(o) == {i \in DOMAIN line : line[i].opt = o}
LastPos(o) == Max(Positions(o) \cup {0})

\* The size a string asks for, in unbounded arithmetic.
AskedMem(s) == RoundUp(Number(SubSeq(s, 1, NumberLen(s))) * 2 ^ ScaleOf(s))

\* A VM that is set up has the memory its last -m asked for, in whole pages, and the
\* vCPUs of its last -v, one if there is none - as long as the numbers fit their
\* fields.  When the last -v comes after it, only the upper half of the size is left:
\* the 64-bit store through &args->vcpu clears the lower one.
SizesAsAsked ==
    rpc = "setup" =>
        LET m == LastPos("m")
            v == LastPos("v")
            vcpus == IF v = 0 THEN 0 ELSE Number(line[v].str)
            mem == IF m = 0 THEN 0 ELSE AskedMem(line[m].str)
        IN  /\ vcpus < Half => args.vcpu = Max({1, vcpus})
            /\ mem < Word /\ m >= v => args.mem_size = mem
            /\ mem < Word /\ vcpus < Half /\ m < v =>
                   args.mem_size = mem - (mem % Half)

\* What a line must look like: a number, with a unit for -m.
ValidNumber(s, n) == \A i \in 1 .. n : s[i] \in Digits
ValidSize(s) == s # <<>> /\ ValidNumber(s, NumberLen(s))

\* No bad option gets lost on the way to the set-up, whatever comes after it, with one
\* exception: a later good -m makes up for a bad size (not for an unknown unit).
BadOptionRefused ==
    rpc = "setup" =>
        /\ \A i \in Positions("v") : ValidNumber(line[i].str, Len(line[i].str))
        /\ \A i \in Positions("k") : line[i].file = "good"
        /\ Positions("h") = {}
        /\ LastPos("m") # 0 => ValidSize(line[LastPos("m")].str)

\* The program is lost to a file that cannot be opened and to nothing else: the kernel,
\* or a log file no later --log has replaced.
CrashNeedsBadFile ==
    rpc = "crashed" =>
        \E i \in DOMAIN line :
            /\ line[i].file = "bad"
            /\ line[i].opt = "k"
               \/ \A j \in Positions("l") : j > i => line[j].file = "none"
=============================================================================
