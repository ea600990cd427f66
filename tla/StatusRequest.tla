---------------------------- MODULE StatusRequest ----------------------------
(***************************************************************************)
(* `mini_kvm status' from its options to what it shows: status_parse_args, *)
(* status_build_command, the handlers of SHOW_STATE, SHOW_REGS and         *)
(* DUMP_MEM in the VM, mini_kvm_dump_mem and status_handle_command_result. *)
(* One turn of getopt_long or one command per step.  The connection, and a *)
(* VM that changes its state meanwhile, are the subject of Monitor and     *)
(* VmRuntime; -n is left out.                                              *)
(***************************************************************************)
EXTENDS Conversions

CONSTANTS
    MemSize,           \* kvm->mem_size, in bytes
    NVcpus,            \* kvm->vcpus->len
    DefaultWord, DefaultLine,  \* word_size and bytes_per_line of MEM_RANGE_DEFAULTS
    ListStrings,       \* arguments of -v and -m, for each place on the line
    MaxStatusOptions   \* bound: options on a line, at most the length of cmds

ASSUME MemSizeAssumption == MemSize \in 1 .. (Word \div 2) - 1
ASSUME NVcpusAssumption == NVcpus \in 1 .. LongBits
ASSUME MaxStatusOptionsAssumption == MaxStatusOptions \in 1 .. 7
ASSUME DefaultsAssumption == DefaultWord \in 1 .. Half - 1 /\ DefaultLine \in 1 .. Half - 1
ASSUME ListStringsAssumption ==
    DOMAIN ListStrings = 1 .. MaxStatusOptions /\ \A i \in 1 .. MaxStatusOptions : ListStrings[i] \subseteq Seq(Chars)

VARIABLES
    qpc,     \* control location
    sargs,   \* MiniKvmStatusArgs
    sret,
    paused,  \* kvm->state is PAUSED when the commands arrive
    regs,    \* res->regs: whose registers each entry holds
    sent,    \* how many commands have been answered
    shown,   \* what the last answer showed
    opts     \* history: the options read so far

statusVars == <<qpc, sargs, sret, paused, regs, sent, shown, opts>>

Bits == 0 .. LongBits - 1
NoRegs == -1
NoList == <<-1>>
Nothing == [cmd |-> "NONE", regs |-> {}, range |-> <<>>, bytes |-> {}]

StatusOptionSet(i) ==
    [opt : {"v", "m"}, str : ListStrings[i]] \cup [opt : {"r", "h"}, str : {<<>>}]

StatusTypeOK ==
    /\ qpc \in {"idle", "getopt", "send", "end", "trap"}
    /\ sargs.regs \in BOOLEAN
    /\ sargs.vcpus \subseteq Bits
    /\ sargs.cmds \in Seq({"SHOW_STATE", "SHOW_REGS", "DUMP_MEM"})
    /\ Len(sargs.cmds) <= MaxStatusOptions
    /\ sargs.mem_range = NoList \/ sargs.mem_range \in Seq(0 .. Word - 1)
    /\ sret \in Ret
    /\ paused \in BOOLEAN
    /\ regs \in [Bits -> -1 .. NVcpus - 1]
    /\ sent \in 0 .. MaxStatusOptions
    /\ DOMAIN shown = DOMAIN Nothing
    /\ Len(opts) <= MaxStatusOptions

\* args is zeroed; the VM, with its state and its res, is met in StatusParsed.
StatusInit ==
    /\ qpc = "idle"
    /\ sargs = [regs |-> FALSE, vcpus |-> {}, cmds |-> <<>>, mem_range |-> NoList]
    /\ sret = "SUCCESS"
    /\ paused = FALSE
    /\ regs = [b \in Bits |-> NoRegs]
    /\ sent = 0
    /\ shown = Nothing
    /\ opts = <<>>
------------------------------------------------------------------------------
(* status_parse_args *)

StartStatus ==
    /\ qpc = "idle" /\ qpc' = "getopt"
    /\ UNCHANGED <<sargs, sret, paused, regs, sent, shown, opts>>

\* One turn of the loop, with the result and the arguments it leaves.
Turn(o, r, a) ==
    /\ qpc = "getopt" /\ sret # "ARGS_FAILED"
    /\ Len(opts) < MaxStatusOptions
    /\ opts' = Append(opts, o)
    /\ sret' = r
    /\ sargs' = a
    /\ UNCHANGED <<qpc, paused, regs, sent, shown>>

RegsOption(o) ==
    /\ o.opt = "r"
    /\ Turn(o, sret, [sargs EXCEPT !.regs = TRUE, !.cmds = Append(@, "SHOW_REGS")])

VcpusOption(o) ==
    LET p == parse_cpu_list(o.str, sargs.vcpus)
    IN  /\ o.opt = "v"
        /\ Turn(o, IF p.ret = "SUCCESS" THEN sret ELSE "ARGS_FAILED",
                [sargs EXCEPT !.vcpus = p.mask])

\* There is one mem_range: a second -m replaces the list of the first.
RangeOption(o) ==
    LET p == parse_int_list(o.str)
    IN  /\ o.opt = "m"
        /\ Turn(o, IF p.ret = "SUCCESS" THEN sret ELSE "ARGS_FAILED",
                [sargs EXCEPT !.mem_range = p.list, !.cmds = Append(@, "DUMP_MEM")])

UsageOption(o) == o.opt = "h" /\ Turn(o, "ARGS_FAILED", sargs)

\* The mask when no list was given: `!0' is 1, the bit of vCPU 0.
DefaultMask == {0}

\* The loop ends and the defaults are filled in.  A line that is refused, or has no
\* -n, goes no further; otherwise the VM is there, paused or not.  It has one res for all
\* its clients, zeroed before the first: entry 0 holds what an earlier one read, if any.
StatusParsed ==
    /\ qpc = "getopt"
    /\ sargs' = [sargs EXCEPT
           !.vcpus = IF @ = {} /\ sargs.regs THEN DefaultMask ELSE @,
           !.cmds = IF @ = <<>> THEN <<"SHOW_STATE">> ELSE @]
    /\ qpc' \in IF sret = "SUCCESS" THEN {"send", "end"} ELSE {"end"}
    /\ paused' \in BOOLEAN
    /\ \E v \in -1 .. NVcpus - 1 : regs' = [regs EXCEPT ![0] = v]
    /\ UNCHANGED <<sret, sent, shown, opts>>
------------------------------------------------------------------------------
(* mini_kvm_dump_mem.  A request d has the start, the end, the word size and the    *)
(* bytes per line as the function gets them, the last two cut to 32 bits.           *)

Signed(x) == IF x >= Word \div 2 THEN x - Word ELSE x

\* start and end, aligned to words; the end is compared with the memory as a signed number
first(d) == d.start - (d.start % d.word)
aligned_end(d) == (IF d.end % d.word = 0 THEN d.end ELSE d.end - (d.end % d.word) + d.word) % Word
limit(d) == IF MemSize < Signed(aligned_end(d)) THEN MemSize ELSE aligned_end(d)

\* Mutation: the line that is not full is forgotten.
nb_lines_full(d) == (((limit(d) - first(d)) % Word) \div d.bpl) % Half

nb_lines(d) ==
    LET n == (limit(d) - first(d)) % Word
    IN  (n \div d.bpl + (IF n % d.bpl # 0 THEN 1 ELSE 0)) % Half

\* Words start at these bytes of a line; offset is a 32-bit number.
words(d) == {k \in 0 .. d.bpl - 1 : k % d.word = 0}
offset_of(d, line_nb, k) == (k + d.bpl * line_nb) % Half

\* Mutation: a line is always filled.
printed_all(d, line_nb, k) == TRUE

\* The line ends at the first word that lies beyond the end: a word AT the end is printed.
printed(d, line_nb, k) ==
    \A j \in words(d) : j <= k => (offset_of(d, line_nb, j) + first(d)) % Word <= limit(d)

\* word_offset counts down from word - 1 in a signed 32-bit number: a word of more than
\* 2^31 bytes makes it negative, and none of the word is printed.
word_offsets(d) == IF d.word <= Half \div 2 THEN 0 .. d.word - 1 ELSE {}

\* The bytes that are printed; the index of start_ptr, offset + word_offset is a 32-bit sum.
dump_mem(d) ==
    UNION {{first(d) + ((offset_of(d, p[1], p[2]) + w) % Half) : w \in word_offsets(d)} :
              p \in {q \in (0 .. nb_lines(d) - 1) \X words(d) : printed(d, q[1], q[2])}}
------------------------------------------------------------------------------
(* A command: status_build_command, the handler, status_handle_command_result *)

\* The next command is answered; what the client shows of it.
Answer(cmd, what) ==
    /\ qpc = "send"
    /\ sargs.cmds[sent + 1] = cmd
    /\ sent' = sent + 1
    /\ qpc' = IF sent + 1 = Len(sargs.cmds) THEN "end" ELSE "send"
    /\ shown' = what
    /\ UNCHANGED <<sargs, sret, paused, opts>>

ShowState == Answer("SHOW_STATE", [Nothing EXCEPT !.cmd = "SHOW_STATE"]) /\ UNCHANGED regs

Selected == sargs.vcpus \cap (0 .. NVcpus - 1)

\* Mutation: the loop of status_handle_regs starts at vCPU 1.
regs_read_from_one == IF Selected \ {0} = {} THEN regs ELSE [regs EXCEPT ![0] = Max(Selected \ {0})]

\* KVM_GET_REGS is given the start of res->regs for each selected vCPU in turn.
regs_read == IF Selected = {} THEN regs ELSE [regs EXCEPT ![0] = Max(Selected)]

\* The client shows the entry of every bit of the mask.  A VM that is not paused
\* answers with an error, and so does one whose KVM_GET_REGS fails on the way.
ShowRegs ==
    \/ /\ paused
       /\ regs' = regs_read
       /\ Answer("SHOW_REGS", [Nothing EXCEPT !.cmd = "SHOW_REGS",
                                              !.regs = {<<i, regs'[i]>> : i \in sargs.vcpus}])
    \/ /\ paused /\ Selected # {}
       /\ regs' \in {regs} \cup {[regs EXCEPT ![0] = v] : v \in Selected}
       /\ Answer("SHOW_REGS", Nothing)
    \/ ~paused /\ UNCHANGED regs /\ Answer("SHOW_REGS", Nothing)

\* status_build_command fills the list up; -1 stands for the end of the memory.
Request ==
    LET given == sargs.mem_range
        full == given \o SubSeq(<<0, Word - 1, DefaultWord, DefaultLine>>, Len(given) + 1, 4)
    IN  [start |-> full[1],
         end |-> IF full[2] = Word - 1 THEN MemSize ELSE full[2],
         word |-> full[3] % Half,
         bpl |-> full[4] % Half]

\* A VM that is not paused, or cannot open the client's standard output, answers with
\* an error.  A size of 0 is divided by: the VM ends; so it may when the word at the end
\* of the dump lies beyond the memory.
DumpMem ==
    \/ /\ Answer("DUMP_MEM", Nothing) /\ UNCHANGED regs
    \/ /\ paused /\ Request.word # 0 /\ Request.bpl # 0
       /\ Answer("DUMP_MEM", [Nothing EXCEPT !.cmd = "DUMP_MEM",
                                             !.range = <<first(Request), limit(Request)>>,
                                             !.bytes = dump_mem(Request)])
       /\ UNCHANGED regs
    \/ /\ paused
       /\ Request.word # 0 /\ Request.bpl # 0 => \E b \in dump_mem(Request) : b >= MemSize
       /\ qpc = "send" /\ sargs.cmds[sent + 1] = "DUMP_MEM"
       /\ qpc' = "trap"
       /\ UNCHANGED <<sargs, sret, paused, regs, sent, shown, opts>>

StatusNext ==
    \/ StatusParsed \/ ShowState \/ ShowRegs \/ DumpMem
    \/ Len(opts) < MaxStatusOptions /\ \E o \in StatusOptionSet(Len(opts) + 1) :
           RegsOption(o) \/ VcpusOption(o) \/ RangeOption(o) \/ UsageOption(o)
------------------------------------------------------------------------------
(* Properties *)

\* A list as its writer means it: the numbers between the commas.  The string is cut at
\* its commas and its two ends; field k lies between cuts k - 1 and k.
Cuts(s) == {0, Len(s) + 1} \cup {i \in DOMAIN s : s[i] = Comma}
Rank(s, c) == Cardinality({b \in Cuts(s) : b < c})
Cut(s, k) == CHOOSE c \in Cuts(s) : Rank(s, c) = k
NFields(s) == Cardinality(Cuts(s)) - 1
Fields(s) == [k \in 1 .. NFields(s) |-> SubSeq(s, Cut(s, k - 1) + 1, Cut(s, k) - 1)]
Denoted(s) == IF s = <<>> THEN <<>> ELSE [k \in DOMAIN Fields(s) |-> Number(Fields(s)[k])]
WellFormed(s) ==
    s # <<>> => /\ \A i \in DOMAIN s : s[i] \in Digits \cup {Comma}
                /\ Last(s) # Comma
                /\ \A k \in DOMAIN Denoted(s) : Denoted(s)[k] < Word

Given(letter) == {i \in DOMAIN opts : opts[i].opt = letter}

\* mini_kvm_parse_int_list accepts exactly the comma separated lists of numbers that
\* fit 64 bits, a missing number being 0 except at the end, and returns their numbers;
\* a line is refused for a malformed list or -h and nothing else; DUMP_MEM gets the
\* list of the last -m.
ListsAsWritten ==
    /\ (sret = "SUCCESS") <=> (Given("h") = {} /\ \A i \in DOMAIN opts : WellFormed(opts[i].str))
    /\ sret = "SUCCESS" =>
           sargs.mem_range = IF Given("m") = {} THEN NoList ELSE Denoted(opts[Max(Given("m"))].str)

\* The mask of a request is the set of the vCPUs its -v lists name, together, as long
\* as no number reaches the sign bit of an int.  What -r asks for when no list names a
\* vCPU is left out: the comment of status_parse_args says every vCPU, the code takes
\* vCPU 0 (DefaultMask).
MaskAsWritten ==
    qpc = "send" =>
        LET numbers == UNION {ToSet(Denoted(opts[i].str)) : i \in Given("v")}
        IN  (\A n \in numbers : n < IntBits - 1) /\ (numbers # {} \/ Given("r") = {}) =>
                sargs.vcpus = numbers

\* With no vCPU but vCPU 0 selected, status shows its registers under its number and
\* nobody else's; with any other it does not, since every vCPU is read into entry 0.
OwnRegsShown ==
    shown.cmd = "SHOW_REGS" /\ Selected \subseteq {0} =>
        /\ 0 \in sargs.vcpus => <<0, 0>> \in shown.regs
        /\ \A e \in shown.regs : e[2] \in {e[1], NoRegs}

\* A dump of sizes and addresses in the range the code provides for: less than 2^32
\* bytes, whose number of lines fits nb_lines even with one byte to the line, and lines
\* whose next word does not wrap the 32-bit `word'.
Dumped == shown.cmd = "DUMP_MEM"
Ordinary(d) ==
    /\ Signed(d.start) >= 0 /\ Signed(d.end) >= 0 /\ Signed(aligned_end(d)) >= 0
    /\ limit(d) - first(d) < Half
    /\ d.bpl <= Half - d.word

\* The dump has every byte of the memory between the start and the end asked for, in
\* words of up to 2^31 bytes; larger words are not printed at all (word_offsets).
DumpCoversRequest ==
    Dumped /\ Ordinary(Request) /\ Request.word <= Half \div 2 =>
        Request.start .. Min({Request.end, MemSize}) - 1 \subseteq shown.bytes

\* The dump stays between the addresses it announces but for the one word at its end,
\* and is empty when the start lies beyond the end or the memory.
DumpWithinHeader ==
    Dumped /\ Ordinary(Request) =>
        shown.bytes \subseteq
            IF shown.range[1] > shown.range[2] THEN {}
            ELSE shown.range[1] .. shown.range[2] + Request.word - 1
==============================================================================
