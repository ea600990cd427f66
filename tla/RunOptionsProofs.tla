--------------------------- MODULE RunOptionsProofs ---------------------------
(***************************************************************************)
(* What `mini_kvm run' makes of its options, for every line, every set of  *)
(* strings and every word size.                                            *)
(***************************************************************************)
EXTENDS CommandLine, ConversionsProofs

(* Sizes *)

LEMMA CharsNat == ASSUME NEW s \in Seq(Chars) PROVE s \in Seq(Nat)
  <1>1. \A i \in 1 .. Len(s) : s[i] \in Nat
    BY DEF Chars, Other
  <1>2. QED
    BY <1>1

\* A size ends with one unit or with none, which leaves the length of its number.
LEMMA UnitFacts ==
  ASSUME NEW s \in Seq(Chars)
  PROVE  /\ NumberLen(s) \in 0 .. Len(s) /\ ScaleOf(s) \in Nat
         /\ UnitOf(s) = {} => NumberLen(s) = Len(s)
         /\ UnitOf(s) # {} => /\ s # <<>> /\ NumberLen(s) = Len(s) - 1
                              /\ Last(s) \notin Digits
  <1>1. DOMAIN Unit = {"K", "M", "G"} /\ Unit["K"] = 11 /\ Unit["M"] = 12 /\ Unit["G"] = 13
    BY DEF Unit
  <1>2. CASE UnitOf(s) = {}
    <2>1. Cardinality(UnitOf(s)) = 0
      BY <1>2, FS_EmptySet
    <2>2. QED
      BY <1>2, <2>1 DEF NumberLen, ScaleOf
  <1>3. CASE UnitOf(s) # {}
    <2>1. PICK u \in UnitOf(s) : TRUE
      BY <1>3
    <2>2. u \in {"K", "M", "G"} /\ s # <<>> /\ Last(s) = Unit[u]
      BY <1>1 DEF UnitOf
    <2>3. UnitOf(s) = {u}
      BY <1>1, <2>1, <2>2 DEF UnitOf
    <2>4. Cardinality(UnitOf(s)) = 1
      BY <2>3, FS_Singleton
    <2>5. ScaleOf(s) \in Nat
      BY <1>3, <2>2, <2>3, ScaleAssumption DEF ScaleOf
    <2>6. Last(s) \notin Digits
      BY <1>1, <2>2 DEF Digits
    <2>7. Len(s) \in Nat \ {0}
      BY <2>2
    <2>8. QED
      BY <1>3, <2>2, <2>4, <2>5, <2>6, <2>7 DEF NumberLen
  <1>4. QED
    BY <1>2, <1>3

LEMMA RoundUpFacts == ASSUME NEW m \in Nat PROVE RoundUp(m) \in Nat /\ RoundUp(m) >= m
  <1>1. PageBits \in Nat
    BY PageBitsAssumption, WordFacts
  <1>2. PICK b \in Nat \ {0} : b = 2 ^ PageBits
    BY <1>1, Power
  <1>3. m % b \in 0 .. b - 1 /\ m % b <= m
    OBVIOUS
  <1>4. QED
    BY <1>2, <1>3 DEF RoundUp

LEMMA AskedType == ASSUME NEW s \in Seq(Chars) PROVE AskedMem(s) \in Nat
  <1>1. SubSeq(s, 1, NumberLen(s)) \in Seq(Nat)
    BY UnitFacts, CharsNat
  <1>2. Number(SubSeq(s, 1, NumberLen(s))) \in Nat
    BY <1>1, NumberType
  <1>3. 2 ^ ScaleOf(s) \in Nat
    BY UnitFacts, Power
  <1>4. Number(SubSeq(s, 1, NumberLen(s))) * 2 ^ ScaleOf(s) \in Nat
    BY <1>2, <1>3
  <1>5. QED
    BY <1>4, RoundUpFacts DEF AskedMem

\* is_uint looks at as many characters as it is told to, if there are as many.
LEMMA UintMeans ==
  ASSUME NEW s \in Seq(Chars), NEW n \in 0 .. Len(s)
  PROVE  is_uint(s, n) <=> ValidNumber(s, n)
  <1>1. Min({n, Len(s)}) = n
    BY MinOfTwo
  <1>2. QED
    BY <1>1 DEF is_uint, ValidNumber

\* parse_mem accepts numbers with a unit or none, and returns the size they ask for
\* as long as that fits a word.
LEMMA ParseMemFacts ==
  ASSUME NEW s \in Seq(Chars), NEW mem \in 0 .. Word - 1
  PROVE  LET p == parse_mem(s, mem)
         IN  /\ p.ret \in Ret /\ p.mem \in 0 .. Word - 1
             /\ p.ret = "SUCCESS" => /\ ValidSize(s)
                                     /\ AskedMem(s) < Word => p.mem = AskedMem(s)
  <1> DEFINE p == parse_mem(s, mem)
             n == NumberLen(s)
             N == Number(SubSeq(s, 1, n))
             accepted == /\ s # <<>> /\ ~(UnitOf(s) = {} /\ Last(s) \notin Digits)
                         /\ is_uint(s, n)
  <1>1. CASE ~accepted
    BY <1>1 DEF parse_mem, Ret
  <1>2. CASE accepted
    <2>1. n \in 0 .. Len(s)
      BY UnitFacts
    <2>2. ValidSize(s)
      BY <1>2, <2>1, UintMeans DEF ValidSize
    <2>3. strtoul(s) = N
      <3>1. \A i \in 1 .. n : s[i] \in Digits
        BY <2>2 DEF ValidSize, ValidNumber
      <3>2. CASE UnitOf(s) = {}
        <4>1. n = Len(s)
          BY <3>2, UnitFacts
        <4>2. SubSeq(s, 1, n) = s
          BY <4>1
        <4>3. strtoul(s) = Number(s)
          BY <3>1, <4>1, StrtoulFacts
        <4>4. QED
          BY <4>2, <4>3, Zenon
      <3>3. CASE UnitOf(s) # {}
        <4>1. n = Len(s) - 1 /\ Last(s) \notin Digits
          BY <3>3, UnitFacts
        <4>2. n \in 0 .. Len(s) - 1 /\ s[n + 1] \notin Digits
          BY <2>1, <4>1 DEF Last
        <4>3. QED
          BY <3>1, <4>2, StrtoulFacts
      <3>4. QED
        BY <3>2, <3>3
    <2>4. N \in Nat
      BY <2>3, StrtoulFacts
    <2>5. PICK k \in Nat \ {0} : k = 2 ^ ScaleOf(s)
      BY UnitFacts, Power
    <2>6. Word \in Nat /\ Word > 0
      BY WordFacts
    <2> DEFINE dst == to_uint(s, n).dst
    <2>7. dst = (IF N <= Word - 1 THEN N ELSE Word - 1) /\ dst \in 0 .. Word - 1
      BY <2>1, <2>3, UintType
    <2>8. p = [ret |-> "SUCCESS", mem |-> aligned_to_pages((dst * k) % Word)]
      BY <1>2, <2>5 DEF parse_mem
    <2> HIDE DEF N, dst
    <2>9. (dst * k) % Word \in 0 .. Word - 1
      BY <2>6, <2>7
    <2>10. aligned_to_pages((dst * k) % Word) \in 0 .. Word - 1
      <3>1. RoundUp((dst * k) % Word) \in Nat
        BY <2>9, RoundUpFacts
      <3>2. QED
        BY <2>6, <3>1 DEF aligned_to_pages
    <2>11. ASSUME AskedMem(s) < Word
           PROVE  aligned_to_pages((dst * k) % Word) = AskedMem(s)
      <3>1. AskedMem(s) = RoundUp(N * k)
        BY <2>5 DEF AskedMem, N
      <3>2. N * k \in Nat /\ N <= N * k
        BY <2>4
      <3>3. RoundUp(N * k) \in Nat /\ RoundUp(N * k) >= N * k
        BY <3>2, RoundUpFacts
      <3>4. N * k < Word /\ N <= Word - 1
        BY <2>4, <2>6, <2>11, <3>1, <3>2, <3>3
      <3>5. dst = N
        BY <2>7, <3>4
      <3>6. (N * k) % Word = N * k
        BY <2>6, <3>2, <3>4
      <3>7. RoundUp(N * k) % Word = RoundUp(N * k)
        BY <2>6, <2>11, <3>1, <3>3
      <3>8. QED
        BY <3>1, <3>5, <3>6, <3>7 DEF aligned_to_pages
    <2>12. QED
      BY <2>2, <2>8, <2>10, <2>11 DEF Ret
  <1>3. QED
    BY <1>1, <1>2

(* The line *)

LEMMA OptionFacts ==
  ASSUME NEW o \in RunOptionSet
  PROVE  /\ o.opt \in {"m", "v", "l", "k", "h"} /\ o.str \in Seq(Chars)
         /\ o.file \in {"none", "empty", "good", "bad"}
         /\ o.opt = "k" => o.file \in {"good", "bad"}
  <1>1. <<>> \in Seq(Chars)
    OBVIOUS
  <1>2. CASE o \in Option({"m"}, MemStrings, {"none"})
    <2>1. o.opt = "m" /\ o.str \in MemStrings /\ o.file = "none"
      BY <1>2 DEF Option
    <2>2. QED
      BY <2>1, RunStringsAssumption
  <1>3. CASE o \in Option({"v"}, VcpuStrings, {"none"})
    <2>1. o.opt = "v" /\ o.str \in VcpuStrings /\ o.file = "none"
      BY <1>3 DEF Option
    <2>2. QED
      BY <2>1, RunStringsAssumption
  <1>4. CASE o \in Option({"l"}, {<<>>}, {"none", "empty", "good", "bad"})
    BY <1>1, <1>4 DEF Option
  <1>5. CASE o \in Option({"k"}, {<<>>}, {"good", "bad"})
    BY <1>1, <1>5 DEF Option
  <1>6. CASE o \in Option({"h"}, {<<>>}, {"none"})
    BY <1>1, <1>6 DEF Option
  <1>7. QED
    BY <1>2, <1>3, <1>4, <1>5, <1>6 DEF RunOptionSet

LEMMA MaxIs == ASSUME NEW S \in SUBSET Int, NEW x \in S, \A y \in S : y <= x PROVE Max(S) = x
  <1>1. \A y \in S : x >= y
    OBVIOUS
  <1>2. Max(S) \in S /\ \A y \in S : Max(S) >= y
    BY <1>1 DEF Max
  <1>3. PICK m \in S : m = Max(S) /\ \A y \in S : m >= y
    BY <1>2
  <1>4. m <= x /\ m >= x /\ m \in Int /\ x \in Int
    BY <1>3
  <1>5. QED
    BY <1>3, <1>4

\* The last place of a letter is one of its places, or 0.
PosInv == \A l \in {"m", "v"} : LastPos(l) \in Positions(l) \cup {0}

\* An option that is read joins the places of its letter as the last one, and leaves the
\* other letters alone.
LEMMA PositionsStep ==
  ASSUME line \in Seq(RunOptionSet), NEW o \in RunOptionSet, line' = Append(line, o)
  PROVE  /\ line' \in Seq(RunOptionSet) /\ Len(line') = Len(line) + 1
         /\ line'[Len(line) + 1] = o /\ \A i \in 1 .. Len(line) : line'[i] = line[i]
         /\ \A l : /\ Positions(l) \subseteq 1 .. Len(line)
                   /\ Positions(l)' = IF o.opt = l THEN Positions(l) \cup {Len(line) + 1}
                                      ELSE Positions(l)
                   /\ LastPos(l)' = IF o.opt = l THEN Len(line) + 1 ELSE LastPos(l)
  <1>1. /\ line' \in Seq(RunOptionSet) /\ Len(line') = Len(line) + 1 /\ Len(line) \in Nat
        /\ line'[Len(line) + 1] = o /\ \A i \in 1 .. Len(line) : line'[i] = line[i]
        /\ DOMAIN line = 1 .. Len(line) /\ DOMAIN line' = 1 .. Len(line) + 1
    OBVIOUS
  <1>2. ASSUME NEW l
        PROVE  /\ Positions(l) \subseteq 1 .. Len(line)
               /\ Positions(l)' = IF o.opt = l THEN Positions(l) \cup {Len(line) + 1}
                                  ELSE Positions(l)
    <2>1. Positions(l) = {i \in 1 .. Len(line) : line[i].opt = l}
      BY <1>1 DEF Positions
    <2>2. Positions(l)' = {i \in 1 .. Len(line) + 1 : line'[i].opt = l}
      BY <1>1 DEF Positions
    <2>3. 1 .. Len(line) + 1 = (1 .. Len(line)) \cup {Len(line) + 1}
      BY <1>1
    <2>4. QED
      BY <1>1, <2>1, <2>2, <2>3
  <1>3. ASSUME NEW l PROVE LastPos(l)' = IF o.opt = l THEN Len(line) + 1 ELSE LastPos(l)
    <2>1. CASE o.opt # l
      BY <1>2, <2>1 DEF LastPos
    <2>2. CASE o.opt = l
      <3> DEFINE S == Positions(l)' \cup {0}
      <3>1. S \in SUBSET Int /\ Len(line) + 1 \in S /\ \A y \in S : y <= Len(line) + 1
        BY <1>1, <1>2, <2>2
      <3> HIDE DEF S
      <3>2. Max(S) = Len(line) + 1
        BY <3>1, MaxIs
      <3>3. QED
        BY <2>2, <3>2 DEF LastPos, S
    <2>3. QED
      BY <2>1, <2>2
  <1>4. QED
    BY <1>1, <1>2, <1>3

LEMMA PosStep ==
  ASSUME PosInv, line \in Seq(RunOptionSet), NEW o \in RunOptionSet, line' = Append(line, o)
  PROVE  PosInv'
  BY PositionsStep DEF PosInv

(* Types *)

LEMMA RunTypeInit == RunInit => RunTypeOK /\ PosInv
  <1> SUFFICES ASSUME RunInit PROVE RunTypeOK /\ PosInv
    OBVIOUS
  <1>1. 0 \in 0 .. Half - 1 /\ 0 \in 0 .. Word - 1
    BY WordFacts
  <1>2. args \in [log_enabled : BOOLEAN, vcpu : 0 .. Half - 1, mem_size : 0 .. Word - 1,
                  kernel : BOOLEAN]
    BY <1>1 DEF RunInit
  <1>3. line = <<>> /\ line \in Seq(RunOptionSet) /\ Len(line) = 0
    BY DEF RunInit
  <1>4. level \in {Levels[l] : l \in DOMAIN Levels}
    BY DEF RunInit, Levels
  <1>5. PosInv
    <2>1. \A l : Positions(l) = {}
      BY <1>3 DEF Positions
    <2>2. 0 \in {0} /\ {0} \in SUBSET Int /\ \A y \in {0} : y <= 0
      OBVIOUS
    <2>3. Max({0}) = 0
      BY <2>2, MaxIs
    <2>4. QED
      BY <2>1, <2>3 DEF PosInv, LastPos
  <1>6. QED
    BY <1>2, <1>3, <1>4, <1>5, MaxRunOptionsAssumption DEF RunInit, RunTypeOK, Ret

\* The store of -v keeps both fields in their types: it gives the lower half of the
\* size away and takes the upper half of the number for it.
LEMMA StoreFacts ==
  ASSUME RunTypeOK, NEW v \in 0 .. Word - 1
  PROVE  /\ StoreVcpu(v).vcpu = v % Half /\ StoreVcpu(v).vcpu \in 0 .. Half - 1
         /\ StoreVcpu(v).mem_size \in 0 .. Word - 1
         /\ StoreVcpu(v).mem_size \div Half = args.mem_size \div Half
         /\ v < Half => /\ StoreVcpu(v).vcpu = v
                        /\ StoreVcpu(v).mem_size = (args.mem_size \div Half) * Half
         /\ StoreVcpu(v).log_enabled = args.log_enabled /\ StoreVcpu(v).kernel = args.kernel
         /\ DOMAIN StoreVcpu(v) = DOMAIN args
  <1>1. PICK h \in Nat : h = Half /\ h >= 2 /\ Word = h * h
    BY WordFacts
  <1>2. PICK m \in 0 .. h * h - 1 : m = args.mem_size
    BY <1>1 DEF RunTypeOK
  <1>3. v \in 0 .. h * h - 1
    BY <1>1
  <1>4. /\ m \div h \in 0 .. h - 1 /\ v \div h \in 0 .. h - 1
        /\ v < h => v \div h = 0 /\ v % h = v
        /\ v % h \in 0 .. h - 1
    BY <1>1, <1>2, <1>3
  <1>5. PICK q \in 0 .. h - 1, r \in 0 .. h - 1 : q = m \div h /\ r = v \div h
    BY <1>4
  <1>6. q * h + r \in 0 .. h * h - 1 /\ (q * h + r) \div h = q
    <2>1. q * h <= (h - 1) * h
      BY <1>1, <1>5
    <2>2. (h - 1) * h = h * h - h
      BY <1>1
    <2>3. q * h \in Nat /\ h * h \in Nat
      BY <1>1, <1>5
    <2>4. q * h + r \in 0 .. h * h - 1
      BY <1>1, <1>5, <2>1, <2>2, <2>3
    <2>5. (q * h + r) \div h = q
      BY <1>1, <1>5
    <2>6. QED
      BY <2>4, <2>5
  <1>7. StoreVcpu(v) = [args EXCEPT !.vcpu = v % h, !.mem_size = q * h + r]
    BY <1>1, <1>2, <1>5 DEF StoreVcpu
  <1>8. /\ StoreVcpu(v).vcpu = v % h /\ StoreVcpu(v).mem_size = q * h + r
        /\ StoreVcpu(v).log_enabled = args.log_enabled /\ StoreVcpu(v).kernel = args.kernel
        /\ DOMAIN StoreVcpu(v) = DOMAIN args
    BY <1>7 DEF RunTypeOK
  <1>9. v < h => q * h + r = q * h
    BY <1>1, <1>4, <1>5
  <1>10. QED
    BY <1>1, <1>2, <1>4, <1>5, <1>6, <1>8, <1>9

LEMMA StartRunType == RunTypeOK /\ PosInv /\ StartRun => RunTypeOK' /\ PosInv'
  <1> SUFFICES ASSUME RunTypeOK, PosInv, StartRun PROVE RunTypeOK' /\ PosInv'
    OBVIOUS
  <1>1. RunTypeOK'
    BY DEF RunTypeOK, StartRun
  <1>2. PosInv'
    BY DEF PosInv, StartRun, LastPos, Positions
  <1>3. QED
    BY <1>1, <1>2

\* What every turn of the loop does, whatever the option.
LEMMA ReadFacts ==
  ASSUME RunTypeOK, NEW o \in RunOptionSet, NEW crashes \in BOOLEAN, Read(o, crashes)
  PROVE  /\ rpc' \in {"getopt", "crashed"} /\ (rpc' = "crashed" <=> crashes)
         /\ line' = Append(line, o) /\ line' \in Seq(RunOptionSet)
         /\ Len(line') <= MaxRunOptions /\ level' = level
         /\ rpc = "getopt" /\ ret # "ARGS_FAILED"
  BY MaxRunOptionsAssumption DEF Read, RunTypeOK

LEMMA RunTypeStep == RunTypeOK /\ PosInv /\ RunNext => RunTypeOK' /\ PosInv'
  <1> SUFFICES ASSUME RunTypeOK, PosInv, RunNext PROVE RunTypeOK' /\ PosInv'
    OBVIOUS
  <1> DEFINE Args == [log_enabled : BOOLEAN, vcpu : 0 .. Half - 1, mem_size : 0 .. Word - 1,
                      kernel : BOOLEAN]
  <1>1. CASE Parsed
    <2>1. PosInv'
      BY <1>1 DEF PosInv, Parsed, LastPos, Positions
    <2>2. 1 \in 0 .. Half - 1
      BY WordFacts
    <2>3. args' \in Args
      BY <1>1, <2>2 DEF RunTypeOK, Parsed
    <2>4. rpc' \in {"refused", "crashed", "setup"}
      BY <1>1 DEF Parsed
    <2> HIDE DEF Args
    <2>5. QED
      BY <1>1, <2>1, <2>3, <2>4 DEF RunTypeOK, Parsed, Args
  <1>2. ASSUME NEW o \in RunOptionSet, NEW crashes \in BOOLEAN, Read(o, crashes),
               args' \in Args, ret' \in Ret, output' \in {"stdout", "file", "null"}
        PROVE  RunTypeOK' /\ PosInv'
    <2>1. PosInv'
      BY <1>2, ReadFacts, PosStep DEF RunTypeOK
    <2>2. RunTypeOK'
      BY <1>2, ReadFacts DEF RunTypeOK
    <2>3. QED
      BY <2>1, <2>2
  <1>3. ASSUME NEW o \in RunOptionSet, MemOption(o) PROVE RunTypeOK' /\ PosInv'
    <2>1. PICK m \in 0 .. Word - 1 : m = args.mem_size
      BY DEF RunTypeOK
    <2>2. o.str \in Seq(Chars)
      BY OptionFacts
    <2>3. parse_mem(o.str, m).ret \in Ret /\ parse_mem(o.str, m).mem \in 0 .. Word - 1
      BY <2>2, ParseMemFacts
    <2>4. args' \in Args /\ ret' \in Ret /\ output' \in {"stdout", "file", "null"}
      BY <1>3, <2>1, <2>3 DEF MemOption, RunTypeOK
    <2>5. PICK crashes \in BOOLEAN : Read(o, crashes)
      BY <1>3, Zenon DEF MemOption
    <2>6. QED
      BY <1>2, <2>4, <2>5
  <1>4. ASSUME NEW o \in RunOptionSet, VcpuOption(o) PROVE RunTypeOK' /\ PosInv'
    <2>1. o.str \in Seq(Chars) /\ Len(o.str) \in Int
      BY OptionFacts
    <2>2. PICK v \in 0 .. Word - 1 : v = to_uint(o.str, Len(o.str)).dst
      BY <2>1, UintType
    <2>3. StoreVcpu(v) \in Args
      <3>1. StoreVcpu(v) = [args EXCEPT !.vcpu = StoreVcpu(v).vcpu,
                                        !.mem_size = StoreVcpu(v).mem_size]
        BY DEF StoreVcpu, RunTypeOK
      <3>2. QED
        BY <3>1, StoreFacts DEF RunTypeOK
    <2>4. args' \in Args /\ ret' \in Ret /\ output' \in {"stdout", "file", "null"}
      BY <1>4, <2>2, <2>3 DEF VcpuOption, VcpuResult, RunTypeOK, Ret
    <2>5. PICK crashes \in BOOLEAN : Read(o, crashes)
      BY <1>4, Zenon DEF VcpuOption
    <2>6. QED
      BY <1>2, <2>4, <2>5
  <1>5. ASSUME NEW o \in RunOptionSet, LogOption(o) PROVE RunTypeOK' /\ PosInv'
    <2>1. args' \in Args
      BY <1>5 DEF LogOption, RunTypeOK
    <2>2. ret' \in Ret /\ output' \in {"stdout", "file", "null"}
      BY <1>5, OptionFacts DEF LogOption, logger_set_output, RunTypeOK
    <2>3. QED
      BY <1>2, <1>5, <2>1, <2>2 DEF LogOption
  <1>6. ASSUME NEW o \in RunOptionSet, KernelOption(o) PROVE RunTypeOK' /\ PosInv'
    <2>1. args' \in Args
      <3>1. (o.file = "good") \in BOOLEAN
        OBVIOUS
      <3>2. QED
        BY <1>6, <3>1 DEF KernelOption, RunTypeOK
    <2>2. ret' \in Ret /\ output' \in {"stdout", "file", "null"}
      BY <1>6 DEF KernelOption, RunTypeOK, Ret
    <2>3. PICK crashes \in BOOLEAN : Read(o, crashes)
      BY <1>6, Zenon DEF KernelOption
    <2>4. QED
      BY <1>2, <2>1, <2>2, <2>3
  <1>7. ASSUME NEW o \in RunOptionSet, HelpOption(o) PROVE RunTypeOK' /\ PosInv'
    <2>1. args' \in Args /\ ret' \in Ret /\ output' \in {"stdout", "file", "null"}
      BY <1>7 DEF HelpOption, RunTypeOK, Ret
    <2>2. QED
      BY <1>2, <1>7, <2>1 DEF HelpOption
  <1>8. QED
    BY <1>1, <1>3, <1>4, <1>5, <1>6, <1>7 DEF RunNext

(* Options that are refused *)

\* A line that has not failed for good has no bad -v, -k or -h, and one that has not
\* failed at all has no bad size at its end; only such a line gets to the set-up.
BadInv ==
    /\ ret # "ARGS_FAILED" =>
           /\ \A i \in Positions("v") : ValidNumber(line[i].str, Len(line[i].str))
           /\ \A i \in Positions("k") : line[i].file = "good"
           /\ Positions("h") = {}
    /\ ret = "SUCCESS" /\ LastPos("m") # 0 => ValidSize(line[LastPos("m")].str)
    /\ rpc = "setup" => ret = "SUCCESS"

LEMMA BadInit == RunInit => BadInv
  <1> SUFFICES ASSUME RunInit PROVE BadInv
    OBVIOUS
  <1>1. \A l : Positions(l) = {}
    BY DEF RunInit, Positions
  <1>2. LastPos("m") = 0
    <2>1. LastPos("m") \in Positions("m") \cup {0}
      BY RunTypeInit DEF PosInv
    <2>2. QED
      BY <1>1, <2>1
  <1>3. QED
    BY <1>1, <1>2 DEF RunInit, BadInv

LEMMA BadStep ==
  ASSUME RunTypeOK, PosInv, BadInv, RunNext
  PROVE  BadInv'
  <1>1. CASE Parsed
    <2>1. UNCHANGED <<line, ret>> /\ (rpc' = "setup" => ret = "SUCCESS")
      BY <1>1 DEF Parsed
    <2>2. QED
      BY <2>1 DEF BadInv, Positions, LastPos
  <1>2. ASSUME NEW o \in RunOptionSet, NEW crashes \in BOOLEAN, Read(o, crashes),
               ret' # "ARGS_FAILED" => /\ o.opt = "v" => ValidNumber(o.str, Len(o.str))
                                       /\ o.opt = "k" => o.file = "good"
                                       /\ o.opt # "h",
               ret' = "SUCCESS" => IF o.opt = "m" THEN ValidSize(o.str) ELSE ret = "SUCCESS"
        PROVE  BadInv'
    <2>1. /\ line' = Append(line, o) /\ ret # "ARGS_FAILED" /\ rpc' # "setup"
          /\ line \in Seq(RunOptionSet)
      BY <1>2, ReadFacts DEF RunTypeOK
    <2>2. /\ line'[Len(line) + 1] = o /\ \A i \in 1 .. Len(line) : line'[i] = line[i]
          /\ \A l : /\ Positions(l) \subseteq 1 .. Len(line)
                    /\ Positions(l)' = IF o.opt = l THEN Positions(l) \cup {Len(line) + 1}
                                       ELSE Positions(l)
                    /\ LastPos(l)' = IF o.opt = l THEN Len(line) + 1 ELSE LastPos(l)
      BY <2>1, PositionsStep
    <2>3. ret' # "ARGS_FAILED" =>
              /\ \A i \in Positions("v")' : ValidNumber(line'[i].str, Len(line'[i].str))
              /\ \A i \in Positions("k")' : line'[i].file = "good"
              /\ Positions("h")' = {}
      BY <1>2, <2>1, <2>2 DEF BadInv
    <2>4. ret' = "SUCCESS" /\ LastPos("m")' # 0 => ValidSize(line'[LastPos("m")'].str)
      <3>1. CASE o.opt = "m"
        BY <1>2, <2>2, <3>1
      <3>2. CASE o.opt # "m"
        <4>1. LastPos("m")' = LastPos("m") /\ LastPos("m") \in (1 .. Len(line)) \cup {0}
          BY <2>2, <3>2 DEF PosInv
        <4>2. QED
          BY <1>2, <2>2, <3>2, <4>1 DEF BadInv
      <3>3. QED
        BY <3>1, <3>2
    <2>5. QED
      BY <2>1, <2>3, <2>4 DEF BadInv, ValidNumber, ValidSize
  <1>3. ASSUME NEW o \in RunOptionSet, MemOption(o) PROVE BadInv'
    <2>1. PICK m \in 0 .. Word - 1 : m = args.mem_size
      BY DEF RunTypeOK
    <2>2. o.str \in Seq(Chars)
      BY OptionFacts
    <2>3. ret' = parse_mem(o.str, m).ret /\ o.opt = "m"
      BY <1>3, <2>1 DEF MemOption
    <2>4. ret' = "SUCCESS" => ValidSize(o.str)
      BY <2>2, <2>3, ParseMemFacts
    <2>5. PICK crashes \in BOOLEAN : Read(o, crashes)
      BY <1>3, Zenon DEF MemOption
    <2>6. QED
      BY <1>2, <2>3, <2>4, <2>5
  <1>4. ASSUME NEW o \in RunOptionSet, VcpuOption(o) PROVE BadInv'
    <2>1. o.str \in Seq(Chars) /\ Len(o.str) \in 0 .. Len(o.str)
      BY OptionFacts
    <2>2. to_uint(o.str, Len(o.str)).stored = is_uint(o.str, Len(o.str))
      BY <2>1, UintType
    <2>3. is_uint(o.str, Len(o.str)) <=> ValidNumber(o.str, Len(o.str))
      BY <2>1, UintMeans
    <2>4. /\ ret' = IF is_uint(o.str, Len(o.str)) THEN ret ELSE "ARGS_FAILED"
          /\ o.opt = "v"
      BY <1>4, <2>2 DEF VcpuOption, VcpuResult
    <2>5. PICK crashes \in BOOLEAN : Read(o, crashes)
      BY <1>4, Zenon DEF VcpuOption
    <2>6. QED
      BY <1>2, <2>3, <2>4, <2>5
  <1>5. ASSUME NEW o \in RunOptionSet, LogOption(o) PROVE BadInv'
    BY <1>2, <1>5 DEF LogOption
  <1>6. ASSUME NEW o \in RunOptionSet, KernelOption(o) PROVE BadInv'
    <2>1. PICK crashes \in BOOLEAN : Read(o, crashes)
      BY <1>6, Zenon DEF KernelOption
    <2>2. o.opt = "k" /\ ret' = IF o.file = "bad" THEN "ARGS_FAILED" ELSE ret
      BY <1>6 DEF KernelOption
    <2>3. o.file \in {"good", "bad"}
      BY <2>2, OptionFacts
    <2>4. QED
      BY <1>2, <2>1, <2>2, <2>3
  <1>7. ASSUME NEW o \in RunOptionSet, HelpOption(o) PROVE BadInv'
    BY <1>2, <1>7 DEF HelpOption
  <1>8. QED
    BY <1>1, <1>3, <1>4, <1>5, <1>6, <1>7 DEF RunNext

(* Crashes *)

\* There is no output only after a --log whose file cannot be opened and that no later
\* one has replaced.
OutputInv ==
    output = "null" =>
        \E i \in Positions("l") :
            line[i].file = "bad" /\ \A j \in Positions("l") : j > i => line[j].file = "none"

LEMMA OutputMeansCrash == ASSUME OutputInv, output = "null" PROVE
        \E i \in DOMAIN line :
            /\ line[i].file = "bad"
            /\ line[i].opt = "k" \/ \A j \in Positions("l") : j > i => line[j].file = "none"
  BY DEF OutputInv, Positions

LEMMA CrashStep ==
  ASSUME RunTypeOK, OutputInv, CrashNeedsBadFile, RunNext
  PROVE  OutputInv' /\ CrashNeedsBadFile'
  <1>1. CASE Parsed
    <2>1. UNCHANGED <<line, output, level>>
      BY <1>1 DEF Parsed
    <2>2. OutputInv'
      BY <2>1 DEF OutputInv, Positions
    <2>3. rpc' = "crashed" => output = "null"
      BY <1>1 DEF Parsed, LogCrashes
    <2>4. CrashNeedsBadFile'
      BY <2>1, <2>3, OutputMeansCrash DEF CrashNeedsBadFile, Positions
    <2>5. QED
      BY <2>2, <2>4
  <1>2. ASSUME NEW o \in RunOptionSet, NEW crashes \in BOOLEAN, Read(o, crashes),
               crashes => (o.opt = "k" /\ o.file = "bad") \/ (o.opt # "l" /\ output = "null"),
               \/ o.opt # "l" /\ output' = output
               \/ o.opt = "l" /\ o.file = "none" /\ output' = output
               \/ o.opt = "l" /\ o.file \in {"empty", "good"} /\ output' # "null"
               \/ o.opt = "l" /\ o.file = "bad"
        PROVE  OutputInv' /\ CrashNeedsBadFile'
    <2>1. /\ line' = Append(line, o) /\ (rpc' = "crashed" <=> crashes)
          /\ line \in Seq(RunOptionSet) /\ Len(line) \in Nat
      BY <1>2, ReadFacts DEF RunTypeOK
    <2>2. /\ line'[Len(line) + 1] = o /\ \A i \in 1 .. Len(line) : line'[i] = line[i]
          /\ Positions("l") \subseteq 1 .. Len(line)
          /\ Positions("l")' = IF o.opt = "l" THEN Positions("l") \cup {Len(line) + 1}
                               ELSE Positions("l")
      BY <2>1, PositionsStep
    <2>3. DOMAIN line' = 1 .. Len(line) + 1
      BY <2>1
    <2>4. OutputInv'
      <3>1. CASE o.opt = "l" /\ o.file = "bad"
        <4>1. \A j \in Positions("l")' : ~ (j > Len(line) + 1)
          BY <2>1, <2>2, <3>1
        <4>2. QED
          BY <2>2, <3>1, <4>1 DEF OutputInv
      <3>2. CASE ~(o.opt = "l" /\ o.file = "bad")
        <4>1. SUFFICES ASSUME output' = "null" PROVE OutputInv'
          BY DEF OutputInv
        <4>2. output = "null" /\ (o.opt = "l" => o.file = "none")
          BY <1>2, <3>2, <4>1
        <4>3. PICK i \in Positions("l") :
                 line[i].file = "bad" /\ \A j \in Positions("l") : j > i => line[j].file = "none"
          BY <4>2 DEF OutputInv
        <4>4. i \in Positions("l")' /\ line'[i].file = "bad"
          BY <2>2, <4>3
        <4>5. \A j \in Positions("l")' : j > i => line'[j].file = "none"
          BY <2>2, <4>2, <4>3
        <4>6. QED
          BY <4>4, <4>5 DEF OutputInv
      <3>3. QED
        BY <3>1, <3>2
    <2>5. CrashNeedsBadFile'
      <3>1. SUFFICES ASSUME crashes PROVE CrashNeedsBadFile'
        BY <2>1 DEF CrashNeedsBadFile
      <3>2. CASE o.opt = "k" /\ o.file = "bad"
        <4>1. Len(line) + 1 \in DOMAIN line' /\ line'[Len(line) + 1] = o
          BY <2>1, <2>2, <2>3
        <4>2. QED
          BY <3>2, <4>1 DEF CrashNeedsBadFile
      <3>3. CASE o.opt # "l" /\ output = "null"
        <4>1. PICK i \in Positions("l") :
                 line[i].file = "bad" /\ \A j \in Positions("l") : j > i => line[j].file = "none"
          BY <3>3 DEF OutputInv
        <4>2. i \in DOMAIN line' /\ line'[i].file = "bad"
          BY <2>1, <2>2, <2>3, <4>1
        <4>3. \A j \in Positions("l")' : j > i => line'[j].file = "none"
          BY <2>2, <3>3, <4>1
        <4>4. QED
          BY <4>2, <4>3 DEF CrashNeedsBadFile
      <3>4. QED
        BY <1>2, <3>1, <3>2, <3>3
    <2>6. QED
      BY <2>4, <2>5
  <1>3. ASSUME NEW o \in RunOptionSet, MemOption(o) PROVE OutputInv' /\ CrashNeedsBadFile'
    <2>1. PICK crashes \in BOOLEAN : Read(o, crashes) /\ (crashes => output = "null")
      BY <1>3, Zenon DEF MemOption, LogCrashes
    <2>2. o.opt = "m" /\ output' = output
      BY <1>3 DEF MemOption
    <2>3. QED
      BY <1>2, <2>1, <2>2
  <1>4. ASSUME NEW o \in RunOptionSet, VcpuOption(o) PROVE OutputInv' /\ CrashNeedsBadFile'
    <2>1. PICK crashes \in BOOLEAN : Read(o, crashes) /\ (crashes => output = "null")
      BY <1>4, Zenon DEF VcpuOption, LogCrashes
    <2>2. o.opt = "v" /\ output' = output
      BY <1>4 DEF VcpuOption
    <2>3. QED
      BY <1>2, <2>1, <2>2
  <1>5. ASSUME NEW o \in RunOptionSet, LogOption(o) PROVE OutputInv' /\ CrashNeedsBadFile'
    <2>1. o.file \in {"none", "empty", "good", "bad"} /\ o.opt = "l" /\ Read(o, FALSE)
      BY <1>5, OptionFacts DEF LogOption
    <2>2. /\ o.file = "none" => output' = output
          /\ o.file \in {"empty", "good"} => output' # "null"
      BY <1>5 DEF LogOption, logger_set_output
    <2>3. QED
      BY <1>2, <2>1, <2>2
  <1>6. ASSUME NEW o \in RunOptionSet, KernelOption(o) PROVE OutputInv' /\ CrashNeedsBadFile'
    <2>1. PICK crashes \in BOOLEAN : Read(o, crashes) /\ (crashes => o.file = "bad")
      <3>1. Read(o, o.file = "bad") /\ (o.file = "bad") \in BOOLEAN
        BY <1>6, Zenon DEF KernelOption
      <3>2. QED
        BY <3>1, Zenon
    <2>2. o.opt = "k" /\ o.opt # "l" /\ output' = output
      BY <1>6 DEF KernelOption
    <2>3. crashes => (o.opt = "k" /\ o.file = "bad") \/ (o.opt # "l" /\ output = "null")
      BY <2>1, <2>2
    <2>4. QED
      BY <1>2, <2>1, <2>2, <2>3, Zenon
  <1>7. ASSUME NEW o \in RunOptionSet, HelpOption(o) PROVE OutputInv' /\ CrashNeedsBadFile'
    <2>1. Read(o, FALSE) /\ o.opt = "h" /\ output' = output
      BY <1>7 DEF HelpOption
    <2>2. QED
      BY <1>2, <2>1
  <1>8. QED
    BY <1>1, <1>3, <1>4, <1>5, <1>6, <1>7 DEF RunNext

(* Sizes of the VM *)

\* What the last -v and the last -m ask for.
Vcpus == IF LastPos("v") = 0 THEN 0 ELSE Number(line[LastPos("v")].str)
Mem == IF LastPos("m") = 0 THEN 0 ELSE AskedMem(line[LastPos("m")].str)

\* While options are read, the fields hold what was asked for, as far as it fits: after
\* a later -v, the upper half of the size at least.
MemInv ==
    IF LastPos("m") >= LastPos("v") THEN args.mem_size = Mem
    ELSE /\ args.mem_size \div Half = Mem \div Half
         /\ Vcpus < Half => args.mem_size = (Mem \div Half) * Half
SizeInv ==
    rpc \in {"idle", "getopt"} /\ ret # "ARGS_FAILED" =>
        /\ Vcpus < Half => args.vcpu = Vcpus
        /\ ret = "SUCCESS" /\ Mem < Word => MemInv

LEMMA AskedFacts ==
  ASSUME RunTypeOK, PosInv
  PROVE  Vcpus \in Nat /\ Mem \in Nat /\ LastPos("v") \in Nat /\ LastPos("m") \in Nat
  <1>1. \A l : Positions(l) \subseteq Nat
    BY DEF RunTypeOK, Positions
  <1>2. \A l \in {"m", "v"} : LastPos(l) \in Nat /\
            (LastPos(l) # 0 => LastPos(l) \in DOMAIN line /\ line[LastPos(l)] \in RunOptionSet)
    BY <1>1 DEF PosInv, Positions, RunTypeOK
  <1>3. Vcpus \in Nat
    <2>1. CASE LastPos("v") # 0
      <3>1. line[LastPos("v")].str \in Seq(Chars)
        BY <1>2, <2>1, OptionFacts
      <3>2. Number(line[LastPos("v")].str) \in Nat
        BY <3>1, CharsNat, NumberType
      <3>3. QED
        BY <2>1, <3>2 DEF Vcpus
    <2>2. QED
      BY <2>1 DEF Vcpus
  <1>4. Mem \in Nat
    <2>1. CASE LastPos("m") # 0
      <3>1. line[LastPos("m")].str \in Seq(Chars)
        BY <1>2, <2>1, OptionFacts
      <3>2. AskedMem(line[LastPos("m")].str) \in Nat
        BY <3>1, AskedType
      <3>3. QED
        BY <2>1, <3>2 DEF Mem
    <2>2. QED
      BY <2>1 DEF Mem
  <1>5. QED
    BY <1>2, <1>3, <1>4

LEMMA SizeInit == RunInit => SizeInv
  <1> SUFFICES ASSUME RunInit PROVE SizeInv
    OBVIOUS
  <1>1. \A l : Positions(l) = {}
    BY DEF RunInit, Positions
  <1>2. LastPos("m") = 0 /\ LastPos("v") = 0
    BY <1>1, RunTypeInit DEF PosInv
  <1>3. Vcpus = 0 /\ Mem = 0
    BY <1>2 DEF Vcpus, Mem
  <1>4. args.vcpu = 0 /\ args.mem_size = 0
    BY DEF RunInit
  <1>5. QED
    BY <1>2, <1>3, <1>4 DEF SizeInv, MemInv

LEMMA HalfFacts == ASSUME NEW m \in Nat PROVE (m \div Half) * Half = m - (m % Half)
  <1>1. PICK h \in Nat : h = Half /\ h >= 2
    BY WordFacts
  <1>2. m = (m \div h) * h + (m % h) /\ m \div h \in Nat /\ m % h \in 0 .. h - 1
    BY <1>1
  <1>3. (m \div h) * h \in Nat
    BY <1>1, <1>2
  <1>4. QED
    BY <1>1, <1>2, <1>3

LEMMA SizeStep ==
  ASSUME RunTypeOK, PosInv, BadInv, SizeInv, SizesAsAsked, RunNext
  PROVE  SizeInv' /\ SizesAsAsked'
  <1>0. /\ Half \in Nat /\ Half >= 2 /\ Word \in Nat
        /\ Vcpus \in Nat /\ Mem \in Nat /\ LastPos("v") \in Nat /\ LastPos("m") \in Nat
    BY WordFacts, AskedFacts
  <1>1. CASE Parsed
    <2>1. /\ rpc = "getopt" /\ UNCHANGED <<line, ret>>
          /\ rpc' \in {"refused", "crashed", "setup"} /\ (rpc' = "setup" => ret = "SUCCESS")
          /\ args'.vcpu = (IF args.vcpu = 0 THEN 1 ELSE args.vcpu)
          /\ args'.mem_size = args.mem_size
      BY <1>1 DEF Parsed, RunTypeOK
    <2>2. LastPos("v")' = LastPos("v") /\ LastPos("m")' = LastPos("m")
      BY <2>1 DEF LastPos, Positions
    <2>3. Vcpus' = Vcpus /\ Mem' = Mem
      BY <2>1, <2>2 DEF Vcpus, Mem
    <2>4. SizeInv'
      BY <2>1 DEF SizeInv
    <2>5. SizesAsAsked'
      <3>1. SUFFICES ASSUME rpc' = "setup" PROVE SizesAsAsked'
        BY DEF SizesAsAsked
      <3>2. /\ Vcpus < Half => args.vcpu = Vcpus
            /\ Mem < Word => MemInv
        BY <2>1, <3>1 DEF SizeInv
      <3>3. Vcpus < Half => args'.vcpu = Max({1, Vcpus})
        <4>1. {1, Vcpus} \in SUBSET Int /\ 1 \in {1, Vcpus} /\ Vcpus \in {1, Vcpus}
          BY <1>0
        <4>2. CASE Vcpus = 0
          <5>1. \A y \in {1, Vcpus} : y <= 1
            BY <4>2
          <5>2. Max({1, Vcpus}) = 1
            BY <4>1, <5>1, MaxIs
          <5>3. QED
            BY <2>1, <3>2, <4>2, <5>2
        <4>3. CASE Vcpus # 0
          <5>1. \A y \in {1, Vcpus} : y <= Vcpus
            BY <1>0, <4>3
          <5>2. Max({1, Vcpus}) = Vcpus
            BY <4>1, <5>1, MaxIs
          <5>3. QED
            BY <2>1, <3>2, <4>3, <5>2
        <4>4. QED
          BY <4>2, <4>3
      <3>4. /\ Mem < Word /\ LastPos("m") >= LastPos("v") => args'.mem_size = Mem
            /\ Mem < Word /\ Vcpus < Half /\ LastPos("m") < LastPos("v") =>
                   args'.mem_size = Mem - (Mem % Half)
        <4>1. (Mem \div Half) * Half = Mem - (Mem % Half)
          BY <1>0, HalfFacts
        <4>2. LastPos("m") < LastPos("v") => ~ (LastPos("m") >= LastPos("v"))
          BY <1>0
        <4>3. QED
          BY <2>1, <3>2, <4>1, <4>2 DEF MemInv
      <3>5. QED
        <4>1. SizesAsAsked' <=>
                (rpc' = "setup" =>
                   /\ Vcpus' < Half => args'.vcpu = Max({1, Vcpus'})
                   /\ Mem' < Word /\ LastPos("m")' >= LastPos("v")' => args'.mem_size = Mem'
                   /\ Mem' < Word /\ Vcpus' < Half /\ LastPos("m")' < LastPos("v")' =>
                          args'.mem_size = Mem' - (Mem' % Half))
          BY Zenon DEF SizesAsAsked, Vcpus, Mem
        <4>2. QED
          BY <2>2, <2>3, <3>3, <3>4, <4>1
    <2>6. QED
      BY <2>4, <2>5
  <1>2. ASSUME NEW o \in RunOptionSet, NEW crashes \in BOOLEAN, Read(o, crashes)
        PROVE  /\ rpc = "getopt" /\ rpc' \in {"getopt", "crashed"} /\ SizesAsAsked'
               /\ ret # "ARGS_FAILED" /\ Len(line) \in Nat
               /\ LastPos("v") <= Len(line) /\ LastPos("m") <= Len(line)
               /\ \A l \in {"m", "v"} :
                     LastPos(l)' = IF o.opt = l THEN Len(line) + 1 ELSE LastPos(l)
               /\ Vcpus' = IF o.opt = "v" THEN Number(o.str) ELSE Vcpus
               /\ Mem' = IF o.opt = "m" THEN AskedMem(o.str) ELSE Mem
    <2>1. /\ rpc = "getopt" /\ rpc' \in {"getopt", "crashed"} /\ ret # "ARGS_FAILED"
          /\ line' = Append(line, o) /\ line \in Seq(RunOptionSet) /\ Len(line) \in Nat
      BY <1>2, ReadFacts DEF RunTypeOK
    <2>2. SizesAsAsked'
      BY <2>1 DEF SizesAsAsked
    <2>3. /\ line'[Len(line) + 1] = o /\ \A i \in 1 .. Len(line) : line'[i] = line[i]
          /\ \A l : /\ Positions(l) \subseteq 1 .. Len(line)
                    /\ LastPos(l)' = IF o.opt = l THEN Len(line) + 1 ELSE LastPos(l)
      BY <2>1, PositionsStep
    <2>4. \A l \in {"m", "v"} : LastPos(l) \in (1 .. Len(line)) \cup {0}
      BY <2>3 DEF PosInv
    <2>5. Vcpus' = IF o.opt = "v" THEN Number(o.str) ELSE Vcpus
      <3>1. CASE o.opt = "v"
        <4>1. LastPos("v")' = Len(line) + 1 /\ Len(line) + 1 # 0
          BY <2>1, <2>3, <3>1
        <4>2. QED
          BY <2>3, <3>1, <4>1 DEF Vcpus
      <3>2. CASE o.opt # "v"
        <4>1. LastPos("v")' = LastPos("v")
          BY <2>3, <3>2
        <4>2. LastPos("v") # 0 => line'[LastPos("v")] = line[LastPos("v")]
          BY <2>3, <2>4
        <4>3. QED
          BY <3>2, <4>1, <4>2 DEF Vcpus
      <3>3. QED
        BY <3>1, <3>2
    <2>6. Mem' = IF o.opt = "m" THEN AskedMem(o.str) ELSE Mem
      <3>1. CASE o.opt = "m"
        <4>1. LastPos("m")' = Len(line) + 1 /\ Len(line) + 1 # 0
          BY <2>1, <2>3, <3>1
        <4>2. Mem' = AskedMem(line'[Len(line) + 1].str)
          BY <4>1, Zenon DEF Mem, AskedMem, RoundUp, NumberLen, ScaleOf, UnitOf
        <4>3. QED
          BY <2>3, <3>1, <4>2
      <3>2. CASE o.opt # "m"
        <4>1. LastPos("m")' = LastPos("m")
          BY <2>3, <3>2
        <4>2. LastPos("m") # 0 => line'[LastPos("m")] = line[LastPos("m")]
          BY <2>3, <2>4
        <4>3. QED
          BY <3>2, <4>1, <4>2 DEF Mem
      <3>3. QED
        BY <3>1, <3>2
    <2>7. LastPos("v") <= Len(line) /\ LastPos("m") <= Len(line)
      BY <2>1, <2>4
    <2>8. QED
      BY <2>1, <2>2, <2>3, <2>5, <2>6, <2>7
  <1>3. ASSUME NEW o \in RunOptionSet, MemOption(o) PROVE SizeInv' /\ SizesAsAsked'
    <2>1. PICK crashes \in BOOLEAN : Read(o, crashes)
      BY <1>3, Zenon DEF MemOption
    <2>2. PICK m \in 0 .. Word - 1 : m = args.mem_size
      BY DEF RunTypeOK
    <2>3. o.str \in Seq(Chars)
      BY OptionFacts
    <2>4. /\ ret' = parse_mem(o.str, m).ret /\ o.opt = "m"
          /\ args'.mem_size = parse_mem(o.str, m).mem /\ args'.vcpu = args.vcpu
      BY <1>3, <2>2 DEF MemOption, RunTypeOK
    <2>5. ret' = "SUCCESS" /\ AskedMem(o.str) < Word => args'.mem_size = AskedMem(o.str)
      BY <2>3, <2>4, ParseMemFacts
    <2>6. /\ Mem' = AskedMem(o.str) /\ Vcpus' = Vcpus
          /\ LastPos("m")' = Len(line) + 1 /\ LastPos("v")' = LastPos("v")
          /\ LastPos("v") <= Len(line) /\ Len(line) \in Nat
          /\ rpc = "getopt" /\ ret # "ARGS_FAILED" /\ SizesAsAsked'
      BY <1>2, <2>1, <2>4
    <2>7. LastPos("m")' >= LastPos("v")'
      BY <1>0, <2>6
    <2>8. Vcpus < Half => args.vcpu = Vcpus
      BY <2>6 DEF SizeInv
    <2>9. QED
      BY <2>4, <2>5, <2>6, <2>7, <2>8 DEF SizeInv, MemInv
  <1>4. ASSUME NEW o \in RunOptionSet, VcpuOption(o) PROVE SizeInv' /\ SizesAsAsked'
    <2>1. PICK crashes \in BOOLEAN : Read(o, crashes)
      BY <1>4, Zenon DEF VcpuOption
    <2>2. o.str \in Seq(Chars) /\ Len(o.str) \in 0 .. Len(o.str)
      BY OptionFacts
    <2>3. PICK v \in 0 .. Word - 1 : v = to_uint(o.str, Len(o.str)).dst
      BY <2>2, UintType
    <2>4. /\ o.opt = "v"
          /\ ~is_uint(o.str, Len(o.str)) => ret' = "ARGS_FAILED"
          /\ is_uint(o.str, Len(o.str)) => ret' = ret /\ args' = StoreVcpu(v)
      <3>1. to_uint(o.str, Len(o.str)).stored = is_uint(o.str, Len(o.str))
        BY <2>2, UintType
      <3>2. QED
        BY <1>4, <2>3, <3>1 DEF VcpuOption, VcpuResult
    <2>5. /\ Vcpus' = Number(o.str) /\ Mem' = Mem
          /\ LastPos("v")' = Len(line) + 1 /\ LastPos("m")' = LastPos("m")
          /\ LastPos("m") <= Len(line) /\ Len(line) \in Nat
          /\ rpc = "getopt" /\ ret # "ARGS_FAILED" /\ SizesAsAsked'
      BY <1>2, <2>1, <2>4
    <2>6. SUFFICES ASSUME is_uint(o.str, Len(o.str)) PROVE SizeInv'
      BY <2>4, <2>5 DEF SizeInv
    <2>7. strtoul(o.str) = Number(o.str) /\ Number(o.str) \in Nat
      <3>1. \A i \in 1 .. Len(o.str) : o.str[i] \in Digits
        BY <2>2, <2>6, UintMeans DEF ValidNumber
      <3>2. QED
        BY <2>2, <3>1, StrtoulFacts
    <2>8. Number(o.str) < Half => v = Number(o.str) /\ v < Half
      <3>1. v = IF Number(o.str) <= Word - 1 THEN Number(o.str) ELSE Word - 1
        BY <2>2, <2>3, <2>7, UintType
      <3>2. QED
        BY <2>7, <3>1, WordFacts
    <2>9. /\ args'.mem_size \div Half = args.mem_size \div Half
          /\ v < Half => args'.vcpu = v /\ args'.mem_size = (args.mem_size \div Half) * Half
      BY <2>4, <2>6, StoreFacts
    <2>10. ret' = "SUCCESS" /\ Mem < Word => args.mem_size \div Half = Mem \div Half
      BY <2>4, <2>5, <2>6 DEF SizeInv, MemInv
    <2>11. ~ (LastPos("m")' >= LastPos("v")')
      BY <1>0, <2>5
    <2>12. Vcpus' < Half => args'.vcpu = Vcpus'
      BY <2>5, <2>8, <2>9
    <2>13. ret' = "SUCCESS" /\ Mem' < Word => MemInv'
      BY <2>5, <2>8, <2>9, <2>10, <2>11 DEF MemInv
    <2>14. QED
      BY <2>12, <2>13 DEF SizeInv
  <1>5. ASSUME NEW o \in RunOptionSet, LogOption(o) \/ KernelOption(o) \/ HelpOption(o)
        PROVE  SizeInv' /\ SizesAsAsked'
    <2>1. /\ o.opt \notin {"m", "v"} /\ ret' \in {ret, "ARGS_FAILED"}
          /\ args'.vcpu = args.vcpu /\ args'.mem_size = args.mem_size
      BY <1>5 DEF LogOption, KernelOption, HelpOption, RunTypeOK
    <2>2. PICK crashes \in BOOLEAN : Read(o, crashes)
      BY <1>5, Zenon DEF LogOption, KernelOption, HelpOption
    <2>3. /\ Vcpus' = Vcpus /\ Mem' = Mem
          /\ LastPos("v")' = LastPos("v") /\ LastPos("m")' = LastPos("m")
          /\ rpc = "getopt" /\ ret # "ARGS_FAILED" /\ SizesAsAsked'
      BY <1>2, <2>1, <2>2
    <2>4. QED
      BY <2>1, <2>3 DEF SizeInv, MemInv
  <1>6. QED
    BY <1>1, <1>3, <1>4, <1>5 DEF RunNext
(* The invariant and the theorems *)

RunInv ==
    /\ RunTypeOK /\ PosInv /\ BadInv
    /\ OutputInv /\ CrashNeedsBadFile
    /\ SizeInv /\ SizesAsAsked

LEMMA RunInvInit == RunInit => RunInv
  <1> SUFFICES ASSUME RunInit PROVE RunInv
    OBVIOUS
  <1>1. OutputInv /\ CrashNeedsBadFile /\ SizesAsAsked
    BY DEF RunInit, OutputInv, CrashNeedsBadFile, SizesAsAsked
  <1>2. QED
    BY <1>1, RunTypeInit, BadInit, SizeInit DEF RunInv

\* Everything but the type depends on the line, the fields, the result and the output,
\* and on rpc only as far as it is "idle" or "getopt".
LEMMA RunInvFrame ==
  ASSUME RunInv, UNCHANGED <<args, ret, output, line>>,
         rpc' = rpc \/ (rpc = "idle" /\ rpc' = "getopt")
  PROVE  PosInv' /\ BadInv' /\ OutputInv' /\ CrashNeedsBadFile' /\ SizeInv' /\ SizesAsAsked'
  <1>1. \A l : Positions(l)' = Positions(l) /\ LastPos(l)' = LastPos(l)
    BY DEF Positions, LastPos
  <1>2. Vcpus' = Vcpus /\ Mem' = Mem
    BY <1>1 DEF Vcpus, Mem
  <1>3. PosInv' /\ BadInv'
    BY <1>1 DEF RunInv, PosInv, BadInv
  <1>4. OutputInv' /\ CrashNeedsBadFile'
    BY <1>1 DEF RunInv, OutputInv, CrashNeedsBadFile
  <1>5. SizeInv'
    <2>1. MemInv' = MemInv
      BY <1>1, <1>2 DEF MemInv
    <2>2. QED
      BY <1>2, <2>1 DEF RunInv, SizeInv
  <1>6. SizesAsAsked'
    <2>1. SUFFICES ASSUME rpc' = "setup" PROVE SizesAsAsked'
      BY DEF SizesAsAsked
    <2>2. rpc' = rpc
      BY <2>1
    <2>3. QED
      BY <1>1, <2>2, Zenon DEF RunInv, SizesAsAsked
  <1>7. QED
    BY <1>3, <1>4, <1>5, <1>6

LEMMA RunInvStep == RunInv /\ [Next]_vars => RunInv'
  <1> SUFFICES ASSUME RunInv, [Next]_vars PROVE RunInv'
    OBVIOUS
  <1>1. CASE StartRun
    <2>1. /\ UNCHANGED <<args, ret, output, line>>
          /\ rpc = "idle" /\ rpc' = "getopt"
      BY <1>1 DEF StartRun
    <2>2. RunTypeOK'
      BY <1>1, StartRunType DEF RunInv
    <2>3. QED
      BY <2>1, <2>2, RunInvFrame DEF RunInv
  <1>2. CASE RunNext
    <2>1. RunTypeOK' /\ PosInv'
      BY <1>2, RunTypeStep DEF RunInv
    <2>2. BadInv'
      BY <1>2, BadStep DEF RunInv
    <2>3. OutputInv' /\ CrashNeedsBadFile'
      BY <1>2, CrashStep DEF RunInv
    <2>4. SizeInv' /\ SizesAsAsked'
      BY <1>2, SizeStep DEF RunInv
    <2>5. QED
      BY <2>1, <2>2, <2>3, <2>4 DEF RunInv
  <1>3. CASE UNCHANGED runVars
    <2>1. UNCHANGED <<rpc, args, ret, output, level, line>>
      BY <1>3 DEF runVars
    <2>2. RunTypeOK'
      BY <2>1 DEF RunInv, RunTypeOK
    <2>3. QED
      BY <2>1, <2>2, RunInvFrame DEF RunInv
  <1>4. QED
    BY <1>1, <1>2, <1>3, Zenon DEF Next, Dispatch, vars

\* The invariant of run_parse_args holds for every line of options, whatever sub command
\* main dispatches to.
THEOREM RunInductive == Spec => []RunInv
  <1>1. Init => RunInv
    BY RunInvInit DEF Init
  <1>2. QED
    BY <1>1, RunInvStep, PTL DEF Spec

\* No bad option gets lost on the way to the set-up of the VM, whatever run_parse_args
\* reads after it, but for a bad size that a later good -m makes up for.
THEOREM BadOptionRefusedHolds == Spec => []BadOptionRefused
  <1>1. RunInv => BadOptionRefused
    BY DEF RunInv, BadInv, BadOptionRefused
  <1>2. QED
    BY <1>1, RunInductive, PTL

\* run_parse_args loses the program to a file that cannot be opened and to nothing else.
THEOREM CrashNeedsBadFileHolds == Spec => []CrashNeedsBadFile
  <1>1. RunInv => CrashNeedsBadFile
    BY DEF RunInv
  <1>2. QED
    BY <1>1, RunInductive, PTL

\* A VM that is set up has the memory of its last -m and the vCPUs of its last -v, as far
\* as the numbers fit and the 64-bit store of -v leaves the size alone.
THEOREM SizesAsAskedHolds == Spec => []SizesAsAsked
  <1>1. RunInv => SizesAsAsked
    BY DEF RunInv
  <1>2. QED
    BY <1>1, RunInductive, PTL
===============================================================================
