------------------------- MODULE StatusRequestProofs -------------------------
(***************************************************************************)
(* What `mini_kvm status' makes of its options and of the answers of the   *)
(* VM, for every line, every set of strings and every word size.           *)
(***************************************************************************)
EXTENDS RunOptionsProofs

(* mini_kvm_dump_mem *)

\* The requests that get to the loops: a size of 0 ends the VM before.
Requests == [start : 0 .. Word - 1, end : 0 .. Word - 1, word : 1 .. Half - 1, bpl : 1 .. Half - 1]

\* Division with remainder, by a number that is not 0.
LEMMA Division ==
  ASSUME NEW a \in Nat, NEW b \in Nat \ {0}
  PROVE  /\ a \div b \in Nat /\ a % b \in 0 .. b - 1
         /\ a = b * (a \div b) + (a % b)
         /\ a \div b <= a /\ a % b <= a /\ b * (a \div b) \in Nat
  <1>1. /\ a \div b \in Nat /\ a % b \in 0 .. b - 1
        /\ a = b * (a \div b) + (a % b)
    OBVIOUS
  <1>2. PICK q \in Nat : q = a \div b
    BY <1>1
  <1>3. b * q \in Nat /\ b * q >= q
    OBVIOUS
  <1>4. QED
    BY <1>1, <1>2, <1>3

LEMMA Remainder == ASSUME NEW a \in Nat, NEW b \in Nat \ {0} PROVE a % b \in 0 .. b - 1 /\ a % b <= a
  BY Division

LEMMA Quotient ==
  ASSUME NEW b \in Nat \ {0}, NEW q \in Nat, NEW p \in Nat, NEW r \in 0 .. b - 1,
         b * q + r < b * p
  PROVE  q < p
  <1>1. SUFFICES ASSUME q >= p PROVE FALSE
    OBVIOUS
  <1>2. PICK e \in Nat : q = p + e
    BY <1>1
  <1>3. b * q = b * p + b * e /\ b * e \in Nat /\ b * p \in Nat
    BY <1>2
  <1>4. QED
    BY <1>3

\* A number without its remainder is a multiple.
LEMMA Aligned == ASSUME NEW a \in Nat, NEW b \in Nat \ {0} PROVE (a - (a % b)) % b = 0
  <1>1. a - (a % b) = b * (a \div b) /\ a \div b \in Nat
    BY Division
  <1>2. PICK q \in Nat : q = a \div b
    BY <1>1
  <1>3. b * q \in Nat
    OBVIOUS
  <1>4. /\ (b * q) \div b \in Nat /\ (b * q) % b \in 0 .. b - 1
        /\ b * q = b * ((b * q) \div b) + ((b * q) % b)
    BY <1>3, Division
  <1>5. PICK p \in Nat, r \in 0 .. b - 1 : p = (b * q) \div b /\ r = (b * q) % b
    BY <1>4
  <1>6. b * q = b * p + r
    BY <1>4, <1>5
  <1>7. r = 0
    <2>1. CASE p < q
      <3>1. PICK e \in Nat : q = p + 1 + e
        BY <2>1
      <3>2. b * q = b * p + b + b * e /\ b * e \in Nat /\ b * p \in Nat
        BY <3>1
      <3>3. QED
        BY <1>6, <3>2
    <2>2. CASE p >= q
      <3>1. PICK e \in Nat : p = q + e
        BY <2>2
      <3>2. b * p = b * q + b * e /\ b * e \in Nat
        BY <3>1
      <3>3. QED
        BY <1>3, <1>6, <3>2
    <2>3. QED
      BY <2>1, <2>2
  <1>8. QED
    BY <1>1, <1>2, <1>5, <1>7

LEMMA Unwrapped == ASSUME NEW a \in Nat, NEW b \in Nat, a < b PROVE a % b = a
  OBVIOUS

\* Below half the range of a word nothing is negative, and a 32-bit number can be added
\* to an address without leaving the word.
LEMMA RangeFacts ==
  /\ Word \div 2 \in Nat /\ Half <= Word \div 2 /\ (Word \div 2) + Half <= Word
  /\ \A x \in 0 .. Word - 1 : Signed(x) >= 0 <=> x < Word \div 2
  <1>1. Word \in Nat /\ Half \in Nat /\ 2 * Half <= Word
    BY WordFacts
  <1>2. PICK w \in Nat : w = Word
    BY <1>1
  <1>3. w \div 2 \in Nat /\ 2 * (w \div 2) <= w /\ w <= 2 * (w \div 2) + 1
    OBVIOUS
  <1>4. Half <= w \div 2 /\ (w \div 2) + Half <= w
    BY <1>1, <1>2, <1>3
  <1>5. \A x \in 0 .. w - 1 : (IF x >= w \div 2 THEN x - w ELSE x) >= 0 <=> x < w \div 2
    BY <1>3
  <1>6. QED
    BY <1>2, <1>3, <1>4, <1>5 DEF Signed

\* The addresses of an ordinary dump are the ones unbounded arithmetic would give.
LEMMA OrdinaryFacts ==
  ASSUME NEW d \in Requests, Ordinary(d)
  PROVE  /\ first(d) \in 0 .. d.start /\ first(d) < Word \div 2
         /\ limit(d) \in 0 .. (Word \div 2) - 1
         /\ \A b \in Nat : b < d.end /\ b < MemSize => b < limit(d)
  <1>1. PICK st \in Nat, en \in Nat, wd \in Nat \ {0} :
           /\ st = d.start /\ en = d.end /\ wd = d.word
           /\ st < Word \div 2 /\ en < Word \div 2 /\ wd < Half
    BY RangeFacts, WordFacts DEF Requests, Ordinary
  <1>2. first(d) \in 0 .. d.start /\ first(d) < Word \div 2
    <2>1. st % wd \in Nat /\ st % wd <= st
      BY Remainder
    <2>2. first(d) = st - (st % wd)
      BY <1>1 DEF first
    <2>3. QED
      BY <1>1, <2>1, <2>2, RangeFacts
  <1>3. PICK e \in Nat : e = IF en % wd = 0 THEN en ELSE en - (en % wd) + wd
    <2>1. en % wd \in Nat /\ en % wd <= en
      BY Remainder
    <2>2. QED
      BY <2>1
  <1>4. e >= en /\ e < Word
    <2>1. en % wd \in 0 .. wd - 1
      BY Remainder
    <2>2. en < Word /\ en + wd < Word
      BY <1>1, RangeFacts, WordFacts
    <2>3. QED
      BY <1>1, <1>3, <2>1, <2>2, WordFacts
  <1>5. aligned_end(d) = e
    <2>1. e % Word = e
      BY <1>4, Unwrapped, WordFacts
    <2>2. QED
      BY <1>1, <1>3, <2>1 DEF aligned_end
  <1>6. e < Word \div 2 /\ Signed(e) = e
    <2>1. e \in 0 .. Word - 1 /\ Signed(e) >= 0
      BY <1>4, <1>5, WordFacts DEF Ordinary
    <2>2. e < Word \div 2
      BY <2>1, RangeFacts
    <2>3. QED
      BY <2>2, RangeFacts DEF Signed
  <1>7. limit(d) = IF MemSize < e THEN MemSize ELSE e
    BY <1>5, <1>6 DEF limit
  <1>8. MemSize \in Nat /\ MemSize <= (Word \div 2) - 1
    BY MemSizeAssumption, RangeFacts
  <1>9. limit(d) \in 0 .. (Word \div 2) - 1
    BY <1>6, <1>7, <1>8, RangeFacts
  <1>10. \A b \in Nat : b < d.end /\ b < MemSize => b < limit(d)
    BY <1>1, <1>4, <1>7, <1>8
  <1>11. QED
    BY <1>2, <1>9, <1>10

LEMMA OffsetFacts ==
  ASSUME NEW d \in Requests, NEW n \in Nat, NEW k \in Nat
  PROVE  offset_of(d, n, k) \in 0 .. Half - 1
  <1>1. d.bpl \in Nat
    BY WordFacts DEF Requests
  <1>2. PICK x \in Nat : x = k + d.bpl * n
    BY <1>1
  <1>3. x % Half \in 0 .. Half - 1
    BY WordFacts
  <1>4. QED
    BY <1>2, <1>3 DEF offset_of

LEMMA DumpWithin ==
  ASSUME NEW d \in Requests, Ordinary(d)
  PROVE  dump_mem(d) \subseteq IF first(d) > limit(d) THEN {} ELSE first(d) .. limit(d) + d.word - 1
  <1>1. SUFFICES ASSUME NEW b \in dump_mem(d)
                 PROVE  first(d) <= limit(d) /\ b \in first(d) .. limit(d) + d.word - 1
    <2>1. first(d) \in Int /\ limit(d) \in Int
      BY OrdinaryFacts
    <2>2. QED
      BY <1>1, <2>1
  <1>2. PICK q \in (0 .. nb_lines(d) - 1) \X words(d) :
           printed(d, q[1], q[2]) /\ b \in {first(d) + ((offset_of(d, q[1], q[2]) + w) % Half) : w \in word_offsets(d)}
    BY <1>1 DEF dump_mem
  <1>3. PICK n \in 0 .. nb_lines(d) - 1, k \in words(d) :
           printed(d, n, k) /\ b \in {first(d) + ((offset_of(d, n, k) + w) % Half) : w \in word_offsets(d)}
    BY <1>2
  <1>4. PICK w \in 0 .. d.word - 1 : b = first(d) + ((offset_of(d, n, k) + w) % Half)
    BY <1>3 DEF word_offsets
  <1>5. n \in Nat /\ k \in Nat /\ d.word \in Nat
    BY <1>3, WordFacts DEF words, Requests
  <1>6. PICK f \in Nat, x \in Nat : f = first(d) /\ x = offset_of(d, n, k) /\ f < Word \div 2 /\ x < Half
    BY <1>5, OrdinaryFacts, OffsetFacts, WordFacts
  <1>7. (x + f) % Word <= limit(d)
    <2>1. k <= k
      BY <1>5
    <2>2. QED
      BY <1>3, <1>6, <2>1 DEF printed
  <1>8. x + f < Word /\ (x + f) % Word = x + f
    <2>1. x + f < Word /\ x + f \in Nat
      BY <1>6, RangeFacts, WordFacts
    <2>2. QED
      BY <2>1, Unwrapped, WordFacts
  <1>9. limit(d) \in Nat
    BY OrdinaryFacts
  <1>10. f <= limit(d) /\ f + ((x + w) % Half) \in f .. limit(d) + d.word - 1
    <2>1. w \in Nat /\ w <= d.word - 1
      BY <1>4, <1>5
    <2>2. PICK y \in Nat : y = (x + w) % Half /\ y <= x + w
      <3>1. PICK a \in Nat, h \in Nat \ {0} : a = x + w /\ h = Half
        BY <1>6, <2>1, WordFacts
      <3>2. a % h \in 0 .. h - 1 /\ a % h <= a
        BY Remainder
      <3>3. QED
        BY <3>1, <3>2
    <2>3. QED
      BY <1>5, <1>6, <1>7, <1>8, <1>9, <2>1, <2>2
  <1>11. QED
    BY <1>4, <1>6, <1>10

\* The number of lines covers every offset before the end, and does not wrap.
LEMMA LinesFacts ==
  ASSUME NEW n \in Nat, NEW o \in Nat, NEW b \in Nat \ {0}, o < n,
         NEW lines, lines = n \div b + (IF n % b # 0 THEN 1 ELSE 0)
  PROVE  lines \in Nat /\ lines <= n /\ o \div b \in Nat /\ o \div b < lines
  <1>1. PICK q \in Nat, r \in 0 .. b - 1 : q = n \div b /\ r = n % b /\ n = b * q + r
    <2>1. n \div b \in Nat /\ n % b \in 0 .. b - 1 /\ n = b * (n \div b) + (n % b)
      BY Division
    <2>2. QED
      BY <2>1, Zenon
  <1>2. PICK p \in Nat, s \in 0 .. b - 1 : p = o \div b /\ s = o % b /\ o = b * p + s
    <2>1. o \div b \in Nat /\ o % b \in 0 .. b - 1 /\ o = b * (o \div b) + (o % b)
      BY Division
    <2>2. QED
      BY <2>1, Zenon
  <1>3. b * q \in Nat /\ b * q >= q
    OBVIOUS
  <1>4. CASE r = 0
    <2>1. b * p + s < b * q
      BY <1>1, <1>2, <1>3, <1>4
    <2>2. p < q
      BY <2>1, Quotient
    <2>3. QED
      BY <1>1, <1>2, <1>3, <1>4, <2>2
  <1>5. CASE r # 0
    <2>1. b * (q + 1) = b * q + b
      OBVIOUS
    <2>2. b * p + s < b * (q + 1)
      BY <1>1, <1>2, <1>3, <2>1
    <2>3. p < q + 1
      <3>1. q + 1 \in Nat
        OBVIOUS
      <3>2. QED
        BY <2>2, <3>1, Quotient
    <2>4. lines = q + 1
      BY <1>1, <1>5
    <2>5. QED
      BY <1>1, <1>2, <1>3, <1>5, <2>3, <2>4
  <1>6. QED
    BY <1>4, <1>5

LEMMA DumpCovers ==
  ASSUME NEW d \in Requests, Ordinary(d), d.word <= Half \div 2,
         NEW b \in Nat, b >= d.start, b < d.end, b < MemSize
  PROVE  b \in dump_mem(d)
  <1>1. PICK st \in Nat, wd \in Nat \ {0}, bl \in Nat \ {0} :
           st = d.start /\ wd = d.word /\ bl = d.bpl
    BY WordFacts DEF Requests
  <1>2. PICK f \in Nat, z \in Nat : /\ f = first(d) /\ z = limit(d) /\ b < z /\ f <= b
                                    /\ f < Word \div 2 /\ z < Word \div 2 /\ z - f < Half
    <2>1. first(d) \in 0 .. d.start /\ first(d) < Word \div 2 /\ limit(d) \in 0 .. (Word \div 2) - 1
      BY OrdinaryFacts
    <2>2. b < limit(d)
      BY OrdinaryFacts
    <2>3. limit(d) - first(d) < Half
      BY DEF Ordinary
    <2>4. QED
      BY <1>1, <2>1, <2>2, <2>3, RangeFacts
  <1>3. PICK o \in Nat, n \in Nat : o = b - f /\ n = z - f /\ o < n /\ n < Half
    BY <1>2
  <1>4. PICK p \in Nat, s \in Nat, m \in Nat :
           p = o \div bl /\ s <= bl - 1 /\ m = bl * p /\ o = m + s
    <2>1. /\ o \div bl \in Nat /\ o % bl \in 0 .. bl - 1 /\ bl * (o \div bl) \in Nat
          /\ o = bl * (o \div bl) + (o % bl)
      BY Division
    <2>2. o % bl \in Nat /\ o % bl <= bl - 1
      BY <2>1
    <2>3. QED
      BY <2>1, <2>2, Zenon
  <1>5. PICK w \in 0 .. wd - 1, k \in Nat : w = s % wd /\ k = s - w /\ k % wd = 0
    <2>1. s % wd \in 0 .. wd - 1 /\ s % wd <= s
      BY Remainder
    <2>2. (s - (s % wd)) % wd = 0
      BY Aligned
    <2>3. s - (s % wd) \in Nat
      BY <2>1
    <2>4. QED
      BY <2>1, <2>2, <2>3
  <1>6. k \in words(d) /\ k <= s
    <2>1. k <= s /\ k \in 0 .. bl - 1
      BY <1>4, <1>5
    <2>2. QED
      BY <1>1, <1>5, <2>1 DEF words
  <1>7. p \in 0 .. nb_lines(d) - 1
    <2>1. n % Word = n
      BY <1>3, Unwrapped, WordFacts
    <2>2. PICK lines \in Nat : /\ lines = n \div bl + (IF n % bl # 0 THEN 1 ELSE 0)
                               /\ lines <= n /\ p < lines
      <3>1. \A x : x = n \div bl + (IF n % bl # 0 THEN 1 ELSE 0) =>
                       x \in Nat /\ x <= n /\ o \div bl < x
        BY <1>3, LinesFacts
      <3>2. QED
        BY <1>4, <3>1
    <2>3. lines % Half = lines
      BY <1>3, <2>2, Unwrapped, WordFacts
    <2>4. nb_lines(d) = lines
      BY <1>1, <1>2, <1>3, <2>1, <2>2, <2>3 DEF nb_lines
    <2>5. QED
      BY <2>2, <2>4
  <1>8. \A j \in Nat : j <= s => offset_of(d, p, j) = j + m
    <2>1. SUFFICES ASSUME NEW j \in Nat, j <= s PROVE offset_of(d, p, j) = j + m
      OBVIOUS
    <2>2. j + m \in Nat /\ j + m < Half
      BY <1>3, <1>4, <2>1, WordFacts
    <2>3. (j + m) % Half = j + m
      BY <2>2, Unwrapped, WordFacts
    <2>4. QED
      BY <1>1, <1>4, <2>3 DEF offset_of
  <1>9. printed(d, p, k)
    <2>1. SUFFICES ASSUME NEW j \in words(d), j <= k
                   PROVE  (offset_of(d, p, j) + first(d)) % Word <= limit(d)
      BY DEF printed
    <2>2. j \in Nat /\ j <= s
      BY <1>1, <1>4, <1>6, <2>1 DEF words
    <2>3. offset_of(d, p, j) = j + m
      BY <1>8, <2>2
    <2>4. j + m + f \in Nat /\ j + m + f < z /\ j + m + f < Word
      BY <1>2, <1>3, <1>4, <2>2, RangeFacts, WordFacts
    <2>5. (j + m + f) % Word = j + m + f
      BY <2>4, Unwrapped, WordFacts
    <2>6. QED
      BY <1>2, <2>3, <2>4, <2>5
  <1>10. b = first(d) + ((offset_of(d, p, k) + w) % Half)
    <2>1. offset_of(d, p, k) = k + m
      BY <1>6, <1>8
    <2>2. QED
      <3>1. w \in Nat /\ k + w = s
        BY <1>5
      <3>2. o = b - f /\ o = m + s
        BY <1>3, <1>4
      <3>3. b = f + o /\ (k + m) + w = o
        BY <1>2, <3>1, <3>2
      <3>4. o % Half = o
        BY <1>3, Unwrapped, WordFacts
      <3>5. QED
        BY <1>2, <2>1, <3>3, <3>4
  <1>11. QED
    <2>1. <<p, k>> \in {q \in (0 .. nb_lines(d) - 1) \X words(d) : printed(d, q[1], q[2])}
      BY <1>6, <1>7, <1>9
    <2>2. b \in {first(d) + ((offset_of(d, p, k) + y) % Half) : y \in word_offsets(d)}
      BY <1>1, <1>5, <1>10 DEF word_offsets
    <2>3. QED
      BY <2>1, <2>2 DEF dump_mem

(* The options and the commands *)

Commands == {"SHOW_STATE", "SHOW_REGS", "DUMP_MEM"}
Lists == Seq(0 .. Word - 1)
ArgsSet == [regs : BOOLEAN, vcpus : SUBSET Bits, cmds : Seq(Commands), mem_range : {NoList} \cup Lists]
OptionRecords == [opt : {"v", "m", "r", "h"}, str : Seq(Chars)]

\* A DUMP_MEM among the commands has its list.
HasList(a) == (\E i \in 1 .. Len(a.cmds) : a.cmds[i] = "DUMP_MEM") => a.mem_range \in Lists

\* Every option appends at most one command, every answer takes one of them.
ArgsInv ==
    /\ sargs \in ArgsSet /\ HasList(sargs)
    /\ opts \in Seq(OptionRecords)
    /\ qpc \in {"idle", "getopt"} => Len(sargs.cmds) <= Len(opts) /\ sent = 0
    /\ qpc = "send" => sent < Len(sargs.cmds)

\* Before the VM is met there are no registers and nothing is shown; the entries of
\* other vCPUs than vCPU 0 stay empty for ever.
RegsInv ==
    /\ qpc \in {"idle", "getopt"} => shown = Nothing /\ regs = [b \in Bits |-> NoRegs]
    /\ \A b \in Bits \ {0} : regs[b] = NoRegs

\* A dump that is shown is the one of the request, whose arguments stay as they are.
DumpInv ==
    Dumped => /\ Request \in Requests
              /\ shown.bytes = dump_mem(Request)
              /\ shown.range = <<first(Request), limit(Request)>>

StatusInv == StatusTypeOK /\ ArgsInv /\ RegsInv /\ OwnRegsShown /\ DumpInv

\* What is selected is a set of vCPUs, and so is the last one of them.
LEMMA SelectedFacts ==
  ASSUME sargs \in ArgsSet
  PROVE  /\ Selected \subseteq 0 .. NVcpus - 1
         /\ 0 \in sargs.vcpus <=> 0 \in Selected
         /\ Selected # {} => Max(Selected) \in Selected
         /\ Selected \subseteq {0} /\ Selected # {} => Max(Selected) = 0
  <1>1. Selected \subseteq 0 .. NVcpus - 1
    BY DEF Selected
  <1>2. NVcpus \in Nat /\ NVcpus >= 1
    BY NVcpusAssumption
  <1>3. 0 \in sargs.vcpus <=> 0 \in Selected
    BY <1>2 DEF Selected
  <1>4. Selected # {} => Max(Selected) \in Selected
    <2> DEFINE T == {NVcpus - 1 - x : x \in Selected}
    <2>1. SUFFICES ASSUME Selected # {} PROVE Max(Selected) \in Selected
      OBVIOUS
    <2>2. T \in SUBSET Nat /\ T # {}
      <3>1. \A x \in Selected : NVcpus - 1 - x \in Nat
        BY <1>1, <1>2
      <3>2. QED
        BY <2>1, <3>1
    <2>3. \E x \in T : \A y \in T : x <= y
      <3> HIDE DEF T
      <3> QED
        BY <2>2, Least
    <2>4. PICK m \in Selected : \A y \in Selected : NVcpus - 1 - m <= NVcpus - 1 - y
      BY <2>3
    <2>5. \A y \in Selected : y <= m
      BY <1>1, <1>2, <2>4
    <2>6. Selected \in SUBSET Int
      BY <1>1, <1>2
    <2>7. Max(Selected) = m
      BY <2>5, <2>6, MaxIs
    <2>8. QED
      BY <2>7
  <1>5. QED
    BY <1>1, <1>3, <1>4

LEMMA StatusInvInit == StatusInit => StatusInv
  <1> SUFFICES ASSUME StatusInit PROVE StatusInv
    OBVIOUS
  <1>1. sargs \in ArgsSet /\ sargs.cmds = <<>> /\ sargs.mem_range = NoList
    BY DEF StatusInit, ArgsSet
  <1>2. HasList(sargs)
    BY <1>1 DEF HasList
  <1>3. ArgsInv
    BY <1>1, <1>2 DEF ArgsInv, StatusInit
  <1>4. shown.cmd = "NONE" /\ regs = [b \in Bits |-> NoRegs]
    BY DEF StatusInit, Nothing
  <1>5. OwnRegsShown /\ DumpInv
    BY <1>4 DEF OwnRegsShown, DumpInv, Dumped
  <1>6. 0 \in Bits
    BY WordFacts DEF Bits
  <1>7. RegsInv
    BY <1>4, <1>6 DEF RegsInv, StatusInit
  <1>8. NoRegs \in -1 .. NVcpus - 1
    BY NVcpusAssumption DEF NoRegs
  <1>9. sent \in 0 .. MaxStatusOptions /\ Len(opts) <= MaxStatusOptions /\ Len(sargs.cmds) <= MaxStatusOptions
    BY <1>1, MaxStatusOptionsAssumption DEF StatusInit
  <1>10. StatusTypeOK
    BY <1>1, <1>4, <1>8, <1>9 DEF StatusTypeOK, StatusInit, ArgsSet, Ret, Commands
  <1>11. QED
    BY <1>3, <1>5, <1>7, <1>10 DEF StatusInv

\* One turn of the loop, whatever the option: the arguments it leaves are arguments, with
\* one command more at most.
LEMMA TurnStep ==
  ASSUME StatusInv, NEW o \in OptionRecords, NEW r \in Ret, NEW a \in ArgsSet,
         Turn(o, r, a), HasList(a), Len(a.cmds) <= Len(sargs.cmds) + 1
  PROVE  StatusInv'
  <1>1. /\ qpc = "getopt" /\ Len(opts) < MaxStatusOptions /\ opts' = Append(opts, o)
        /\ sret' = r /\ sargs' = a
        /\ qpc' = qpc /\ paused' = paused /\ regs' = regs /\ sent' = sent /\ shown' = shown
    BY DEF Turn
  <1>2. /\ shown = Nothing /\ regs = [b \in Bits |-> NoRegs] /\ sent = 0
        /\ opts \in Seq(OptionRecords) /\ sargs \in ArgsSet /\ Len(sargs.cmds) <= Len(opts)
    BY <1>1 DEF StatusInv, ArgsInv, RegsInv
  <1>3. Len(a.cmds) \in Nat /\ Len(sargs.cmds) \in Nat /\ MaxStatusOptions \in Nat
    BY <1>2, MaxStatusOptionsAssumption DEF ArgsSet
  <1>4. /\ opts' \in Seq(OptionRecords) /\ Len(opts') = Len(opts) + 1 /\ Len(opts) \in Nat
    BY <1>1, <1>2
  <1>5. ArgsInv'
    BY <1>1, <1>2, <1>3, <1>4 DEF ArgsInv, HasList
  <1>6. shown'.cmd = "NONE"
    BY <1>1, <1>2 DEF Nothing
  <1>7. RegsInv'
    <2>1. 0 \in Bits
      BY WordFacts DEF Bits
    <2>2. QED
      BY <1>1, <1>2, <2>1 DEF RegsInv
  <1>8. OwnRegsShown' /\ DumpInv'
    BY <1>6 DEF OwnRegsShown, DumpInv, Dumped
  <1>9. StatusTypeOK'
    <2>1. Len(sargs'.cmds) <= MaxStatusOptions /\ Len(opts') <= MaxStatusOptions
      BY <1>1, <1>2, <1>3, <1>4
    <2>2. /\ sargs'.regs \in BOOLEAN /\ sargs'.vcpus \subseteq Bits /\ sargs'.cmds \in Seq(Commands)
          /\ sargs'.mem_range = NoList \/ sargs'.mem_range \in Seq(0 .. Word - 1)
      BY <1>1 DEF ArgsSet, Lists
    <2>3. /\ qpc' \in {"idle", "getopt", "send", "end", "trap"} /\ sret' \in Ret /\ paused' \in BOOLEAN
          /\ regs' \in [Bits -> -1 .. NVcpus - 1] /\ sent' \in 0 .. MaxStatusOptions
          /\ DOMAIN shown' = DOMAIN Nothing
      BY <1>1 DEF StatusInv, StatusTypeOK
    <2>4. QED
      BY <2>1, <2>2, <2>3 DEF StatusTypeOK, Commands
  <1>10. QED
    BY <1>5, <1>7, <1>8, <1>9 DEF StatusInv

LEMMA OptionStep ==
  ASSUME StatusInv, Len(opts) < MaxStatusOptions, NEW o \in StatusOptionSet(Len(opts) + 1),
         RegsOption(o) \/ VcpusOption(o) \/ RangeOption(o) \/ UsageOption(o)
  PROVE  StatusInv'
  <1>1. /\ sargs \in ArgsSet /\ HasList(sargs) /\ sret \in Ret /\ opts \in Seq(OptionRecords)
        /\ sargs.cmds \in Seq(Commands) /\ Len(sargs.cmds) \in Nat /\ "ARGS_FAILED" \in Ret
    BY DEF StatusInv, ArgsInv, ArgsSet, StatusTypeOK, Ret
  <1>2. o \in OptionRecords
    <2>1. Len(opts) + 1 \in 1 .. MaxStatusOptions
      BY <1>1, MaxStatusOptionsAssumption
    <2>2. ListStrings[Len(opts) + 1] \subseteq Seq(Chars)
      BY <2>1, ListStringsAssumption
    <2>3. <<>> \in Seq(Chars)
      OBVIOUS
    <2>4. QED
      BY <2>2, <2>3 DEF StatusOptionSet, OptionRecords
  <1>3. o.str \in Seq(Chars)
    BY <1>2 DEF OptionRecords
  <1>4. CASE RegsOption(o)
    <2> DEFINE a == [sargs EXCEPT !.regs = TRUE, !.cmds = Append(@, "SHOW_REGS")]
    <2>1. Turn(o, sret, a)
      BY <1>4 DEF RegsOption
    <2>2. /\ Append(sargs.cmds, "SHOW_REGS") \in Seq(Commands)
          /\ Len(Append(sargs.cmds, "SHOW_REGS")) = Len(sargs.cmds) + 1
          /\ \A i \in 1 .. Len(sargs.cmds) : Append(sargs.cmds, "SHOW_REGS")[i] = sargs.cmds[i]
          /\ Append(sargs.cmds, "SHOW_REGS")[Len(sargs.cmds) + 1] = "SHOW_REGS"
      BY <1>1 DEF Commands
    <2>3. /\ a \in ArgsSet /\ a.cmds = Append(sargs.cmds, "SHOW_REGS")
          /\ a.mem_range = sargs.mem_range
      BY <1>1, <2>2 DEF ArgsSet
    <2>4. HasList(a)
      <3>1. \A i \in 1 .. Len(a.cmds) : a.cmds[i] = "DUMP_MEM" =>
               i \in 1 .. Len(sargs.cmds) /\ sargs.cmds[i] = "DUMP_MEM"
        BY <1>1, <2>2, <2>3
      <3>2. QED
        BY <1>1, <2>3, <3>1 DEF HasList
    <2>5. Len(a.cmds) <= Len(sargs.cmds) + 1
      BY <1>1, <2>2, <2>3
    <2> HIDE DEF a
    <2>6. QED
      BY <1>1, <1>2, <2>1, <2>3, <2>4, <2>5, TurnStep
  <1>5. CASE VcpusOption(o)
    <2> DEFINE p == parse_cpu_list(o.str, sargs.vcpus)
               r == IF p.ret = "SUCCESS" THEN sret ELSE "ARGS_FAILED"
               a == [sargs EXCEPT !.vcpus = p.mask]
    <2>1. Turn(o, r, a)
      BY <1>5 DEF VcpusOption
    <2>2. sargs.vcpus \in SUBSET (0 .. LongBits - 1)
      BY <1>1 DEF ArgsSet, Bits
    <2>3. p.mask \in SUBSET (0 .. LongBits - 1)
      BY <1>3, <2>2, MaskType
    <2> HIDE DEF p
    <2>4. a \in ArgsSet /\ a.cmds = sargs.cmds /\ a.mem_range = sargs.mem_range
      BY <1>1, <2>3 DEF ArgsSet, Bits
    <2>5. r \in Ret
      BY <1>1
    <2> HIDE DEF a, r
    <2>6. HasList(a) /\ Len(a.cmds) <= Len(sargs.cmds) + 1
      BY <1>1, <2>4 DEF HasList
    <2>7. QED
      BY <1>2, <2>1, <2>4, <2>5, <2>6, TurnStep
  <1>6. CASE RangeOption(o)
    <2> DEFINE p == parse_int_list(o.str)
               r == IF p.ret = "SUCCESS" THEN sret ELSE "ARGS_FAILED"
               a == [sargs EXCEPT !.mem_range = p.list, !.cmds = Append(@, "DUMP_MEM")]
    <2>1. Turn(o, r, a)
      BY <1>6 DEF RangeOption
    <2>2. p.list \in Lists
      BY <1>3, ListType DEF ParsedLists, Lists
    <2> HIDE DEF p
    <2>3. /\ Append(sargs.cmds, "DUMP_MEM") \in Seq(Commands)
          /\ Len(Append(sargs.cmds, "DUMP_MEM")) = Len(sargs.cmds) + 1
      BY <1>1 DEF Commands
    <2>4. /\ a \in ArgsSet /\ a.cmds = Append(sargs.cmds, "DUMP_MEM") /\ a.mem_range = p.list
      BY <1>1, <2>2, <2>3 DEF ArgsSet
    <2>5. r \in Ret
      BY <1>1
    <2> HIDE DEF a, r
    <2>6. HasList(a) /\ Len(a.cmds) <= Len(sargs.cmds) + 1
      BY <1>1, <2>2, <2>3, <2>4 DEF HasList
    <2>7. QED
      BY <1>2, <2>1, <2>4, <2>5, <2>6, TurnStep
  <1>7. CASE UsageOption(o)
    <2>1. Turn(o, "ARGS_FAILED", sargs)
      BY <1>7 DEF UsageOption
    <2>2. PICK a \in ArgsSet : a = sargs
      BY <1>1
    <2>3. Turn(o, "ARGS_FAILED", a) /\ HasList(a) /\ Len(a.cmds) <= Len(sargs.cmds) + 1
      BY <1>1, <2>1, <2>2
    <2>4. QED
      BY <1>1, <1>2, <2>3, TurnStep
  <1>8. QED
    BY <1>4, <1>5, <1>6, <1>7

LEMMA ParsedStep == StatusInv /\ StatusParsed => StatusInv'
  <1> SUFFICES ASSUME StatusInv, StatusParsed PROVE StatusInv'
    OBVIOUS
  <1>1. /\ qpc = "getopt" /\ qpc' \in {"send", "end"} /\ paused' \in BOOLEAN
        /\ sret' = sret /\ sent' = sent /\ shown' = shown /\ opts' = opts
    BY DEF StatusParsed
  <1>2. /\ shown = Nothing /\ regs = [b \in Bits |-> NoRegs] /\ sent = 0
        /\ opts \in Seq(OptionRecords) /\ sargs \in ArgsSet /\ Len(sargs.cmds) <= Len(opts)
        /\ HasList(sargs)
    BY <1>1 DEF StatusInv, ArgsInv, RegsInv
  <1>3. 0 \in Bits
    BY WordFacts DEF Bits
  <1>4. regs' \in [Bits -> -1 .. NVcpus - 1] /\ \A b \in Bits \ {0} : regs'[b] = NoRegs
    <2>1. PICK v \in -1 .. NVcpus - 1 : regs' = [regs EXCEPT ![0] = v]
      BY DEF StatusParsed
    <2>2. regs \in [Bits -> -1 .. NVcpus - 1]
      BY DEF StatusInv, StatusTypeOK
    <2>3. QED
      BY <1>2, <1>3, <2>1, <2>2
  <1>5. /\ sargs' \in ArgsSet /\ sargs'.mem_range = sargs.mem_range
        /\ sargs'.cmds = IF sargs.cmds = <<>> THEN <<"SHOW_STATE">> ELSE sargs.cmds
    <2>1. <<"SHOW_STATE">> \in Seq(Commands)
      BY DEF Commands
    <2>2. QED
      BY <1>2, <1>3, <2>1 DEF StatusParsed, ArgsSet, DefaultMask
  <1>6. /\ HasList(sargs') /\ Len(sargs'.cmds) \in Nat /\ Len(sargs'.cmds) >= 1
        /\ Len(sargs'.cmds) <= MaxStatusOptions
    <2>1. CASE sargs.cmds = <<>>
      <3>1. sargs'.cmds = <<"SHOW_STATE">>
        BY <1>5, <2>1
      <3>2. Len(sargs'.cmds) = 1 /\ sargs'.cmds[1] = "SHOW_STATE"
        BY <3>1
      <3>3. QED
        BY <3>2, MaxStatusOptionsAssumption DEF HasList
    <2>2. CASE sargs.cmds # <<>>
      <3>1. sargs'.cmds = sargs.cmds /\ sargs.cmds \in Seq(Commands)
        BY <1>2, <1>5, <2>2 DEF ArgsSet
      <3>2. Len(sargs.cmds) \in Nat /\ Len(sargs.cmds) >= 1
        BY <2>2, <3>1
      <3>3. Len(sargs.cmds) <= MaxStatusOptions
        BY DEF StatusInv, StatusTypeOK
      <3>4. QED
        BY <1>2, <1>5, <3>1, <3>2, <3>3 DEF HasList
    <2>3. QED
      BY <2>1, <2>2
  <1>7. ArgsInv'
    <2>1. HasList(sargs)'
      BY <1>6 DEF HasList
    <2>2. QED
      BY <1>1, <1>2, <1>5, <1>6, <2>1 DEF ArgsInv
  <1>8. shown'.cmd = "NONE"
    BY <1>1, <1>2 DEF Nothing
  <1>9. RegsInv'
    BY <1>1, <1>4 DEF RegsInv
  <1>10. OwnRegsShown' /\ DumpInv'
    BY <1>8 DEF OwnRegsShown, DumpInv, Dumped
  <1>11. StatusTypeOK'
    <2>1. /\ sargs'.regs \in BOOLEAN /\ sargs'.vcpus \subseteq Bits /\ sargs'.cmds \in Seq(Commands)
          /\ sargs'.mem_range = NoList \/ sargs'.mem_range \in Seq(0 .. Word - 1)
      BY <1>5 DEF ArgsSet, Lists
    <2>2. /\ sret' \in Ret /\ regs' \in [Bits -> -1 .. NVcpus - 1] /\ sent' \in 0 .. MaxStatusOptions
          /\ DOMAIN shown' = DOMAIN Nothing /\ Len(opts') <= MaxStatusOptions
      BY <1>1, <1>4 DEF StatusInv, StatusTypeOK
    <2>3. QED
      BY <1>1, <1>6, <2>1, <2>2 DEF StatusTypeOK, Commands
  <1>12. QED
    BY <1>7, <1>9, <1>10, <1>11 DEF StatusInv

\* What every answer keeps, and what remains to be seen of the registers and of what is
\* shown.
LEMMA AnswerStep ==
  ASSUME StatusInv, NEW cmd, NEW what, Answer(cmd, what), DOMAIN what = DOMAIN Nothing,
         regs' \in [Bits -> -1 .. NVcpus - 1]
  PROVE  /\ StatusTypeOK' /\ ArgsInv' /\ shown' = what /\ Selected' = Selected /\ sargs' = sargs
         /\ qpc' \notin {"idle", "getopt"} /\ Request' = Request
         /\ cmd = "DUMP_MEM" => sargs.mem_range \in Lists
  <1>1. /\ qpc = "send" /\ sargs.cmds[sent + 1] = cmd /\ sent' = sent + 1
        /\ qpc' = (IF sent + 1 = Len(sargs.cmds) THEN "end" ELSE "send") /\ shown' = what
        /\ sargs' = sargs /\ sret' = sret /\ paused' = paused /\ opts' = opts
    BY DEF Answer
  <1>2. /\ sargs \in ArgsSet /\ HasList(sargs) /\ opts \in Seq(OptionRecords)
        /\ sent < Len(sargs.cmds) /\ sent \in Nat /\ Len(sargs.cmds) \in Nat
        /\ Len(sargs.cmds) <= MaxStatusOptions /\ MaxStatusOptions \in Nat
    BY <1>1, MaxStatusOptionsAssumption DEF StatusInv, ArgsInv, ArgsSet, StatusTypeOK
  <1>3. sent' \in 0 .. MaxStatusOptions /\ (qpc' = "send" => sent' < Len(sargs.cmds))
    BY <1>1, <1>2
  <1>4. StatusTypeOK'
    BY <1>1, <1>3 DEF StatusInv, StatusTypeOK
  <1>5. ArgsInv'
    BY <1>1, <1>2, <1>3 DEF ArgsInv, HasList
  <1>6. cmd = "DUMP_MEM" => sargs.mem_range \in Lists
    <2>1. sent + 1 \in 1 .. Len(sargs.cmds)
      BY <1>2
    <2>2. QED
      BY <1>1, <1>2, <2>1 DEF HasList
  <1>7. Selected' = Selected /\ Request' = Request
    BY <1>1 DEF Selected, Request
  <1>8. QED
    BY <1>1, <1>4, <1>5, <1>6, <1>7

LEMMA NothingFacts ==
  /\ Nothing.cmd = "NONE" /\ DOMAIN Nothing = {"cmd", "regs", "range", "bytes"}
  /\ \A c, g : /\ [Nothing EXCEPT !.cmd = c, !.regs = g].cmd = c
               /\ [Nothing EXCEPT !.cmd = c, !.regs = g].regs = g
               /\ DOMAIN [Nothing EXCEPT !.cmd = c, !.regs = g] = DOMAIN Nothing
  /\ \A c, x, b : /\ [Nothing EXCEPT !.cmd = c, !.range = x, !.bytes = b].cmd = c
                  /\ [Nothing EXCEPT !.cmd = c, !.range = x, !.bytes = b].range = x
                  /\ [Nothing EXCEPT !.cmd = c, !.range = x, !.bytes = b].bytes = b
                  /\ DOMAIN [Nothing EXCEPT !.cmd = c, !.range = x, !.bytes = b] = DOMAIN Nothing
  BY DEF Nothing

\* An answer that shows neither registers nor memory.
LEMMA QuietAnswerStep ==
  ASSUME StatusInv, NEW cmd, NEW what, Answer(cmd, what), DOMAIN what = DOMAIN Nothing,
         what.cmd \notin {"SHOW_REGS", "DUMP_MEM"}, RegsInv => RegsInv',
         regs' \in [Bits -> -1 .. NVcpus - 1]
  PROVE  StatusInv'
  <1>1. StatusTypeOK' /\ ArgsInv' /\ shown' = what /\ qpc' \notin {"idle", "getopt"}
    BY AnswerStep
  <1>2. OwnRegsShown' /\ DumpInv'
    BY <1>1 DEF OwnRegsShown, DumpInv, Dumped
  <1>3. QED
    BY <1>1, <1>2 DEF StatusInv

LEMMA ShowStateStep == StatusInv /\ ShowState => StatusInv'
  <1> SUFFICES ASSUME StatusInv, ShowState PROVE StatusInv'
    OBVIOUS
  <1>1. PICK what : /\ what = [Nothing EXCEPT !.cmd = "SHOW_STATE"] /\ Answer("SHOW_STATE", what)
                    /\ what.cmd = "SHOW_STATE" /\ DOMAIN what = DOMAIN Nothing
    BY DEF ShowState, Nothing
  <1>2. regs' = regs /\ regs \in [Bits -> -1 .. NVcpus - 1]
    BY DEF ShowState, StatusInv, StatusTypeOK
  <1>3. RegsInv => RegsInv'
    <2>1. Selected' = Selected /\ qpc' \notin {"idle", "getopt"}
      BY <1>1, <1>2, AnswerStep
    <2>2. QED
      BY <1>2, <2>1 DEF RegsInv
  <1>4. QED
    BY <1>1, <1>2, <1>3, QuietAnswerStep

\* Reading a selected vCPU into entry 0 keeps the other entries.
LEMMA EntryStep ==
  ASSUME StatusInv, NEW v \in Selected, Selected' = Selected, qpc' \notin {"idle", "getopt"},
         regs' = [regs EXCEPT ![0] = v]
  PROVE  RegsInv' /\ regs' \in [Bits -> -1 .. NVcpus - 1] /\ regs'[0] = v
  <1>1. 0 \in Bits /\ v \in -1 .. NVcpus - 1
    <2>1. 0 \in Bits
      BY WordFacts DEF Bits
    <2>2. v \in 0 .. NVcpus - 1 /\ NVcpus \in Nat
      BY NVcpusAssumption DEF Selected
    <2>3. QED
      BY <2>1, <2>2
  <1>2. regs \in [Bits -> -1 .. NVcpus - 1] /\ \A b \in Bits \ {0} : regs[b] = NoRegs
    BY DEF StatusInv, StatusTypeOK, RegsInv
  <1>3. regs' \in [Bits -> -1 .. NVcpus - 1] /\ regs'[0] = v /\ \A b \in Bits \ {0} : regs'[b] = regs[b]
    BY <1>1, <1>2
  <1>4. RegsInv'
    BY <1>2, <1>3 DEF RegsInv
  <1>5. QED
    BY <1>3, <1>4

LEMMA SameRegsStep ==
  ASSUME StatusInv, Selected' = Selected, qpc' \notin {"idle", "getopt"}, regs' = regs
  PROVE  RegsInv' /\ regs' \in [Bits -> -1 .. NVcpus - 1]
  BY DEF StatusInv, StatusTypeOK, RegsInv

LEMMA AnswerFrame ==
  ASSUME NEW cmd, NEW what, Answer(cmd, what)
  PROVE  Selected' = Selected /\ qpc' \notin {"idle", "getopt"} /\ sargs' = sargs
  BY DEF Answer, Selected

LEMMA ShowRegsStep == StatusInv /\ ShowRegs => StatusInv'
  <1> SUFFICES ASSUME StatusInv, ShowRegs PROVE StatusInv'
    OBVIOUS
  <1>1. sargs \in ArgsSet
    BY DEF StatusInv, ArgsInv
  <1>2. ASSUME Answer("SHOW_REGS", Nothing), regs' = regs \/ \E v \in Selected : regs' = [regs EXCEPT ![0] = v]
        PROVE  StatusInv'
    <2>1. Selected' = Selected /\ qpc' \notin {"idle", "getopt"}
      BY <1>2, AnswerFrame
    <2>2. RegsInv' /\ regs' \in [Bits -> -1 .. NVcpus - 1]
      BY <1>2, <2>1, EntryStep, SameRegsStep
    <2>3. QED
      BY <1>2, <2>2, NothingFacts, QuietAnswerStep
  <1>3. ASSUME regs' = regs_read,
               Answer("SHOW_REGS", [Nothing EXCEPT !.cmd = "SHOW_REGS",
                                                   !.regs = {<<i, regs'[i]>> : i \in sargs.vcpus}])
        PROVE  StatusInv'
    <2>1. PICK what : /\ Answer("SHOW_REGS", what) /\ DOMAIN what = DOMAIN Nothing
                      /\ what.regs = {<<i, regs'[i]>> : i \in sargs.vcpus}
                      /\ what.cmd = "SHOW_REGS"
      <3>1. PICK g : g = {<<i, regs'[i]>> : i \in sargs.vcpus}
        OBVIOUS
      <3>2. PICK what : what = [Nothing EXCEPT !.cmd = "SHOW_REGS", !.regs = g]
        OBVIOUS
      <3>3. Answer("SHOW_REGS", what)
        BY <1>3, <3>1, <3>2, Zenon
      <3>4. DOMAIN what = DOMAIN Nothing /\ what.regs = g /\ what.cmd = "SHOW_REGS"
        BY <3>2, NothingFacts
      <3>5. QED
        BY <3>1, <3>3, <3>4, Zenon
    <2>2. Selected' = Selected /\ qpc' \notin {"idle", "getopt"} /\ sargs' = sargs
      BY <2>1, AnswerFrame
    <2>3. /\ RegsInv' /\ regs' \in [Bits -> -1 .. NVcpus - 1]
          /\ Selected # {} => regs'[0] = Max(Selected)
      <3>1. CASE Selected = {}
        <4>1. regs' = regs
          BY <1>3, <3>1 DEF regs_read
        <4>2. QED
          BY <2>2, <3>1, <4>1, SameRegsStep
      <3>2. CASE Selected # {}
        <4>1. PICK v \in Selected : v = Max(Selected)
          BY <1>1, <3>2, SelectedFacts
        <4>2. regs' = [regs EXCEPT ![0] = v]
          BY <1>3, <3>2, <4>1 DEF regs_read
        <4>3. QED
          BY <2>2, <4>1, <4>2, EntryStep
      <3>3. QED
        BY <3>1, <3>2
    <2>4. StatusTypeOK' /\ ArgsInv' /\ shown' = what
      BY <2>1, <2>3, AnswerStep
    <2>5. DumpInv'
      BY <2>1, <2>4 DEF DumpInv, Dumped
    <2>6. OwnRegsShown'
      <3>1. SUFFICES ASSUME Selected \subseteq {0}
                     PROVE  /\ 0 \in sargs.vcpus => <<0, 0>> \in what.regs
                            /\ \A e \in what.regs : e[2] \in {e[1], NoRegs}
        BY <2>2, <2>4 DEF OwnRegsShown
      <3>2. 0 \in sargs.vcpus => regs'[0] = 0
        <4>1. SUFFICES ASSUME 0 \in sargs.vcpus PROVE regs'[0] = 0
          OBVIOUS
        <4>2. Selected # {}
          BY <1>1, <4>1, SelectedFacts
        <4>3. Max(Selected) = 0
          BY <1>1, <3>1, <4>2, SelectedFacts
        <4>4. QED
          BY <2>3, <4>2, <4>3
      <3>3. \A i \in sargs.vcpus : regs'[i] \in {i, NoRegs}
        <4>1. \A i \in sargs.vcpus : i \in Bits
          BY <1>1 DEF ArgsSet
        <4>2. \A i \in Bits \ {0} : regs'[i] = NoRegs
          BY <2>3 DEF RegsInv
        <4>3. QED
          BY <3>2, <4>1, <4>2
      <3>4. QED
        BY <2>1, <3>2, <3>3
    <2>7. QED
      BY <2>3, <2>4, <2>5, <2>6 DEF StatusInv
  <1>4. QED
    <2>1. CASE /\ paused
               /\ regs' = regs_read
               /\ Answer("SHOW_REGS", [Nothing EXCEPT !.cmd = "SHOW_REGS",
                                                      !.regs = {<<i, regs'[i]>> : i \in sargs.vcpus}])
      BY <1>3, <2>1
    <2>2. CASE /\ paused /\ Selected # {}
               /\ regs' \in {regs} \cup {[regs EXCEPT ![0] = v] : v \in Selected}
               /\ Answer("SHOW_REGS", Nothing)
      BY <1>2, <2>2
    <2>3. CASE ~paused /\ UNCHANGED regs /\ Answer("SHOW_REGS", Nothing)
      BY <1>2, <2>3
    <2>4. QED
      BY <2>1, <2>2, <2>3, Zenon DEF ShowRegs

LEMMA Entry == ASSUME NEW S, NEW q \in Seq(S) PROVE \A i \in 1 .. Len(q) : q[i] \in S
  OBVIOUS

\* A list of any length, filled up to four numbers, makes a request.
LEMMA RequestType ==
  ASSUME sargs.mem_range \in Lists, Request.word # 0, Request.bpl # 0
  PROVE  Request \in Requests
  <1> DEFINE tail == <<0, Word - 1, DefaultWord, DefaultLine>>
  <1>1. Half \in Nat /\ Half >= 2 /\ Word \in Nat /\ 2 * Half <= Word
    BY WordFacts
  <1>2. PICK given : given = sargs.mem_range
    OBVIOUS
  <1>3. given \in Seq(0 .. Word - 1) /\ Len(given) \in Nat
    BY <1>2 DEF Lists
  <1>4. tail \in Seq(0 .. Word - 1) /\ Len(tail) = 4
    <2>1. DefaultWord \in 0 .. Word - 1 /\ DefaultLine \in 0 .. Word - 1
      BY <1>1, DefaultsAssumption
    <2>2. 0 \in 0 .. Word - 1 /\ Word - 1 \in 0 .. Word - 1
      BY <1>1
    <2>3. QED
      BY <2>1, <2>2
  <1> HIDE DEF tail
  <1>5. PICK rest \in Seq(0 .. Word - 1) : /\ rest = SubSeq(tail, Len(given) + 1, 4)
                                           /\ Len(given) + Len(rest) >= 4
    <2>1. \A i \in Len(given) + 1 .. 4 : tail[i] \in 0 .. Word - 1
      <3>1. \A i \in 1 .. 4 : tail[i] \in 0 .. Word - 1
        BY <1>4, Entry
      <3>2. QED
        BY <1>3, <3>1
    <2>2. SubSeq(tail, Len(given) + 1, 4) \in Seq(0 .. Word - 1)
      BY <1>3, <2>1
    <2>3. Len(SubSeq(tail, Len(given) + 1, 4)) = IF Len(given) + 1 <= 4 THEN 4 - Len(given) ELSE 0
      BY <1>3, <1>4
    <2>4. Len(given) + Len(SubSeq(tail, Len(given) + 1, 4)) >= 4
      BY <1>3, <2>3
    <2>5. QED
      BY <2>2, <2>4
  <1>6. PICK full : full = given \o rest
    OBVIOUS
  <1>7. \A i \in 1 .. 4 : full[i] \in 0 .. Word - 1
    <2>1. full \in Seq(0 .. Word - 1) /\ Len(full) = Len(given) + Len(rest)
      BY <1>3, <1>5, <1>6
    <2>2. \A i \in 1 .. Len(full) : full[i] \in 0 .. Word - 1
      BY <2>1, Entry
    <2>3. Len(full) >= 4 /\ Len(full) \in Nat
      BY <1>3, <1>5, <2>1
    <2>4. QED
      BY <2>2, <2>3
  <1>8. Request = [start |-> full[1], end |-> IF full[2] = Word - 1 THEN MemSize ELSE full[2],
                   word |-> full[3] % Half, bpl |-> full[4] % Half]
    BY <1>2, <1>5, <1>6, Zenon DEF Request, tail
  <1>9. \A x \in 0 .. Word - 1 : x % Half \in 0 .. Half - 1
    BY <1>1
  <1>10. MemSize \in 0 .. Word - 1
    BY <1>1, MemSizeAssumption, RangeFacts
  <1>11. /\ full[1] \in 0 .. Word - 1 /\ full[2] \in 0 .. Word - 1
         /\ full[3] % Half \in 0 .. Half - 1 /\ full[4] % Half \in 0 .. Half - 1
    BY <1>7, <1>9
  <1>12. /\ Request.start = full[1] /\ Request.end = (IF full[2] = Word - 1 THEN MemSize ELSE full[2])
         /\ Request.word = full[3] % Half /\ Request.bpl = full[4] % Half
    BY <1>8
  <1>13. full[3] % Half \in 1 .. Half - 1 /\ full[4] % Half \in 1 .. Half - 1
    BY <1>1, <1>11, <1>12
  <1>14. QED
    BY <1>8, <1>10, <1>11, <1>13 DEF Requests

LEMMA DumpMemStep == StatusInv /\ DumpMem => StatusInv'
  <1> SUFFICES ASSUME StatusInv, DumpMem PROVE StatusInv'
    OBVIOUS
  <1>1. regs' = regs /\ regs \in [Bits -> -1 .. NVcpus - 1]
    BY DEF DumpMem, StatusInv, StatusTypeOK
  <1>2. CASE Answer("DUMP_MEM", Nothing)
    <2>1. RegsInv'
      BY <1>1, <1>2, AnswerFrame, SameRegsStep
    <2>2. QED
      BY <1>1, <1>2, <2>1, NothingFacts, QuietAnswerStep
  <1>3. ASSUME Request.word # 0, Request.bpl # 0,
               Answer("DUMP_MEM", [Nothing EXCEPT !.cmd = "DUMP_MEM",
                                                  !.range = <<first(Request), limit(Request)>>,
                                                  !.bytes = dump_mem(Request)])
        PROVE  StatusInv'
    <2>1. PICK what : /\ Answer("DUMP_MEM", what) /\ DOMAIN what = DOMAIN Nothing
                      /\ what.cmd = "DUMP_MEM" /\ what.range = <<first(Request), limit(Request)>>
                      /\ what.bytes = dump_mem(Request)
      <3>1. PICK x, b : x = <<first(Request), limit(Request)>> /\ b = dump_mem(Request)
        OBVIOUS
      <3>2. PICK what : what = [Nothing EXCEPT !.cmd = "DUMP_MEM", !.range = x, !.bytes = b]
        OBVIOUS
      <3>3. Answer("DUMP_MEM", what)
        BY <1>3, <3>1, <3>2, Zenon
      <3>4. DOMAIN what = DOMAIN Nothing /\ what.range = x /\ what.bytes = b /\ what.cmd = "DUMP_MEM"
        BY <3>2, NothingFacts
      <3>5. QED
        BY <3>1, <3>3, <3>4, Zenon
    <2>2. /\ StatusTypeOK' /\ ArgsInv' /\ shown' = what /\ Request' = Request
          /\ sargs.mem_range \in Lists
      BY <1>1, <2>1, AnswerStep
    <2>3. RegsInv'
      BY <1>1, <2>1, AnswerFrame, SameRegsStep
    <2>4. OwnRegsShown'
      BY <2>1, <2>2 DEF OwnRegsShown
    <2>5. DumpInv'
      <3>1. Request \in Requests
        BY <1>3, <2>2, RequestType
      <3>2. QED
        BY <2>1, <2>2, <3>1 DEF DumpInv
    <2>6. QED
      BY <2>2, <2>3, <2>4, <2>5 DEF StatusInv
  <1>4. CASE qpc = "send" /\ qpc' = "trap" /\ UNCHANGED <<sargs, sret, paused, regs, sent, shown, opts>>
    <2>1. Request' = Request /\ Selected' = Selected
      BY <1>4 DEF Request, Selected
    <2>2. StatusTypeOK' /\ ArgsInv'
      BY <1>4 DEF StatusInv, StatusTypeOK, ArgsInv, HasList
    <2>3. RegsInv'
      BY <1>4, <2>1 DEF StatusInv, RegsInv
    <2>4. OwnRegsShown'
      BY <1>4, <2>1 DEF StatusInv, OwnRegsShown
    <2>5. DumpInv'
      BY <1>4, <2>1 DEF StatusInv, DumpInv, Dumped
    <2>6. QED
      BY <2>2, <2>3, <2>4, <2>5 DEF StatusInv
  <1>5. QED
    BY <1>2, <1>3, <1>4, Zenon DEF DumpMem

LEMMA StatusFrame == StatusInv /\ UNCHANGED statusVars => StatusInv'
  <1> SUFFICES ASSUME StatusInv, UNCHANGED statusVars PROVE StatusInv'
    OBVIOUS
  <1>1. UNCHANGED <<qpc, sargs, sret, paused, regs, sent, shown, opts>>
    BY DEF statusVars
  <1>2. Request' = Request /\ Selected' = Selected
    BY <1>1 DEF Request, Selected
  <1>3. StatusTypeOK' /\ ArgsInv'
    BY <1>1 DEF StatusInv, StatusTypeOK, ArgsInv, HasList
  <1>4. RegsInv' /\ OwnRegsShown'
    BY <1>1, <1>2 DEF StatusInv, RegsInv, OwnRegsShown
  <1>5. DumpInv'
    BY <1>1, <1>2 DEF StatusInv, DumpInv, Dumped
  <1>6. QED
    BY <1>3, <1>4, <1>5 DEF StatusInv

LEMMA StartStatusStep == StatusInv /\ StartStatus => StatusInv'
  <1> SUFFICES ASSUME StatusInv, StartStatus PROVE StatusInv'
    OBVIOUS
  <1>1. qpc = "idle" /\ qpc' = "getopt" /\ UNCHANGED <<sargs, sret, paused, regs, sent, shown, opts>>
    BY DEF StartStatus
  <1>2. Request' = Request /\ Selected' = Selected
    BY <1>1 DEF Request, Selected
  <1>3. StatusTypeOK' /\ ArgsInv'
    BY <1>1 DEF StatusInv, StatusTypeOK, ArgsInv, HasList
  <1>4. RegsInv' /\ OwnRegsShown'
    BY <1>1, <1>2 DEF StatusInv, RegsInv, OwnRegsShown
  <1>5. DumpInv'
    BY <1>1, <1>2 DEF StatusInv, DumpInv, Dumped
  <1>6. QED
    BY <1>3, <1>4, <1>5 DEF StatusInv

LEMMA StatusInvStep == StatusInv /\ [Next]_vars => StatusInv'
  <1> SUFFICES ASSUME StatusInv, [Next]_vars PROVE StatusInv'
    OBVIOUS
  <1>1. CASE StatusNext
    <2>1. CASE Len(opts) < MaxStatusOptions /\ \E o \in StatusOptionSet(Len(opts) + 1) :
                   RegsOption(o) \/ VcpusOption(o) \/ RangeOption(o) \/ UsageOption(o)
      BY <2>1, OptionStep
    <2>2. QED
      BY <1>1, <2>1, ParsedStep, ShowStateStep, ShowRegsStep, DumpMemStep, Zenon DEF StatusNext
  <1>2. QED
    BY <1>1, StatusFrame, StartStatusStep, Zenon DEF Next, Dispatch, vars

\* The invariant of the status command holds for every line of options and every answer.
THEOREM StatusInductive == Spec => []StatusInv
  <1>1. Init => StatusInv
    BY StatusInvInit DEF Init
  <1>2. QED
    BY <1>1, StatusInvStep, PTL DEF Spec

\* Type correctness of main, run_parse_args and the status command: the fields of the
\* arguments keep their widths, a list that is parsed holds 64-bit numbers, a mask holds
\* bits of the mask, and an entry of the result the number of a vCPU.
THEOREM TypeCorrect == Spec => []TypeOK
  <1> DEFINE SubOK == sub \in SubCommands \cup {"none", "help", "unrecognized"}
  <1>1. Init => SubOK
    BY DEF Init
  <1>2. SubOK /\ [Next]_vars => SubOK'
    BY DEF Next, Dispatch, vars
  <1>3. SubOK /\ RunInv /\ StatusInv => TypeOK
    BY DEF TypeOK, RunInv, StatusInv
  <1>4. QED
    BY <1>1, <1>2, <1>3, RunInductive, StatusInductive, PTL DEF Spec

\* With no vCPU but vCPU 0 selected, status shows the registers of vCPU 0 under its number
\* and nobody else's, however often -r is given and whatever SHOW_REGS fails on the way.
THEOREM OwnRegsShownHolds == Spec => []OwnRegsShown
  <1>1. StatusInv => OwnRegsShown
    BY DEF StatusInv
  <1>2. QED
    BY <1>1, StatusInductive, PTL

\* mini_kvm_dump_mem prints every byte of the memory between the start and the end asked
\* for, for all sizes of words up to 2^31 bytes and of lines that its 32-bit loops can
\* count; of larger words it prints nothing.
THEOREM DumpCoversRequestHolds == Spec => []DumpCoversRequest
  <1>1. StatusInv => DumpCoversRequest
    <2>1. SUFFICES ASSUME StatusInv, Dumped, Ordinary(Request), Request.word <= Half \div 2,
                          NEW b \in Request.start .. Min({Request.end, MemSize}) - 1
                   PROVE  b \in shown.bytes
      BY DEF DumpCoversRequest
    <2>2. PICK d \in Requests : d = Request
      BY <2>1 DEF StatusInv, DumpInv
    <2>3. shown.bytes = dump_mem(d) /\ Ordinary(d) /\ d.word <= Half \div 2
      BY <2>1, <2>2 DEF StatusInv, DumpInv
    <2>4. d.start \in Nat /\ d.end \in Nat /\ MemSize \in Nat
      BY MemSizeAssumption, WordFacts, RangeFacts DEF Requests
    <2>5. Min({d.end, MemSize}) = IF d.end <= MemSize THEN d.end ELSE MemSize
      BY <2>4, MinOfTwo
    <2>6. b \in Nat /\ b >= d.start /\ b < d.end /\ b < MemSize
      BY <2>1, <2>2, <2>4, <2>5
    <2>7. QED
      BY <2>3, <2>6, DumpCovers
  <1>2. QED
    BY <1>1, StatusInductive, PTL

\* mini_kvm_dump_mem stays between the addresses it announces but for the one word at its
\* end, and prints nothing when the start lies beyond the end or the memory.
THEOREM DumpWithinHeaderHolds == Spec => []DumpWithinHeader
  <1>1. StatusInv => DumpWithinHeader
    <2>1. SUFFICES ASSUME StatusInv, Dumped, Ordinary(Request) PROVE DumpWithinHeader
      BY DEF DumpWithinHeader
    <2>2. PICK d \in Requests : d = Request
      BY <2>1 DEF StatusInv, DumpInv
    <2>3. shown.bytes = dump_mem(d) /\ shown.range = <<first(d), limit(d)>> /\ Ordinary(d)
      BY <2>1, <2>2 DEF StatusInv, DumpInv
    <2>4. dump_mem(d) \subseteq IF first(d) > limit(d) THEN {} ELSE first(d) .. limit(d) + d.word - 1
      BY <2>3, DumpWithin
    <2>5. shown.range[1] = first(d) /\ shown.range[2] = limit(d)
      BY <2>3
    <2>6. QED
      BY <2>2, <2>3, <2>4, <2>5, Zenon DEF DumpWithinHeader
  <1>2. QED
    BY <1>1, StatusInductive, PTL

(* The strings of -v and -m, cut at their commas *)

\* Cuts are positions of the string or its two ends; between the ends they are the commas.
LEMMA CutsFacts ==
  ASSUME NEW s \in Seq(Chars)
  PROVE  /\ Cuts(s) \subseteq 0 .. Len(s) + 1 /\ 0 \in Cuts(s) /\ Len(s) + 1 \in Cuts(s)
         /\ IsFiniteSet(Cuts(s))
         /\ \A c \in 1 .. Len(s) : c \in Cuts(s) <=> s[c] = Comma
  <1>1. /\ Cuts(s) \subseteq 0 .. Len(s) + 1 /\ 0 \in Cuts(s) /\ Len(s) + 1 \in Cuts(s)
        /\ \A c \in 1 .. Len(s) : c \in Cuts(s) <=> s[c] = Comma
    BY DEF Cuts
  <1>2. IsFiniteSet(0 .. Len(s) + 1)
    BY FS_Interval
  <1>3. QED
    BY <1>1, <1>2, FS_Subset

LEMMA RankType ==
  ASSUME NEW s \in Seq(Chars), NEW c
  PROVE  IsFiniteSet({b \in Cuts(s) : b < c}) /\ Rank(s, c) \in Nat
  <1>1. PICK B \in SUBSET Cuts(s) : B = {b \in Cuts(s) : b < c}
    OBVIOUS
  <1>2. IsFiniteSet(B)
    BY CutsFacts, FS_Subset
  <1>3. QED
    BY <1>1, <1>2, FS_CardinalityType DEF Rank

\* A later cut has more cuts before it, the next one exactly one more.
LEMMA RankLater ==
  ASSUME NEW s \in Seq(Chars), NEW c \in Cuts(s), NEW n \in Cuts(s), c < n
  PROVE  Rank(s, c) < Rank(s, n)
  <1>1. PICK B, D : B = {b \in Cuts(s) : b < c} /\ D = {b \in Cuts(s) : b < n}
    OBVIOUS
  <1>2. \A b \in Cuts(s) : b \in Int
    BY CutsFacts
  <1>3. B \in SUBSET D /\ c \in D /\ c \notin B
    BY <1>1, <1>2
  <1>4. IsFiniteSet(D) /\ Rank(s, n) = Cardinality(D) /\ Rank(s, c) = Cardinality(B)
    BY <1>1, RankType DEF Rank
  <1>5. Cardinality(B) <= Cardinality(D) /\ (Cardinality(D) = Cardinality(B) => D = B)
    BY <1>3, <1>4, FS_Subset, Zenon
  <1>6. Cardinality(D) # Cardinality(B)
    BY <1>3, <1>5
  <1>7. Rank(s, c) \in Nat /\ Rank(s, n) \in Nat
    BY RankType
  <1>8. QED
    BY <1>4, <1>5, <1>6, <1>7

LEMMA RankNext ==
  ASSUME NEW s \in Seq(Chars), NEW c \in Cuts(s), NEW n \in Cuts(s), c < n,
         \A b \in Cuts(s) : ~ (c < b /\ b < n)
  PROVE  Rank(s, n) = Rank(s, c) + 1
  <1>1. PICK B, D : B = {b \in Cuts(s) : b < c} /\ D = {b \in Cuts(s) : b < n}
    OBVIOUS
  <1>2. \A b \in Cuts(s) : b \in Int
    BY CutsFacts
  <1>3. D = B \cup {c} /\ c \notin B
    BY <1>1, <1>2
  <1>4. IsFiniteSet(B) /\ Rank(s, n) = Cardinality(D) /\ Rank(s, c) = Cardinality(B)
    BY <1>1, RankType DEF Rank
  <1>5. QED
    BY <1>3, <1>4, FS_AddElement

LEMMA CutIs == ASSUME NEW s \in Seq(Chars), NEW c \in Cuts(s) PROVE Cut(s, Rank(s, c)) = c
  <1>1. ASSUME NEW b \in Cuts(s), Rank(s, b) = Rank(s, c) PROVE b = c
    <2>1. b \in Int /\ c \in Int
      BY CutsFacts
    <2>2. Rank(s, b) \in Nat
      BY RankType
    <2>3. CASE b < c
      BY <1>1, <2>2, <2>3, RankLater
    <2>4. CASE c < b
      BY <1>1, <2>2, <2>4, RankLater
    <2>5. QED
      BY <2>1, <2>3, <2>4
  <1>2. QED
    BY <1>1 DEF Cut

\* The rank of the first cut, and of the last.
LEMMA RankEnds ==
  ASSUME NEW s \in Seq(Chars)
  PROVE  Rank(s, 0) = 0 /\ Rank(s, Len(s) + 1) = NFields(s) /\ NFields(s) \in Nat
  <1>1. \A b \in Cuts(s) : b \in 0 .. Len(s) + 1
    BY CutsFacts
  <1>2. {b \in Cuts(s) : b < 0} = {}
    BY <1>1
  <1>3. Rank(s, 0) = 0
    BY <1>2, FS_EmptySet DEF Rank
  <1>4. {b \in Cuts(s) : b < Len(s) + 1} = Cuts(s) \ {Len(s) + 1}
    BY <1>1
  <1>5. Cardinality(Cuts(s) \ {Len(s) + 1}) = Cardinality(Cuts(s)) - 1
    BY CutsFacts, FS_RemoveElement
  <1>6. Rank(s, Len(s) + 1) = NFields(s)
    BY <1>4, <1>5 DEF Rank, NFields
  <1>7. QED
    BY <1>3, <1>6, RankType

\* The field that starts after a cut ends before the next one.
LEMMA FieldAfter ==
  ASSUME NEW s \in Seq(Chars), NEW c \in Cuts(s), c <= Len(s)
  PROVE  \E n \in Cuts(s) :
            /\ n \in c + 1 .. Len(s) + 1 /\ \A j \in c + 1 .. n - 1 : s[j] # Comma
            /\ Rank(s, n) = Rank(s, c) + 1 /\ Rank(s, n) \in 1 .. NFields(s)
            /\ Fields(s)[Rank(s, n)] = SubSeq(s, c + 1, n - 1)
  <1> DEFINE T == {b \in Cuts(s) : c < b}
  <1>1. \A b \in Cuts(s) : b \in 0 .. Len(s) + 1
    BY CutsFacts
  <1>2. T \in SUBSET Nat /\ T # {}
    <2>1. Len(s) + 1 \in T
      BY <1>1, CutsFacts
    <2>2. QED
      BY <1>1, <2>1
  <1>3. PICK n \in T : \A y \in T : n <= y
    <2> HIDE DEF T
    <2>1. QED
      BY <1>2, Least
  <1>4. n \in Cuts(s) /\ n \in c + 1 .. Len(s) + 1 /\ c \in 0 .. Len(s)
    BY <1>1
  <1>5. \A b \in Cuts(s) : ~ (c < b /\ b < n)
    BY <1>1, <1>3, <1>4
  <1>6. ASSUME NEW j \in c + 1 .. n - 1 PROVE s[j] # Comma
    <2>1. j \in 1 .. Len(s) /\ c < j /\ j < n
      BY <1>4
    <2>2. QED
      BY <1>5, <2>1, CutsFacts
  <1>7. Rank(s, n) = Rank(s, c) + 1 /\ Rank(s, c) \in Nat
    <2>1. c < n
      BY <1>4
    <2>2. QED
      BY <1>4, <1>5, <2>1, RankNext, RankType
  <1>8. Rank(s, n) <= NFields(s)
    <2>1. CASE n = Len(s) + 1
      BY <2>1, RankEnds
    <2>2. CASE n < Len(s) + 1
      <3>1. Rank(s, n) < Rank(s, Len(s) + 1)
        BY <1>4, <2>2, CutsFacts, RankLater
      <3>2. QED
        BY <1>7, <3>1, RankEnds
    <2>3. QED
      BY <1>4, <2>1, <2>2
  <1>9. PICK k \in 1 .. NFields(s) : k = Rank(s, n) /\ k - 1 = Rank(s, c)
    BY <1>7, <1>8, RankEnds
  <1>10. Cut(s, k - 1) = c /\ Cut(s, k) = n
    BY <1>4, <1>9, CutIs
  <1>11. Fields(s)[k] = SubSeq(s, Cut(s, k - 1) + 1, Cut(s, k) - 1)
    BY DEF Fields
  <1>12. QED
    BY <1>4, <1>6, <1>7, <1>9, <1>10, <1>11

\* The numbers of the fields after the first r.
Values(s, r) == [m \in 1 .. NFields(s) - r |-> Number(Fields(s)[r + m])]

LEMMA ValuesNext ==
  ASSUME NEW s \in Seq(Chars), NEW r \in Nat, NEW k \in 1 .. NFields(s), k = r + 1
  PROVE  Values(s, r) = <<Number(Fields(s)[k])>> \o Values(s, k)
  <1>1. PICK N \in Nat : N = NFields(s)
    BY RankEnds
  <1>2. PICK g : g = [j \in 1 .. N |-> Number(Fields(s)[j])]
    OBVIOUS
  <1>3. \A q \in Nat : q <= N => Values(s, q) = [m \in 1 .. N - q |-> g[q + m]]
    <2>1. SUFFICES ASSUME NEW q \in Nat, q <= N
                   PROVE  Values(s, q) = [m \in 1 .. N - q |-> g[q + m]]
      OBVIOUS
    <2>2. \A m \in 1 .. N - q : q + m \in 1 .. N
      BY <2>1
    <2>3. \A m \in 1 .. N - q : g[q + m] = Number(Fields(s)[q + m])
      BY <1>2, <2>2
    <2>4. QED
      BY <1>1, <2>3 DEF Values
  <1>4. PICK S : S = {g[j] : j \in 1 .. N}
    OBVIOUS
  <1>5. \A j \in 1 .. N : g[j] \in S
    BY <1>4
  <1>6. PICK a, b : a = [m \in 1 .. N - r |-> g[r + m]] /\ b = [m \in 1 .. N - k |-> g[k + m]]
    OBVIOUS
  <1>7. /\ a \in Seq(S) /\ b \in Seq(S) /\ Len(a) = N - r /\ Len(b) = N - k
    <2>1. \A m \in 1 .. N - r : g[r + m] \in S
      BY <1>1, <1>5
    <2>2. \A m \in 1 .. N - k : g[k + m] \in S
      BY <1>1, <1>5
    <2>3. N - r \in Nat /\ N - k \in Nat
      BY <1>1
    <2>4. QED
      BY <1>6, <2>1, <2>2, <2>3
  <1>8. a = <<g[k]>> \o b
    <2>1. PICK c \in Seq(S) : c = <<g[k]>> \o b /\ Len(c) = N - r
      <3>1. PICK x \in S : x = g[k]
        BY <1>1, <1>5
      <3>2. <<x>> \o b \in Seq(S) /\ Len(<<x>> \o b) = 1 + Len(b)
        BY <1>7
      <3>3. 1 + Len(b) = N - r
        BY <1>1, <1>7
      <3>4. QED
        BY <3>1, <3>2, <3>3
    <2>2. ASSUME NEW m \in 1 .. N - r PROVE a[m] = c[m]
      <3>1. a[m] = g[r + m]
        BY <1>6
      <3>2. CASE m = 1
        <4>1. c[1] = g[k]
          BY <1>7, <2>1
        <4>2. QED
          BY <3>1, <3>2, <4>1
      <3>3. CASE m # 1
        <4>1. m - 1 \in 1 .. N - k /\ k + (m - 1) = r + m
          BY <1>1, <3>3
        <4>2. c[m] = b[m - 1]
          BY <1>7, <2>1, <3>3
        <4>3. b[m - 1] = g[k + (m - 1)]
          BY <1>6, <4>1
        <4>4. QED
          BY <3>1, <4>1, <4>2, <4>3
      <3>4. QED
        BY <3>2, <3>3
    <2>3. QED
      BY <1>7, <2>1, <2>2
  <1>9. Values(s, r) = a /\ Values(s, k) = b
    <2>1. r <= N /\ k \in Nat /\ k <= N
      BY <1>1
    <2>2. QED
      BY <1>3, <1>6, <2>1, Zenon
  <1>10. g[k] = Number(Fields(s)[k])
    BY <1>1, <1>2
  <1>11. QED
    BY <1>8, <1>9, <1>10

LEMMA ValuesEnd == ASSUME NEW s \in Seq(Chars) PROVE Values(s, NFields(s)) = <<>>
  <1>1. NFields(s) - NFields(s) = 0
    BY RankEnds
  <1>2. QED
    BY <1>1 DEF Values

\* What is written after cut i is a list: mini_kvm_parse_int_list, whose result from i on
\* is f[i], accepts it and nothing else, and returns its numbers.
TailGood(s, i) ==
    /\ \A j \in i + 1 .. Len(s) : s[j] \in Digits \cup {Comma}
    /\ s[Len(s)] # Comma
    /\ \A k \in Rank(s, i) + 1 .. NFields(s) : Number(Fields(s)[k]) < Word
Means(s, f, i) ==
    /\ (f[i].ret = "SUCCESS") <=> TailGood(s, i)
    /\ f[i].ret = "SUCCESS" => f[i].list = Values(s, Rank(s, i))

\* One turn, from a cut: the turns from the next cut on are as they should be.
LEMMA TurnMeans ==
  ASSUME NEW s \in Seq(Chars), NEW f,
         \A i \in 0 .. Len(s) : f[i] = Take(s, f, i) /\ f[i] \in ParsedLists,
         NEW i \in Cuts(s), i < Len(s),
         \A c \in Cuts(s) : i < c /\ c < Len(s) => Means(s, f, c)
  PROVE  Means(s, f, i)
  <1>1. PICK n \in Cuts(s) :
            /\ n \in i + 1 .. Len(s) + 1 /\ \A j \in i + 1 .. n - 1 : s[j] # Comma
            /\ Rank(s, n) = Rank(s, i) + 1 /\ Rank(s, n) \in 1 .. NFields(s)
            /\ Fields(s)[Rank(s, n)] = SubSeq(s, i + 1, n - 1)
    <2>1. i <= Len(s)
      BY CutsFacts
    <2>2. QED
      BY <2>1, FieldAfter
  <1>2. PICK r \in Nat, k \in 1 .. NFields(s) : r = Rank(s, i) /\ k = Rank(s, n) /\ k = r + 1
    BY <1>1, RankType
  <1>3. PICK v : v = Number(SubSeq(s, i + 1, n - 1)) /\ v = Number(Fields(s)[k])
    BY <1>1, <1>2
  <1>4. i \in 0 .. Len(s) - 1 /\ i \in 0 .. Len(s) /\ i # Len(s) /\ Len(s) \in Nat /\ NFields(s) \in Nat
    BY CutsFacts, RankEnds
  <1>5. n = Len(s) + 1 \/ s[n] = Comma
    <2>1. n \in 1 .. Len(s) + 1
      BY <1>1, <1>4
    <2>2. QED
      BY <2>1, CutsFacts
  <1>6. f[i] = Take(s, f, i)
    BY <1>4
  <1>7. field_result(s, i) # "SUCCESS" => f[i].ret # "SUCCESS"
    BY <1>4, <1>6 DEF Take
  <1>8. CASE ~ \A j \in i + 1 .. n - 1 : s[j] \in Digits
    <2>1. field_result(s, i) # "SUCCESS"
      BY <1>1, <1>4, <1>8, FieldRefused
    <2>2. PICK j \in i + 1 .. n - 1 : s[j] \notin Digits /\ s[j] # Comma
      BY <1>1, <1>8
    <2>3. j \in i + 1 .. Len(s) /\ s[j] \notin Digits \cup {Comma}
      BY <1>1, <1>4, <2>2
    <2>4. ~ TailGood(s, i)
      BY <2>3 DEF TailGood
    <2>5. QED
      BY <1>7, <2>1, <2>4 DEF Means
  <1>9. CASE \A j \in i + 1 .. n - 1 : s[j] \in Digits
    <2>1. /\ v \in Nat
          /\ n # Len(s) => field_result(s, i) = IF v < Word THEN "SUCCESS" ELSE "FAILED"
          /\ n = Len(s) => field_result(s, i) = "FAILED"
          /\ v < Word => field(s, i).dst = v
          /\ offset(s, i) = IF n = Len(s) + 1 THEN Len(s) - i ELSE n - i
      <3>1. n \in i + 1 .. Len(s) + 1
        BY <1>1
      <3>2. v = Number(SubSeq(s, i + 1, n - 1)) /\ i \in 0 .. Len(s) - 1
        BY <1>3, <1>4
      <3>3. QED
        BY <1>5, <1>9, <3>1, <3>2, FieldIs
    <2>2. CASE n = Len(s)
      <3>1. s[Len(s)] = Comma /\ field_result(s, i) = "FAILED"
        BY <1>4, <1>5, <2>1, <2>2
      <3>2. ~ TailGood(s, i)
        BY <3>1 DEF TailGood
      <3>3. QED
        BY <1>7, <3>1, <3>2 DEF Means
    <2>3. CASE n # Len(s) /\ ~ (v < Word)
      <3>1. field_result(s, i) # "SUCCESS"
        BY <2>1, <2>3
      <3>2. k \in Rank(s, i) + 1 .. NFields(s)
        BY <1>2, <1>4
      <3>3. ~ TailGood(s, i)
        BY <1>3, <2>3, <3>2 DEF TailGood
      <3>4. QED
        BY <1>7, <3>1, <3>3 DEF Means
    <2>4. ASSUME n # Len(s), v < Word
          PROVE  /\ f[i].ret = f[i + offset(s, i)].ret
                 /\ f[i].list = <<v>> \o f[i + offset(s, i)].list
      <3>1. field_result(s, i) = "SUCCESS" /\ field(s, i).dst = v
        BY <2>1, <2>4
      <3>2. QED
        BY <1>4, <1>6, <3>1, SMTT(30) DEF Take
    <2>5. Values(s, r) = <<v>> \o Values(s, k)
      BY <1>2, <1>3, ValuesNext
    <2>6. CASE n = Len(s) + 1 /\ v < Word
      <3>1. i + offset(s, i) = Len(s) /\ n # Len(s)
        BY <1>4, <2>1, <2>6
      <3>2. f[Len(s)] = [ret |-> "SUCCESS", list |-> <<>>]
        <4>1. f[Len(s)] = Take(s, f, Len(s))
          BY <1>4
        <4>2. QED
          BY <4>1 DEF Take
      <3>3. f[i].ret = "SUCCESS" /\ f[i].list = <<v>> \o <<>>
        BY <2>4, <2>6, <3>1, <3>2
      <3>4. k = NFields(s)
        BY <1>2, <2>6, RankEnds
      <3>5. f[i].list = Values(s, r)
        BY <2>5, <3>3, <3>4, ValuesEnd
      <3>6. TailGood(s, i)
        <4>1. \A j \in i + 1 .. Len(s) : s[j] \in Digits
          BY <1>4, <1>9, <2>6
        <4>2. s[Len(s)] # Comma
          <5>1. Len(s) \in i + 1 .. Len(s)
            BY <1>4
          <5>2. QED
            BY <4>1, <5>1 DEF Digits, Comma
        <4>3. \A x \in Rank(s, i) + 1 .. NFields(s) : x = k
          BY <1>2, <3>4
        <4>4. \A x \in Rank(s, i) + 1 .. NFields(s) : Number(Fields(s)[x]) < Word
          BY <1>3, <2>6, <4>3
        <4>5. QED
          BY <4>1, <4>2, <4>4 DEF TailGood
      <3>7. QED
        BY <1>2, <3>3, <3>5, <3>6 DEF Means
    <2>7. CASE n < Len(s) /\ v < Word
      <3>1. i + offset(s, i) = n /\ n # Len(s) /\ i < n /\ n \in Nat
        BY <1>1, <1>4, <2>1, <2>7
      <3>2. f[i].ret = f[n].ret /\ f[i].list = <<v>> \o f[n].list
        BY <2>4, <2>7, <3>1
      <3>3. Means(s, f, n)
        BY <2>7, <3>1
      <3>4. f[n].ret = "SUCCESS" => f[i].list = Values(s, r)
        BY <1>2, <2>5, <3>2, <3>3 DEF Means
      <3>5. TailGood(s, i) <=> TailGood(s, n)
        <4>1. \A j \in i + 1 .. Len(s) : j \in i + 1 .. n - 1 \/ j = n \/ j \in n + 1 .. Len(s)
          BY <1>4, <3>1
        <4>2. \A j \in n + 1 .. Len(s) : j \in i + 1 .. Len(s)
          BY <1>4, <3>1
        <4>3. s[n] = Comma
          BY <1>5, <2>7, <1>4, <3>1
        <4>4. (\A j \in i + 1 .. Len(s) : s[j] \in Digits \cup {Comma})
                 <=> \A j \in n + 1 .. Len(s) : s[j] \in Digits \cup {Comma}
          BY <1>9, <4>1, <4>2, <4>3
        <4>5. \A x \in r + 1 .. NFields(s) : x = k \/ x \in k + 1 .. NFields(s)
          BY <1>2, <1>4
        <4>6. \A x \in k + 1 .. NFields(s) : x \in r + 1 .. NFields(s)
          BY <1>2, <1>4
        <4>7. (\A x \in r + 1 .. NFields(s) : Number(Fields(s)[x]) < Word)
                 <=> \A x \in k + 1 .. NFields(s) : Number(Fields(s)[x]) < Word
          BY <1>3, <2>7, <4>5, <4>6
        <4>8. QED
          BY <1>2, <4>4, <4>7 DEF TailGood
      <3>6. QED
        BY <1>2, <3>2, <3>3, <3>4, <3>5 DEF Means
    <2>8. n = Len(s) \/ n = Len(s) + 1 \/ n < Len(s)
      <3>1. n \in 0 .. Len(s) + 1
        BY CutsFacts
      <3>2. QED
        BY <1>4, <3>1
    <2>9. n = Len(s) + 1 => n # Len(s)
      BY <1>4
    <2>10. n < Len(s) => n # Len(s)
      BY <1>4
    <2>11. QED
      BY <2>2, <2>3, <2>6, <2>7, <2>8, <2>9, <2>10, Zenon
  <1>10. QED
    BY <1>8, <1>9

\* mini_kvm_parse_int_list accepts the well formed lists and no others, and returns the
\* numbers between their commas, whatever the length of the string.
THEOREM ParseMeans ==
  ASSUME NEW s \in Seq(Chars)
  PROVE  /\ (parse_int_list(s).ret = "SUCCESS") <=> WellFormed(s)
         /\ parse_int_list(s).ret = "SUCCESS" => parse_int_list(s).list = Denoted(s)
  <1>1. PICK f : /\ parse_int_list(s) = f[0]
                 /\ \A i \in 0 .. Len(s) : f[i] = Take(s, f, i) /\ f[i] \in ParsedLists
    BY ListEquation
  <1>2. CASE s = <<>>
    <2>1. Len(s) = 0 /\ 0 \in 0 .. Len(s)
      BY <1>2
    <2>2. f[0] = [ret |-> "SUCCESS", list |-> <<>>]
      BY <1>1, <2>1 DEF Take
    <2>3. WellFormed(s) /\ Denoted(s) = <<>>
      BY <1>2 DEF WellFormed, Denoted
    <2>4. QED
      BY <1>1, <2>2, <2>3
  <1>3. CASE s # <<>>
    <2> DEFINE T == {m \in 0 .. Len(s) : Len(s) - m \in Cuts(s) /\ m # 0 /\ ~ Means(s, f, Len(s) - m)}
    <2>1. Len(s) \in Nat /\ Len(s) > 0
      BY <1>3
    <2>2. ASSUME T # {} PROVE FALSE
      <3>1. PICK m \in T : \A y \in T : m <= y
        <4>1. T \in SUBSET Nat
          OBVIOUS
        <4> HIDE DEF T
        <4>2. QED
          BY <2>2, <4>1, Least
      <3>2. PICK i \in Cuts(s) : i = Len(s) - m /\ i < Len(s) /\ ~ Means(s, f, i)
        <4>1. m \in 0 .. Len(s) /\ Len(s) - m \in Cuts(s) /\ m # 0 /\ ~ Means(s, f, Len(s) - m)
          OBVIOUS
        <4>2. Len(s) - m < Len(s)
          BY <2>1, <4>1
        <4>3. QED
          BY <4>1, <4>2, Zenon
      <3>3. ASSUME NEW c \in Cuts(s), i < c, c < Len(s) PROVE Means(s, f, c)
        <4>1. c \in 0 .. Len(s) + 1 /\ m \in 0 .. Len(s)
          BY CutsFacts
        <4>2. PICK y \in 0 .. Len(s) : y = Len(s) - c /\ y # 0 /\ ~ (m <= y) /\ Len(s) - y = c
          <5>1. /\ Len(s) - c \in 0 .. Len(s) /\ Len(s) - c # 0
                /\ Len(s) - (Len(s) - c) = c
            BY <2>1, <3>3, <4>1
          <5>2. ~ (m <= Len(s) - c)
            BY <2>1, <3>2, <3>3, <4>1
          <5>3. QED
            BY <5>1, <5>2
        <4>3. y \notin T
          BY <3>1, <4>2
        <4>4. QED
          BY <4>2, <4>3
      <3>4. Means(s, f, i)
        <4> HIDE DEF T
        <4>1. QED
          BY <1>1, <3>2, <3>3, TurnMeans
      <3>5. QED
        BY <3>2, <3>4
    <2>3. Means(s, f, 0)
      <3>1. Len(s) \in 0 .. Len(s) /\ Len(s) - Len(s) = 0 /\ Len(s) # 0
        BY <2>1
      <3>2. 0 \in Cuts(s)
        BY CutsFacts
      <3>3. Len(s) \notin T
        <4> HIDE DEF T
        <4>1. QED
          BY <2>2
      <3>4. QED
        BY <3>1, <3>2, <3>3
    <2>4. DOMAIN Fields(s) = 1 .. NFields(s)
      BY DEF Fields
    <2>5. Denoted(s) = [k \in 1 .. NFields(s) |-> Number(Fields(s)[k])]
      BY <1>3, <2>4, Zenon DEF Denoted
    <2>6. Values(s, 0) = Denoted(s)
      <3>1. NFields(s) - 0 = NFields(s)
        BY RankEnds
      <3>2. \A m \in 1 .. NFields(s) : 0 + m = m
        BY RankEnds
      <3>3. QED
        BY <2>5, <3>1, <3>2 DEF Values
    <2>7. WellFormed(s) <=> TailGood(s, 0)
      <3>1. DOMAIN s = 1 .. Len(s) /\ 0 + 1 = 1
        OBVIOUS
      <3>2. Last(s) = s[Len(s)]
        BY DEF Last
      <3>3. DOMAIN Denoted(s) = 1 .. NFields(s)
        BY <2>5
      <3>4. \A k \in 1 .. NFields(s) : Denoted(s)[k] = Number(Fields(s)[k])
        BY <2>5
      <3>5. (\A k \in DOMAIN Denoted(s) : Denoted(s)[k] < Word) <=>
               \A k \in 1 .. NFields(s) : Number(Fields(s)[k]) < Word
        BY <3>3, <3>4
      <3>6. Rank(s, 0) = 0
        BY RankEnds
      <3>7. TailGood(s, 0) <=> /\ \A j \in DOMAIN s : s[j] \in Digits \cup {Comma}
                               /\ Last(s) # Comma
                               /\ \A k \in DOMAIN Denoted(s) : Denoted(s)[k] < Word
        BY <3>1, <3>2, <3>5, <3>6 DEF TailGood
      <3>8. QED
        BY <1>3, <3>7, Zenon DEF WellFormed
    <2>8. Rank(s, 0) = 0
      BY RankEnds
    <2>9. QED
      BY <1>1, <2>3, <2>6, <2>7, <2>8 DEF Means
  <1>4. QED
    BY <1>2, <1>3

(* The options of a line, as they are written *)

\* What ListsAsWritten and MaskAsWritten say of a line of options q.
Of(q, letter) == {i \in DOMAIN q : q[i].opt = letter}
Accepted(q) == Of(q, "h") = {} /\ \A i \in DOMAIN q : WellFormed(q[i].str)
LastList(q) == IF Of(q, "m") = {} THEN NoList ELSE Denoted(q[Max(Of(q, "m"))].str)
Numbers(q) == UNION {ToSet(Denoted(q[i].str)) : i \in Of(q, "v")}
Small(numbers) == \A n \in numbers : n < IntBits - 1

LEMMA OptionAppended ==
  ASSUME NEW q \in Seq(OptionRecords), NEW o \in OptionRecords, NEW z, z = Append(q, o)
  PROVE  /\ DOMAIN z = DOMAIN q \cup {Len(q) + 1} /\ z[Len(q) + 1] = o
         /\ \A i \in DOMAIN q : z[i] = q[i] /\ i \in Int /\ i < Len(q) + 1
  OBVIOUS

LEMMA OfAppended ==
  ASSUME NEW q \in Seq(OptionRecords), NEW o \in OptionRecords, NEW z, z = Append(q, o),
         NEW letter \in {"v", "m", "r", "h"}
  PROVE  Of(z, letter) = IF o.opt = letter THEN Of(q, letter) \cup {Len(q) + 1} ELSE Of(q, letter)
  <1>1. /\ DOMAIN z = DOMAIN q \cup {Len(q) + 1} /\ z[Len(q) + 1] = o
        /\ \A i \in DOMAIN q : z[i] = q[i]
    BY OptionAppended
  <1>2. QED
    BY <1>1 DEF Of

\* The last one of some options is one of them.
LEMMA LastOption ==
  ASSUME NEW q \in Seq(OptionRecords), NEW letter, Of(q, letter) # {}
  PROVE  Max(Of(q, letter)) \in Of(q, letter)
  <1>1. PICK L \in Nat : L = Len(q) /\ DOMAIN q = 1 .. L
    OBVIOUS
  <1>2. PICK S \in SUBSET (1 .. L) : S = Of(q, letter) /\ S # {}
    BY <1>1 DEF Of
  <1> DEFINE T == {L - x : x \in S}
  <1>3. T \in SUBSET Nat /\ T # {}
    <2>1. \A x \in S : L - x \in Nat
      OBVIOUS
    <2>2. QED
      BY <1>2, <2>1
  <1>4. \E x \in T : \A y \in T : x <= y
    <2> HIDE DEF T
    <2> QED
      BY <1>3, Least
  <1>5. PICK m \in S : \A y \in S : L - m <= L - y
    BY <1>4
  <1>6. (\A y \in S : y <= m) /\ S \in SUBSET Int
    BY <1>5
  <1>7. Max(S) = m
    BY <1>6, MaxIs
  <1>8. QED
    BY <1>2, <1>7

LEMMA AcceptedAppended ==
  ASSUME NEW q \in Seq(OptionRecords), NEW o \in OptionRecords, NEW z, z = Append(q, o)
  PROVE  Accepted(z) <=> Accepted(q) /\ o.opt # "h" /\ WellFormed(o.str)
  <1>1. /\ DOMAIN z = DOMAIN q \cup {Len(q) + 1} /\ z[Len(q) + 1] = o
        /\ \A i \in DOMAIN q : z[i] = q[i]
    BY OptionAppended
  <1>2. Of(z, "h") = IF o.opt = "h" THEN Of(q, "h") \cup {Len(q) + 1} ELSE Of(q, "h")
    BY OfAppended
  <1>3. Of(z, "h") = {} <=> Of(q, "h") = {} /\ o.opt # "h"
    BY <1>2
  <1>4. (\A i \in DOMAIN z : WellFormed(z[i].str)) <=>
           (\A i \in DOMAIN q : WellFormed(q[i].str)) /\ WellFormed(o.str)
    BY <1>1
  <1>5. QED
    BY <1>3, <1>4 DEF Accepted

LEMMA LastListAppended ==
  ASSUME NEW q \in Seq(OptionRecords), NEW o \in OptionRecords, NEW z, z = Append(q, o)
  PROVE  LastList(z) = IF o.opt = "m" THEN Denoted(o.str) ELSE LastList(q)
  <1>1. /\ z[Len(q) + 1] = o
        /\ \A i \in DOMAIN q : z[i] = q[i] /\ i \in Int /\ i < Len(q) + 1
    BY OptionAppended
  <1>2. Of(z, "m") = IF o.opt = "m" THEN Of(q, "m") \cup {Len(q) + 1} ELSE Of(q, "m")
    BY OfAppended
  <1>3. CASE o.opt = "m"
    <2>1. PICK S \in SUBSET Int : S = Of(z, "m") /\ Len(q) + 1 \in S /\ \A y \in S : y <= Len(q) + 1
      <3>1. \A y \in Of(q, "m") : y \in Int /\ y <= Len(q) + 1
        BY <1>1 DEF Of
      <3>2. Len(q) + 1 \in Int /\ Len(q) + 1 <= Len(q) + 1
        OBVIOUS
      <3>3. QED
        BY <1>2, <1>3, <3>1, <3>2
    <2>2. Max(S) = Len(q) + 1
      BY <2>1, MaxIs
    <2>3. QED
      BY <1>1, <1>3, <2>1, <2>2 DEF LastList
  <1>4. CASE o.opt # "m"
    <2>1. Of(z, "m") = Of(q, "m")
      BY <1>2, <1>4
    <2>2. CASE Of(q, "m") = {}
      BY <1>4, <2>1, <2>2 DEF LastList
    <2>3. CASE Of(q, "m") # {}
      <3>1. Max(Of(q, "m")) \in DOMAIN q
        <4>1. Max(Of(q, "m")) \in Of(q, "m")
          BY <2>3, LastOption
        <4>2. QED
          BY <4>1 DEF Of
      <3>2. z[Max(Of(q, "m"))] = q[Max(Of(q, "m"))]
        BY <1>1, <3>1
      <3>3. QED
        BY <1>4, <2>1, <2>3, <3>2 DEF LastList
    <2>4. QED
      BY <2>2, <2>3
  <1>5. QED
    BY <1>3, <1>4

LEMMA NumbersAppended ==
  ASSUME NEW q \in Seq(OptionRecords), NEW o \in OptionRecords, NEW z, z = Append(q, o)
  PROVE  Numbers(z) = IF o.opt = "v" THEN Numbers(q) \cup ToSet(Denoted(o.str)) ELSE Numbers(q)
  <1>1. z[Len(q) + 1] = o /\ \A i \in DOMAIN q : z[i] = q[i]
    BY OptionAppended
  <1>2. Of(z, "v") = IF o.opt = "v" THEN Of(q, "v") \cup {Len(q) + 1} ELSE Of(q, "v")
    BY OfAppended
  <1>3. \A i \in Of(q, "v") : z[i] = q[i]
    BY <1>1 DEF Of
  <1>4. CASE o.opt = "v"
    <2>1. Of(z, "v") = Of(q, "v") \cup {Len(q) + 1}
      BY <1>2, <1>4
    <2>2. \A i \in Of(q, "v") : ToSet(Denoted(z[i].str)) = ToSet(Denoted(q[i].str))
      BY <1>3
    <2>3. ToSet(Denoted(z[Len(q) + 1].str)) = ToSet(Denoted(o.str))
      BY <1>1
    <2>4. \A x : x \in Numbers(z) <=> x \in Numbers(q) \/ x \in ToSet(Denoted(o.str))
      BY <2>1, <2>2, <2>3, Zenon DEF Numbers
    <2>5. QED
      BY <1>4, <2>4
  <1>5. CASE o.opt # "v"
    BY <1>2, <1>3, <1>5 DEF Numbers
  <1>6. QED
    BY <1>4, <1>5

\* The mask gets the numbers of a list that are small enough, each as its own bit.
LEMMA MaskMeans ==
  ASSUME NEW s \in Seq(Chars), NEW mask
  PROVE  /\ (parse_cpu_list(s, mask).ret = "SUCCESS") <=> WellFormed(s)
         /\ WellFormed(s) /\ Small(ToSet(Denoted(s))) =>
                parse_cpu_list(s, mask).mask = mask \cup ToSet(Denoted(s))
  <1>1. PICK p \in ParsedLists : p = parse_int_list(s)
    BY ListType
  <1>2. parse_cpu_list(s, mask) =
            IF p.ret # "SUCCESS" THEN [ret |-> "INTERNAL_ERROR", mask |-> mask]
            ELSE [ret |-> "SUCCESS", mask |-> mask \cup UNION {shifted(n) : n \in ToSet(p.list)}]
    BY <1>1, Zenon DEF parse_cpu_list
  <1>3. ((p.ret = "SUCCESS") <=> WellFormed(s)) /\ (p.ret = "SUCCESS" => p.list = Denoted(s))
    BY <1>1, ParseMeans
  <1>4. (parse_cpu_list(s, mask).ret = "SUCCESS") <=> WellFormed(s)
    <2>1. CASE p.ret # "SUCCESS"
      BY <1>2, <1>3, <2>1
    <2>2. CASE p.ret = "SUCCESS"
      BY <1>2, <1>3, <2>2
    <2>3. QED
      BY <2>1, <2>2
  <1>5. ASSUME WellFormed(s), Small(ToSet(Denoted(s)))
        PROVE  parse_cpu_list(s, mask).mask = mask \cup ToSet(Denoted(s))
    <2>1. PICK E : E = ToSet(p.list) /\ E = ToSet(Denoted(s))
      BY <1>3, <1>5
    <2>2. \A n \in E : n \in 0 .. Word - 1
      <3>1. p.list \in Seq(0 .. Word - 1)
        BY DEF ParsedLists
      <3>2. QED
        BY <2>1, <3>1, ElementsOf
    <2>3. \A n \in E : shifted(n) = {n}
      <3>1. SUFFICES ASSUME NEW n \in E PROVE shifted(n) = {n}
        OBVIOUS
      <3>2. n \in Nat /\ n < IntBits - 1
        BY <1>5, <2>1, <2>2, WordFacts DEF Small
      <3>3. n % IntBits = n
        BY <3>2, WordFacts, Unwrapped
      <3>4. QED
        BY <3>2, <3>3, WordFacts DEF shifted
    <2>4. UNION {shifted(n) : n \in E} = E
      BY <2>3
    <2>5. parse_cpu_list(s, mask) = [ret |-> "SUCCESS", mask |-> mask \cup UNION {shifted(n) : n \in E}]
      BY <1>2, <1>3, <1>5, <2>1
    <2>6. QED
      BY <2>1, <2>4, <2>5
  <1>6. QED
    BY <1>4, <1>5

\* The result of status_parse_args follows the options read so far, and so do the last
\* list and, until the defaults are filled in, the flag of -r and the mask.
LineInv ==
    /\ sret \in {"SUCCESS", "ARGS_FAILED"}
    /\ (sret = "SUCCESS") <=> Accepted(opts)
    /\ sret = "SUCCESS" => sargs.mem_range = LastList(opts)
MaskInv ==
    qpc \in {"idle", "getopt"} /\ sret = "SUCCESS" =>
        /\ sargs.regs <=> Of(opts, "r") # {}
        /\ Small(Numbers(opts)) => sargs.vcpus = Numbers(opts)
WrittenInv == LineInv /\ MaskInv /\ MaskAsWritten

LEMMA WrittenInvInit == StatusInit => WrittenInv
  <1> SUFFICES ASSUME StatusInit PROVE WrittenInv
    OBVIOUS
  <1>1. /\ sret = "SUCCESS" /\ qpc = "idle" /\ opts = <<>> /\ sargs.mem_range = NoList
        /\ sargs.regs = FALSE /\ sargs.vcpus = {}
    BY DEF StatusInit
  <1>2. \A letter \in {"v", "m", "r", "h"} : Of(opts, letter) = {}
    BY <1>1 DEF Of
  <1>3. Of(opts, "v") = {} /\ Of(opts, "m") = {} /\ Of(opts, "r") = {} /\ Of(opts, "h") = {}
    BY <1>2
  <1>4. DOMAIN opts = {}
    BY <1>1
  <1>5. Accepted(opts) /\ LastList(opts) = NoList
    BY <1>3, <1>4 DEF Accepted, LastList
  <1>6. Numbers(opts) = {}
    BY <1>3 DEF Numbers
  <1>7. QED
    BY <1>1, <1>3, <1>5, <1>6 DEF WrittenInv, LineInv, MaskInv, MaskAsWritten

\* One turn of the loop, whatever the option.
LEMMA WrittenTurn ==
  ASSUME StatusInv, WrittenInv, NEW o \in OptionRecords, NEW r \in {"SUCCESS", "ARGS_FAILED"},
         NEW a \in ArgsSet, Turn(o, r, a),
         (r = "SUCCESS") <=> (o.opt # "h" /\ WellFormed(o.str)),
         r = "SUCCESS" => /\ a.mem_range = IF o.opt = "m" THEN Denoted(o.str) ELSE sargs.mem_range
                          /\ a.regs <=> (sargs.regs \/ o.opt = "r")
                          /\ o.opt = "v" /\ Small(ToSet(Denoted(o.str))) =>
                                 a.vcpus = sargs.vcpus \cup ToSet(Denoted(o.str))
                          /\ o.opt # "v" => a.vcpus = sargs.vcpus
  PROVE  WrittenInv'
  <1>1. /\ qpc = "getopt" /\ qpc' = "getopt" /\ opts' = Append(opts, o) /\ sret' = r /\ sargs' = a
        /\ sret = "SUCCESS"
    BY DEF Turn, WrittenInv, LineInv
  <1>2. PICK q \in Seq(OptionRecords) : q = opts
    BY DEF StatusInv, ArgsInv
  <1>3. PICK z : z = Append(q, o) /\ z = opts'
    BY <1>1, <1>2
  <1>4. Accepted(q) /\ sargs.mem_range = LastList(q)
    BY <1>1, <1>2 DEF WrittenInv, LineInv
  <1>5. (r = "SUCCESS") <=> Accepted(z)
    BY <1>3, <1>4, AcceptedAppended
  <1>6. r = "SUCCESS" => a.mem_range = LastList(z)
    BY <1>3, <1>4, LastListAppended
  <1>7. LineInv'
    BY <1>1, <1>3, <1>5, <1>6 DEF LineInv
  <1>8. /\ sargs.regs <=> Of(q, "r") # {}
        /\ Small(Numbers(q)) => sargs.vcpus = Numbers(q)
    BY <1>1, <1>2 DEF WrittenInv, MaskInv
  <1>9. Of(z, "r") = IF o.opt = "r" THEN Of(q, "r") \cup {Len(q) + 1} ELSE Of(q, "r")
    BY <1>3, OfAppended
  <1>10. Numbers(z) = IF o.opt = "v" THEN Numbers(q) \cup ToSet(Denoted(o.str)) ELSE Numbers(q)
    BY <1>3, NumbersAppended
  <1>11. Of(z, "r") # {} <=> Of(q, "r") # {} \/ o.opt = "r"
    BY <1>9
  <1>12. r = "SUCCESS" => (a.regs <=> Of(z, "r") # {})
    BY <1>8, <1>11
  <1>13. ASSUME r = "SUCCESS", Small(Numbers(z)) PROVE a.vcpus = Numbers(z)
    <2>1. CASE o.opt = "v"
      <3>1. Numbers(z) = Numbers(q) \cup ToSet(Denoted(o.str))
        BY <1>10, <2>1
      <3>2. Small(Numbers(q)) /\ Small(ToSet(Denoted(o.str)))
        BY <1>13, <3>1 DEF Small
      <3>3. QED
        BY <1>8, <1>13, <2>1, <3>1, <3>2
    <2>2. CASE o.opt # "v"
      BY <1>8, <1>10, <1>13, <2>2
    <2>3. QED
      BY <2>1, <2>2
  <1>14. MaskInv'
    BY <1>1, <1>3, <1>12, <1>13 DEF MaskInv
  <1>15. MaskAsWritten'
    BY <1>1 DEF MaskAsWritten
  <1>16. QED
    BY <1>7, <1>14, <1>15 DEF WrittenInv

\* Each option, with what its converter makes of its string.
LEMMA WrittenOption ==
  ASSUME StatusInv, WrittenInv, Len(opts) < MaxStatusOptions,
         NEW o \in StatusOptionSet(Len(opts) + 1),
         RegsOption(o) \/ VcpusOption(o) \/ RangeOption(o) \/ UsageOption(o)
  PROVE  WrittenInv'
  <1>1. /\ sargs \in ArgsSet /\ opts \in Seq(OptionRecords) /\ sret \in {"SUCCESS", "ARGS_FAILED"}
        /\ sargs.cmds \in Seq(Commands)
    BY DEF StatusInv, ArgsInv, ArgsSet, WrittenInv, LineInv
  <1>2. o \in OptionRecords /\ (o.opt = "r" => o.str = <<>>)
    <2>1. Len(opts) + 1 \in 1 .. MaxStatusOptions
      BY <1>1, MaxStatusOptionsAssumption
    <2>2. ListStrings[Len(opts) + 1] \subseteq Seq(Chars)
      BY <2>1, ListStringsAssumption
    <2>3. <<>> \in Seq(Chars)
      OBVIOUS
    <2>4. QED
      BY <2>2, <2>3 DEF StatusOptionSet, OptionRecords
  <1>3. PICK s \in Seq(Chars) : s = o.str
    BY <1>2 DEF OptionRecords
  <1>4. sret = "SUCCESS"
    <2>1. sret # "ARGS_FAILED"
      BY DEF Turn, RegsOption, VcpusOption, RangeOption, UsageOption
    <2>2. QED
      BY <1>1, <2>1
  <1>5. CASE RegsOption(o)
    <2> DEFINE a == [sargs EXCEPT !.regs = TRUE, !.cmds = Append(@, "SHOW_REGS")]
    <2>1. Turn(o, "SUCCESS", a) /\ o.opt = "r"
      BY <1>4, <1>5 DEF RegsOption
    <2>2. Append(sargs.cmds, "SHOW_REGS") \in Seq(Commands)
      BY <1>1 DEF Commands
    <2>3. /\ a \in ArgsSet /\ a.mem_range = sargs.mem_range /\ a.regs = TRUE
          /\ a.vcpus = sargs.vcpus
      BY <1>1, <2>2 DEF ArgsSet
    <2>4. WellFormed(o.str)
      BY <1>2, <2>1 DEF WellFormed
    <2> HIDE DEF a
    <2>5. QED
      BY <1>2, <2>1, <2>3, <2>4, WrittenTurn
  <1>6. CASE VcpusOption(o)
    <2> DEFINE p == parse_cpu_list(o.str, sargs.vcpus)
               r == IF p.ret = "SUCCESS" THEN "SUCCESS" ELSE "ARGS_FAILED"
               a == [sargs EXCEPT !.vcpus = p.mask]
    <2>1. Turn(o, r, a) /\ o.opt = "v"
      BY <1>4, <1>6 DEF VcpusOption
    <2>2. PICK mask \in SUBSET (0 .. LongBits - 1) : mask = sargs.vcpus
      BY <1>1 DEF ArgsSet, Bits
    <2>3. p.mask \in SUBSET (0 .. LongBits - 1)
      BY <1>3, <2>2, MaskType
    <2>4. /\ (p.ret = "SUCCESS") <=> WellFormed(s)
          /\ WellFormed(s) /\ Small(ToSet(Denoted(s))) => p.mask = mask \cup ToSet(Denoted(s))
      BY <1>3, <2>2, MaskMeans
    <2> HIDE DEF p
    <2>5. /\ a \in ArgsSet /\ a.regs = sargs.regs /\ a.mem_range = sargs.mem_range
          /\ a.vcpus = p.mask
      BY <1>1, <2>3 DEF ArgsSet, Bits
    <2>6. r \in {"SUCCESS", "ARGS_FAILED"} /\ ((r = "SUCCESS") <=> WellFormed(o.str))
      BY <1>3, <2>4
    <2> HIDE DEF a, r
    <2>7. WellFormed(o.str) /\ Small(ToSet(Denoted(o.str))) => a.vcpus = sargs.vcpus \cup ToSet(Denoted(o.str))
      BY <1>3, <2>2, <2>4, <2>5
    <2>8. QED
      BY <1>2, <2>1, <2>5, <2>6, <2>7, WrittenTurn
  <1>7. CASE RangeOption(o)
    <2> DEFINE p == parse_int_list(o.str)
               r == IF p.ret = "SUCCESS" THEN "SUCCESS" ELSE "ARGS_FAILED"
               a == [sargs EXCEPT !.mem_range = p.list, !.cmds = Append(@, "DUMP_MEM")]
    <2>1. Turn(o, r, a) /\ o.opt = "m"
      BY <1>4, <1>7 DEF RangeOption
    <2>2. p.list \in Lists
      BY <1>3, ListType DEF ParsedLists, Lists
    <2>3. /\ (p.ret = "SUCCESS") <=> WellFormed(s)
          /\ p.ret = "SUCCESS" => p.list = Denoted(s)
      BY <1>3, ParseMeans
    <2> HIDE DEF p
    <2>4. Append(sargs.cmds, "DUMP_MEM") \in Seq(Commands)
      BY <1>1 DEF Commands
    <2>5. /\ a \in ArgsSet /\ a.regs = sargs.regs /\ a.vcpus = sargs.vcpus
          /\ a.mem_range = p.list
      BY <1>1, <2>2, <2>4 DEF ArgsSet
    <2>6. /\ r \in {"SUCCESS", "ARGS_FAILED"} /\ ((r = "SUCCESS") <=> WellFormed(o.str))
          /\ r = "SUCCESS" => p.list = Denoted(o.str)
      BY <1>3, <2>3
    <2> HIDE DEF a, r
    <2>7. QED
      BY <1>2, <2>1, <2>5, <2>6, WrittenTurn
  <1>8. CASE UsageOption(o)
    <2>1. PICK a \in ArgsSet : a = sargs
      BY <1>1
    <2>2. Turn(o, "ARGS_FAILED", a) /\ o.opt = "h"
      BY <1>8, <2>1 DEF UsageOption
    <2>3. QED
      BY <1>2, <2>2, WrittenTurn
  <1>9. QED
    BY <1>5, <1>6, <1>7, <1>8

\* The defaults touch the mask only when -r is given and no list names a vCPU.
LEMMA WrittenParsed == StatusInv /\ WrittenInv /\ StatusParsed => WrittenInv'
  <1> SUFFICES ASSUME StatusInv, WrittenInv, StatusParsed PROVE WrittenInv'
    OBVIOUS
  <1>1. /\ qpc = "getopt" /\ qpc' \in {"send", "end"} /\ (qpc' = "send" => sret = "SUCCESS")
        /\ sret' = sret /\ opts' = opts
    BY DEF StatusParsed
  <1>2. sargs \in ArgsSet
    BY DEF StatusInv, ArgsInv
  <1>3. /\ sargs'.mem_range = sargs.mem_range
        /\ sargs'.vcpus = IF sargs.vcpus = {} /\ sargs.regs THEN {0} ELSE sargs.vcpus
    BY <1>2 DEF StatusParsed, ArgsSet, DefaultMask
  <1>4. LineInv'
    BY <1>1, <1>3 DEF WrittenInv, LineInv
  <1>5. MaskInv'
    BY <1>1 DEF MaskInv
  <1>6. MaskAsWritten'
    <2> DEFINE Named == Numbers(opts') # {} \/ Of(opts', "r") = {}
    <2>1. (qpc' = "send" /\ Small(Numbers(opts')) /\ Named => sargs'.vcpus = Numbers(opts')) => MaskAsWritten'
      BY Zenon DEF MaskAsWritten, Small, Numbers, Of, Given
    <2>2. SUFFICES ASSUME qpc' = "send", Small(Numbers(opts)), Numbers(opts) # {} \/ Of(opts, "r") = {}
                   PROVE  sargs'.vcpus = Numbers(opts)
      BY <1>1, <2>1
    <2>3. /\ sargs.regs <=> Of(opts, "r") # {}
          /\ sargs.vcpus = Numbers(opts)
      BY <1>1, <2>2 DEF WrittenInv, MaskInv
    <2>4. ~(sargs.vcpus = {} /\ sargs.regs)
      BY <2>2, <2>3, Zenon
    <2>5. sargs'.vcpus = sargs.vcpus
      BY <1>3, <2>4, Zenon
    <2>6. QED
      BY <2>3, <2>5, Zenon
  <1>7. QED
    BY <1>4, <1>5, <1>6 DEF WrittenInv

\* Nothing else touches the options or what they left.
LEMMA WrittenFrame ==
  ASSUME WrittenInv, sargs' = sargs, sret' = sret, opts' = opts,
         qpc' = "send" => qpc = "send", qpc' \in {"idle", "getopt"} => qpc \in {"idle", "getopt"}
  PROVE  WrittenInv'
  <1>1. LineInv'
    BY DEF WrittenInv, LineInv
  <1>2. MaskInv'
    BY DEF WrittenInv, MaskInv
  <1>3. MaskAsWritten'
    BY DEF WrittenInv, MaskAsWritten, Given
  <1>4. QED
    BY <1>1, <1>2, <1>3 DEF WrittenInv

LEMMA WrittenInvStep == StatusInv /\ WrittenInv /\ [Next]_vars => WrittenInv'
  <1> SUFFICES ASSUME StatusInv, WrittenInv, [Next]_vars PROVE WrittenInv'
    OBVIOUS
  <1>1. CASE StatusNext
    <2>1. CASE Len(opts) < MaxStatusOptions /\ \E o \in StatusOptionSet(Len(opts) + 1) :
                   RegsOption(o) \/ VcpusOption(o) \/ RangeOption(o) \/ UsageOption(o)
      BY <2>1, WrittenOption
    <2>2. CASE ShowState \/ ShowRegs \/ DumpMem
      <3>1. /\ sargs' = sargs /\ sret' = sret /\ opts' = opts /\ qpc = "send"
            /\ qpc' \in {"send", "end", "trap"}
        BY <2>2, Zenon DEF ShowState, ShowRegs, DumpMem, Answer
      <3>2. QED
        BY <3>1, WrittenFrame
    <2>3. QED
      BY <1>1, <2>1, <2>2, WrittenParsed, Zenon DEF StatusNext
  <1>2. CASE StartStatus
    BY <1>2, WrittenFrame DEF StartStatus
  <1>3. CASE UNCHANGED statusVars
    BY <1>3, WrittenFrame DEF statusVars
  <1>4. QED
    BY <1>1, <1>2, <1>3, Zenon DEF Next, Dispatch, vars

\* What status_parse_args leaves follows the options it has read, on every line.
THEOREM WrittenInductive == Spec => []WrittenInv
  <1>1. Init => WrittenInv
    BY WrittenInvInit DEF Init
  <1>2. QED
    BY <1>1, WrittenInvStep, StatusInductive, PTL DEF Spec

\* For every line and every string, mini_kvm_parse_int_list accepts exactly the comma
\* separated lists of numbers that fit 64 bits and returns their numbers; a line is refused
\* for a malformed list or -h and nothing else; DUMP_MEM gets the list of the last -m.
THEOREM ListsAsWrittenHolds == Spec => []ListsAsWritten
  <1>1. WrittenInv => ListsAsWritten
    BY Zenon DEF WrittenInv, LineInv, ListsAsWritten, Accepted, LastList, Of, Given
  <1>2. QED
    BY <1>1, WrittenInductive, PTL

\* For every line and every string, the mask of a request is the set of the vCPUs its -v
\* lists name, together, as long as no number reaches the sign bit of an int; what -r
\* asks for when no list names a vCPU is not claimed.
THEOREM MaskAsWrittenHolds == Spec => []MaskAsWritten
  <1>1. WrittenInv => MaskAsWritten
    BY DEF WrittenInv
  <1>2. QED
    BY <1>1, WrittenInductive, PTL
==============================================================================
