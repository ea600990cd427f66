---------------------------- MODULE Conversions ----------------------------
(***************************************************************************)
(* The conversions of core.c that the command lines go through: decimal    *)
(* numbers, comma separated lists and vCPU masks.  A string is a sequence  *)
(* of characters; a digit is its own value.  Words are scaled: LongBits    *)
(* stands for the 64 bits of uint64_t, IntBits for the 32 of an int.       *)
(***************************************************************************)
EXTENDS Integers, Sequences, SequencesExt, FiniteSetsExt

CONSTANTS LongBits, IntBits

ASSUME BitsAssumption == IntBits \in Nat \ {0, 1} /\ LongBits = 2 * IntBits

Word == 2 ^ LongBits
Half == 2 ^ IntBits

Digits == 0 .. 9
Comma == 10
Unit == [K |-> 11, M |-> 12, G |-> 13]
Other == 14
Chars == 0 .. Other

\* A MINI_KVM result; the converters answer -1 for "FAILED".
Ret == {"SUCCESS", "ARGS_FAILED", "INTERNAL_ERROR", "FAILED"}

Drop(s, n) == SubSeq(s, n + 1, Len(s))

\* mini_kvm_is_uint: nothing to look at counts as a number.
is_uint(s, n) == \A i \in 1 .. Min({n, Len(s)}) : s[i] \in Digits

\* strtoul reads as many digits as there are, whatever length its caller has in mind.
Number(digits) ==
    LET upto[i \in 0 .. Len(digits)] == IF i = 0 THEN 0 ELSE 10 * upto[i - 1] + digits[i]
    IN  upto[Len(digits)]
strtoul(s) ==
    LET stop == SelectInSeq(s, LAMBDA c : c \notin Digits)
    IN  Number(IF stop = 0 THEN s ELSE SubSeq(s, 1, stop - 1))

\* mini_kvm_to_uint: the result and, where the string is a number, what *dst becomes;
\* a number that is too large (ERANGE) stores the largest one.
to_uint(s, n) ==
    [ret |-> IF is_uint(s, n) /\ strtoul(s) < Word THEN "SUCCESS" ELSE "FAILED",
     stored |-> is_uint(s, n),
     dst |-> Min({strtoul(s), Word - 1})]

\* The characters a turn of mini_kvm_parse_int_list takes from position i: the digits
\* and the character after them, or all the rest.
offset(s, i) ==
    CHOOSE o \in 1 .. Len(s) - i :
        /\ i + o = Len(s) \/ ~is_uint(Drop(s, i), o)
        /\ \A p \in 1 .. o - 1 : is_uint(Drop(s, i), p)

\* The conversion of these characters, without the last one where more follow.
field(s, i) ==
    LET o == offset(s, i) IN to_uint(Drop(s, i), IF i + o < Len(s) THEN o - 1 ELSE o)

\* Mutation: the character that ends a number is not looked at.
field_result_anywhere(s, i) == field(s, i).ret

field_result(s, i) ==
    LET o == offset(s, i)
    IN  IF i + o < Len(s) /\ s[i + o] # Comma THEN "ARGS_FAILED" ELSE field(s, i).ret

\* mini_kvm_parse_int_list
parse_int_list(s) ==
    LET from[i \in 0 .. Len(s)] ==
            IF i = Len(s) THEN [ret |-> "SUCCESS", list |-> <<>>]
            ELSE LET r == field_result(s, i)
                     rest == from[i + offset(s, i)]
                 IN  IF r # "SUCCESS" THEN [ret |-> r, list |-> <<>>]
                     ELSE [ret |-> rest.ret, list |-> <<field(s, i).dst>> \o rest.list]
    IN  from[0]

\* The bits of `1 << n', an int that is widened to the mask: the sign bit fills the
\* upper half, and the processor takes n modulo the width of an int.
shifted(n) == IF n % IntBits = IntBits - 1 THEN IntBits - 1 .. LongBits - 1 ELSE {n % IntBits}

\* Mutation: a list replaces the mask instead of adding to it.
parse_cpu_list_last(s, mask) ==
    LET p == parse_int_list(s)
    IN  IF p.ret # "SUCCESS" THEN [ret |-> "INTERNAL_ERROR", mask |-> mask]
        ELSE [ret |-> "SUCCESS", mask |-> UNION {shifted(n) : n \in ToSet(p.list)}]

\* mini_kvm_parse_cpu_list: the mask as the set of its bits.
parse_cpu_list(s, mask) ==
    LET p == parse_int_list(s)
    IN  IF p.ret # "SUCCESS" THEN [ret |-> "INTERNAL_ERROR", mask |-> mask]
        ELSE [ret |-> "SUCCESS", mask |-> mask \cup UNION {shifted(n) : n \in ToSet(p.list)}]
=============================================================================
