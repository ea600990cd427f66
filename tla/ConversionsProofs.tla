-------------------------- MODULE ConversionsProofs --------------------------
(***************************************************************************)
(* What the conversions return for every string and every word size.  The  *)
(* inductions go by the least counterexample: a set of natural numbers     *)
(* that is not empty has a least element.                                  *)
(***************************************************************************)
EXTENDS Conversions, FiniteSetTheorems, WellFoundedInduction, TLAPS

(* Numbers *)

\* The least element of a set of natural numbers.
LEMMA Least ==
  ASSUME NEW T \in SUBSET Nat, T # {}
  PROVE  \E x \in T : \A y \in T : x <= y
  <1>1. PICK x \in T : \A y \in T : ~ (<<y, x>> \in OpToRel(<, Nat))
    BY NatLessThanWellFounded, WFMin
  <1>2. \A y \in T : ~ (y < x)
    BY <1>1 DEF OpToRel
  <1>3. QED
    BY <1>2

\* Min is the least element, and of two numbers the smaller one.
LEMMA MinFacts == ASSUME NEW T \in SUBSET Nat, T # {} PROVE Min(T) \in T /\ \A y \in T : Min(T) <= y
  BY Least DEF Min

LEMMA MinOfTwo == ASSUME NEW a \in Int, NEW b \in Int PROVE Min({a, b}) = IF a <= b THEN a ELSE b
  BY DEF Min

\* Powers of two are the numbers of subsets.
LEMMA Power == ASSUME NEW n \in Nat PROVE 2 ^ n \in Nat \ {0}
  <1>1. IsFiniteSet(1 .. n) /\ Cardinality(1 .. n) = n
    BY FS_Interval
  <1>2. IsFiniteSet(SUBSET (1 .. n)) /\ Cardinality(SUBSET (1 .. n)) = 2 ^ n
    BY <1>1, FS_SUBSET
  <1>3. Cardinality(SUBSET (1 .. n)) # 0
    BY <1>2, FS_EmptySet
  <1>4. QED
    BY <1>2, <1>3, FS_CardinalityType

LEMMA PowerTwice == ASSUME NEW n \in Nat PROVE 2 ^ (2 * n) = 2 ^ n * 2 ^ n
  <1> DEFINE L == 1 .. n
             R == n + 1 .. 2 * n
             f == [A \in SUBSET (1 .. 2 * n) |-> <<A \cap L, A \cap R>>]
  <1>1. /\ IsFiniteSet(L) /\ Cardinality(L) = n
        /\ IsFiniteSet(R) /\ Cardinality(R) = n
        /\ IsFiniteSet(1 .. 2 * n) /\ Cardinality(1 .. 2 * n) = 2 * n
    BY FS_Interval
  <1>2. 1 .. 2 * n = L \cup R /\ L \cap R = {}
    OBVIOUS
  <1> HIDE DEF L, R
  <1>3. /\ IsFiniteSet(SUBSET L) /\ Cardinality(SUBSET L) = 2 ^ n
        /\ IsFiniteSet(SUBSET R) /\ Cardinality(SUBSET R) = 2 ^ n
        /\ IsFiniteSet(SUBSET (1 .. 2 * n)) /\ Cardinality(SUBSET (1 .. 2 * n)) = 2 ^ (2 * n)
    BY <1>1, FS_SUBSET
  <1>4. Cardinality((SUBSET L) \X (SUBSET R)) = 2 ^ n * 2 ^ n
    <2>1. Cardinality((SUBSET L) \X (SUBSET R)) = Cardinality(SUBSET L) * Cardinality(SUBSET R)
      BY <1>3, FS_Product, Zenon
    <2>2. QED
      BY <1>3, <2>1, Zenon
  <1>5. f \in Bijection(SUBSET (1 .. 2 * n), (SUBSET L) \X (SUBSET R))
    <2>1. f \in [SUBSET (1 .. 2 * n) -> (SUBSET L) \X (SUBSET R)]
      OBVIOUS
    <2>2. ASSUME NEW A \in SUBSET (1 .. 2 * n), NEW B \in SUBSET (1 .. 2 * n), f[A] = f[B]
          PROVE  A = B
      <3>1. A \cap L = B \cap L /\ A \cap R = B \cap R
        BY <2>2
      <3>2. QED
        BY <1>2, <3>1
    <2>3. ASSUME NEW p \in (SUBSET L) \X (SUBSET R)
          PROVE  \E A \in SUBSET (1 .. 2 * n) : f[A] = p
      <3>1. PICK B \in SUBSET L, C \in SUBSET R : p = <<B, C>>
        OBVIOUS
      <3>2. (B \cup C) \cap L = B /\ (B \cup C) \cap R = C /\ B \cup C \in SUBSET (1 .. 2 * n)
        BY <1>2
      <3>3. QED
        BY <3>1, <3>2
    <2> HIDE DEF f
    <2>4. QED
      BY <2>1, <2>2, <2>3 DEF Bijection, Injection, Surjection, IsInjective
  <1>6. QED
    BY <1>3, <1>4, <1>5, FS_Bijection DEF ExistsBijection

\* The two word sizes.
LEMMA WordFacts ==
  /\ Half \in Nat /\ Half >= 2
  /\ Word \in Nat /\ Word = Half * Half /\ 2 * Half <= Word
  /\ IntBits \in Nat /\ IntBits >= 2 /\ LongBits = 2 * IntBits
  <1>1. IntBits \in Nat /\ IntBits >= 2 /\ LongBits = 2 * IntBits
    BY BitsAssumption
  <1>2. Half \in Nat \ {0} /\ Word = Half * Half
    BY <1>1, Power, PowerTwice DEF Half, Word
  <1>3. Half # 1
    <2>1. IsFiniteSet(1 .. IntBits) /\ Cardinality(1 .. IntBits) = IntBits
      BY <1>1, FS_Interval
    <2>2. IsFiniteSet(SUBSET (1 .. IntBits)) /\ Cardinality(SUBSET (1 .. IntBits)) = Half
      BY <2>1, FS_SUBSET DEF Half
    <2>3. {} \in SUBSET (1 .. IntBits) /\ {1} \in SUBSET (1 .. IntBits)
      BY <1>1
    <2>4. ~ \E x : SUBSET (1 .. IntBits) = {x}
      <3>1. SUFFICES ASSUME NEW x, SUBSET (1 .. IntBits) = {x} PROVE FALSE
        OBVIOUS
      <3>2. {} = x /\ {1} = x
        BY <2>3, <3>1
      <3>3. 1 \in {}
        BY <3>2
      <3>4. QED
        BY <3>3
    <2>5. Cardinality(SUBSET (1 .. IntBits)) # 1
      BY <2>2, <2>4, FS_Singleton, Zenon
    <2>6. QED
      BY <2>2, <2>5, Zenon
  <1>4. Half >= 2
    BY <1>2, <1>3
  <1>5. 2 * Half <= Half * Half
    BY <1>2, <1>4
  <1>6. QED
    BY <1>1, <1>2, <1>4, <1>5

(* The value of a string of digits *)

\* The equations of Number have a solution up to every position.
LEMMA NumberExists ==
  ASSUME NEW d \in Seq(Nat), NEW n \in 0 .. Len(d)
  PROVE  \E f \in [0 .. n -> Nat] :
            f = [i \in 0 .. n |-> IF i = 0 THEN 0 ELSE 10 * f[i - 1] + d[i]]
  <1> DEFINE Good(k, f) == /\ f \in [0 .. k -> Nat]
                           /\ f = [i \in 0 .. k |-> IF i = 0 THEN 0 ELSE 10 * f[i - 1] + d[i]]
             T == {k \in 0 .. Len(d) : ~ \E f : Good(k, f)}
  <1> HIDE DEF T, Good
  <1>1. SUFFICES ASSUME T # {} PROVE FALSE
    <2>1. T = {} => \E f : Good(n, f)
      BY DEF T
    <2>2. QED
      BY <2>1 DEF Good
  <1>2. PICK k \in T : \A y \in T : k <= y
    <2>1. T \in SUBSET Nat
      BY DEF T
    <2>2. QED
      BY <1>1, <2>1, Least
  <1>3. k \in 0 .. Len(d) /\ ~ \E f : Good(k, f)
    BY DEF T
  <1>4. CASE k = 0
    <2>1. Good(0, [i \in 0 .. 0 |-> 0])
      BY DEF Good
    <2>2. QED
      BY <1>3, <1>4, <2>1
  <1>5. CASE k # 0
    <2>1. k - 1 \in 0 .. Len(d) /\ k - 1 \notin T
      BY <1>2, <1>3, <1>5
    <2>2. PICK f : Good(k - 1, f)
      BY <2>1 DEF T
    <2> DEFINE g == [i \in 0 .. k |-> IF i = k THEN 10 * f[k - 1] + d[k] ELSE f[i]]
    <2>3. d[k] \in Nat
      BY <1>3, <1>5
    <2>4. Good(k, g)
      <3>1. /\ f \in [0 .. k - 1 -> Nat]
            /\ \A i \in 0 .. k - 1 : f[i] = IF i = 0 THEN 0 ELSE 10 * f[i - 1] + d[i]
        BY <2>2 DEF Good
      <3>2. g \in [0 .. k -> Nat]
        BY <1>3, <1>5, <2>3, <3>1
      <3>3. \A i \in 0 .. k : g[i] = IF i = 0 THEN 0 ELSE 10 * g[i - 1] + d[i]
        BY <1>3, <1>5, <3>1
      <3>4. g = [i \in 0 .. k |-> IF i = 0 THEN 0 ELSE 10 * g[i - 1] + d[i]]
        BY <3>3
      <3> HIDE DEF g
      <3>5. QED
        BY <3>2, <3>4 DEF Good
    <2>5. QED
      BY <1>3, <2>4
  <1>6. QED
    BY <1>4, <1>5

\* strtoul's value is defined for every string of digits, and is a natural number.
LEMMA NumberType == ASSUME NEW d \in Seq(Nat) PROVE Number(d) \in Nat
  <1> DEFINE Eq(f) == f = [i \in 0 .. Len(d) |-> IF i = 0 THEN 0 ELSE 10 * f[i - 1] + d[i]]
             upto == CHOOSE f : Eq(f)
             T == {k \in 0 .. Len(d) : upto[k] \notin Nat}
  <1>1. Len(d) \in 0 .. Len(d)
    OBVIOUS
  <1>2. \E f : Eq(f)
    BY <1>1, NumberExists
  <1>3. Eq(upto)
    <2> HIDE DEF Eq
    <2>1. QED
      BY <1>2
  <1>4. Number(d) = upto[Len(d)]
    BY Zenon DEF Number
  <1>5. \A i \in 0 .. Len(d) : upto[i] = IF i = 0 THEN 0 ELSE 10 * upto[i - 1] + d[i]
    BY <1>3
  <1> HIDE DEF upto, Eq
  <1>6. ASSUME T # {} PROVE FALSE
    <2>1. PICK k \in T : \A y \in T : k <= y
      <3>1. T \in SUBSET Nat
        OBVIOUS
      <3> HIDE DEF T
      <3>2. QED
        BY <1>6, <3>1, Least
    <2>2. k # 0
      BY <1>5
    <2>3. k - 1 \in 0 .. Len(d) /\ upto[k - 1] \in Nat
      BY <2>1, <2>2
    <2>4. d[k] \in Nat
      BY <2>2
    <2>5. QED
      BY <1>5, <2>2, <2>3, <2>4
  <1>7. QED
    BY <1>1, <1>4, <1>6

\* strtoul reads the digits a string begins with.
LEMMA StrtoulFacts ==
  ASSUME NEW s \in Seq(Chars)
  PROVE  /\ strtoul(s) \in Nat
         /\ (\A i \in 1 .. Len(s) : s[i] \in Digits) => strtoul(s) = Number(s)
         /\ \A n \in 0 .. Len(s) - 1 :
               (\A i \in 1 .. n : s[i] \in Digits) /\ s[n + 1] \notin Digits =>
                   strtoul(s) = Number(SubSeq(s, 1, n))
  <1> DEFINE I == {i \in 1 .. Len(s) : s[i] \notin Digits}
  <1>1. SelectInSeq(s, LAMBDA c : c \notin Digits) = IF I # {} THEN Min(I) ELSE 0
    BY DEF SelectInSeq
  <1>2. s \in Seq(Nat)
    <2>1. \A i \in 1 .. Len(s) : s[i] \in Nat
      BY DEF Chars, Other
    <2>2. QED
      BY <2>1
  <1>3. I \in SUBSET Nat
    OBVIOUS
  <1>4. CASE I = {}
    <2>1. strtoul(s) = Number(s)
      BY <1>1, <1>4 DEF strtoul
    <2>2. \A i \in 1 .. Len(s) : s[i] \in Digits
      BY <1>4
    <2>3. QED
      BY <1>2, <2>1, <2>2, NumberType
  <1>5. CASE I # {}
    <2>1. PICK m \in I : m = Min(I) /\ \A i \in I : m <= i
      <3> HIDE DEF I
      <3>1. QED
        BY <1>3, <1>5, MinFacts
    <2>2. /\ m \in 1 .. Len(s) /\ s[m] \notin Digits
          /\ \A i \in 1 .. m - 1 : s[i] \in Digits
      <3>1. m \in 1 .. Len(s) /\ s[m] \notin Digits
        OBVIOUS
      <3>2. ASSUME NEW i \in 1 .. m - 1 PROVE s[i] \in Digits
        <4>1. i \in 1 .. Len(s) /\ ~ (m <= i)
          BY <3>1
        <4>2. i \notin I
          BY <2>1, <4>1
        <4>3. QED
          BY <4>1, <4>2
      <3>3. QED
        BY <3>1, <3>2
    <2>3. strtoul(s) = Number(SubSeq(s, 1, m - 1))
      <3>1. SelectInSeq(s, LAMBDA c : c \notin Digits) = m
        BY <1>1, <1>5, <2>1
      <3>2. m # 0
        BY <2>2
      <3>3. QED
        BY <3>1, <3>2 DEF strtoul
    <2>4. strtoul(s) \in Nat
      <3>1. SubSeq(s, 1, m - 1) \in Seq(Nat)
        BY <1>2, <2>2
      <3>2. QED
        BY <2>3, <3>1, NumberType
    <2>5. ASSUME NEW n \in 0 .. Len(s) - 1, \A i \in 1 .. n : s[i] \in Digits,
                 s[n + 1] \notin Digits
          PROVE  n = m - 1
      BY <2>2, <2>5, <2>1
    <2>6. ~ \A i \in 1 .. Len(s) : s[i] \in Digits
      BY <2>2
    <2>7. QED
      BY <2>3, <2>4, <2>5, <2>6
  <1>6. QED
    BY <1>4, <1>5

\* What mini_kvm_to_uint stores fits the word.
LEMMA UintType ==
  ASSUME NEW s \in Seq(Chars), NEW n \in Int
  PROVE  /\ to_uint(s, n).ret \in {"SUCCESS", "FAILED"}
         /\ to_uint(s, n).stored = is_uint(s, n)
         /\ to_uint(s, n).dst = IF strtoul(s) <= Word - 1 THEN strtoul(s) ELSE Word - 1
         /\ to_uint(s, n).dst \in 0 .. Word - 1
  <1>1. strtoul(s) \in Nat /\ Word \in Nat /\ Word > 0
    BY StrtoulFacts, WordFacts
  <1>2. Min({strtoul(s), Word - 1}) = IF strtoul(s) <= Word - 1 THEN strtoul(s) ELSE Word - 1
    BY <1>1, MinOfTwo
  <1>3. QED
    BY <1>1, <1>2 DEF to_uint

\* A turn of mini_kvm_parse_int_list takes at least one character and none that is not
\* there.
LEMMA OffsetType ==
  ASSUME NEW s \in Seq(Chars), NEW i \in 0 .. Len(s) - 1
  PROVE  offset(s, i) \in 1 .. Len(s) - i
  <1> DEFINE Stop(o) == i + o = Len(s) \/ ~is_uint(Drop(s, i), o)
             T == {o \in 1 .. Len(s) - i : Stop(o)}
  <1>1. T \in SUBSET Nat /\ Len(s) - i \in T
    OBVIOUS
  <1>2. PICK x \in T : \A y \in T : x <= y
    <2> HIDE DEF T
    <2>1. QED
      BY <1>1, Least
  <1>3. \A p \in 1 .. x - 1 : p \in 1 .. Len(s) - i /\ ~Stop(p)
    <2> HIDE DEF Stop
    <2>1. QED
      BY <1>2
  <1>4. \E o \in 1 .. Len(s) - i :
            /\ i + o = Len(s) \/ ~is_uint(Drop(s, i), o)
            /\ \A p \in 1 .. o - 1 : is_uint(Drop(s, i), p)
    BY <1>2, <1>3
  <1>5. QED
    BY <1>4 DEF offset

(* Lists and masks *)

ParsedLists == [ret : Ret, list : Seq(0 .. Word - 1)]

\* One turn of mini_kvm_parse_int_list at position i, where f is what the later ones do.
Take(s, f, i) ==
    IF i = Len(s) THEN [ret |-> "SUCCESS", list |-> <<>>]
    ELSE IF field_result(s, i) # "SUCCESS" THEN [ret |-> field_result(s, i), list |-> <<>>]
    ELSE [ret |-> f[i + offset(s, i)].ret,
          list |-> <<field(s, i).dst>> \o f[i + offset(s, i)].list]

LEMMA FieldType ==
  ASSUME NEW s \in Seq(Chars), NEW i \in 0 .. Len(s) - 1
  PROVE  field_result(s, i) \in Ret /\ field(s, i).dst \in 0 .. Word - 1
  <1>1. offset(s, i) \in 1 .. Len(s) - i
    BY OffsetType
  <1>2. Drop(s, i) \in Seq(Chars)
    BY DEF Drop
  <1> DEFINE n == IF i + offset(s, i) < Len(s) THEN offset(s, i) - 1 ELSE offset(s, i)
  <1>3. n \in Int
    BY <1>1
  <1> HIDE DEF n
  <1>4. to_uint(Drop(s, i), n).ret \in {"SUCCESS", "FAILED"}
        /\ to_uint(Drop(s, i), n).dst \in 0 .. Word - 1
    BY <1>2, <1>3, UintType
  <1>5. field(s, i) = to_uint(Drop(s, i), n)
    BY DEF field, n
  <1>6. field(s, i).ret \in Ret /\ field(s, i).dst \in 0 .. Word - 1
    BY <1>4, <1>5 DEF Ret
  <1>7. QED
    BY <1>6 DEF field_result, Ret

\* A turn only looks at later positions, and builds a result of results.
LEMMA TakeType ==
  ASSUME NEW s \in Seq(Chars), NEW i \in 0 .. Len(s), NEW f,
         \A j \in i + 1 .. Len(s) : f[j] \in ParsedLists
  PROVE  Take(s, f, i) \in ParsedLists
  <1>1. CASE i = Len(s)
    BY <1>1 DEF Take, ParsedLists, Ret
  <1>2. CASE i # Len(s)
    <2>1. i \in 0 .. Len(s) - 1
      BY <1>2
    <2>2. field_result(s, i) \in Ret /\ field(s, i).dst \in 0 .. Word - 1
      BY <2>1, FieldType
    <2>3. i + offset(s, i) \in i + 1 .. Len(s)
      BY <2>1, OffsetType
    <2>4. PICK r \in ParsedLists : r = f[i + offset(s, i)]
      BY <2>3
    <2>5. PICK v \in 0 .. Word - 1 : v = field(s, i).dst
      BY <2>2
    <2>6. <<v>> \o r.list \in Seq(0 .. Word - 1) /\ r.ret \in Ret
      BY DEF ParsedLists
    <2>7. CASE field_result(s, i) # "SUCCESS"
      BY <1>2, <2>2, <2>7 DEF Take, ParsedLists
    <2>8. CASE field_result(s, i) = "SUCCESS"
      <3>1. Take(s, f, i) = [ret |-> r.ret, list |-> <<v>> \o r.list]
        BY <1>2, <2>4, <2>5, <2>8 DEF Take
      <3>2. QED
        BY <2>6, <3>1 DEF ParsedLists
    <2>9. QED
      BY <2>7, <2>8
  <1>3. QED
    BY <1>1, <1>2

LEMMA TakeSame ==
  ASSUME NEW s \in Seq(Chars), NEW i \in 0 .. Len(s), NEW f, NEW g,
         \A j \in i + 1 .. Len(s) : f[j] = g[j]
  PROVE  Take(s, f, i) = Take(s, g, i)
  <1>1. CASE i = Len(s)
    BY <1>1 DEF Take
  <1>2. CASE i # Len(s)
    <2>1. i + offset(s, i) \in i + 1 .. Len(s)
      BY <1>2, OffsetType
    <2>2. f[i + offset(s, i)] = g[i + offset(s, i)]
      BY <2>1
    <2>3. QED
      BY <1>2, <2>2 DEF Take
  <1>3. QED
    BY <1>1, <1>2

\* The equations of mini_kvm_parse_int_list have a solution from every position on.
LEMMA ListExists ==
  ASSUME NEW s \in Seq(Chars)
  PROVE  \E f : f = [i \in 0 .. Len(s) |-> Take(s, f, i)]
  <1> DEFINE Good(m, f) == f = [i \in m .. Len(s) |-> Take(s, f, i)]
             T == {k \in 0 .. Len(s) : ~ \E f : Good(Len(s) - k, f)}
  <1> HIDE DEF T, Good
  <1>1. SUFFICES ASSUME T # {} PROVE FALSE
    <2>1. Len(s) \in 0 .. Len(s) /\ Len(s) - Len(s) = 0
      OBVIOUS
    <2>2. T = {} => \E f : Good(0, f)
      BY <2>1 DEF T
    <2>3. QED
      BY <2>2 DEF Good
  <1>2. PICK k \in T : \A y \in T : k <= y
    <2>1. T \in SUBSET Nat
      BY DEF T
    <2>2. QED
      BY <1>1, <2>1, Least
  <1>3. k \in 0 .. Len(s) /\ ~ \E f : Good(Len(s) - k, f)
    BY DEF T
  <1> DEFINE m == Len(s) - k
  <1>4. PICK f : \A i \in m + 1 .. Len(s) : f[i] = Take(s, f, i)
    <2>1. CASE k = 0
      BY <1>3, <2>1
    <2>2. CASE k # 0
      <3>1. k - 1 \in 0 .. Len(s) /\ k - 1 \notin T /\ Len(s) - (k - 1) = m + 1
        BY <1>2, <1>3, <2>2
      <3>2. PICK f : Good(m + 1, f)
        BY <3>1 DEF T
      <3>3. QED
        BY <3>2 DEF Good
    <2>3. QED
      BY <2>1, <2>2
  <1> DEFINE g == [i \in m .. Len(s) |-> IF i = m THEN Take(s, f, m) ELSE f[i]]
  <1>5. m \in 0 .. Len(s)
    BY <1>3
  <1>6. ASSUME NEW i \in m .. Len(s) PROVE g[i] = Take(s, g, i)
    <2>1. \A j \in i + 1 .. Len(s) : f[j] = g[j]
      BY <1>5
    <2>2. i \in 0 .. Len(s)
      BY <1>5
    <2>3. Take(s, f, i) = Take(s, g, i)
      <3> HIDE DEF g
      <3>1. QED
        BY <2>1, <2>2, TakeSame
    <2>4. g[i] = Take(s, f, i)
      BY <1>4, <1>5
    <2>5. QED
      BY <2>3, <2>4
  <1>7. Good(m, g)
    <2>1. g = [i \in m .. Len(s) |-> g[i]]
      OBVIOUS
    <2> HIDE DEF g
    <2>2. QED
      BY <1>6, <2>1 DEF Good
  <1>8. QED
    BY <1>3, <1>7

\* What mini_kvm_parse_int_list returns from each position on: its turns, one by one.
LEMMA ListEquation ==
  ASSUME NEW s \in Seq(Chars)
  PROVE  \E f : /\ parse_int_list(s) = f[0]
               /\ \A i \in 0 .. Len(s) : f[i] = Take(s, f, i) /\ f[i] \in ParsedLists
  <1> DEFINE Eq(f) == f = [i \in 0 .. Len(s) |-> Take(s, f, i)]
             from == CHOOSE f : Eq(f)
             T == {k \in 0 .. Len(s) : from[Len(s) - k] \notin ParsedLists}
  <1>1. Eq(from)
    <2>1. \E f : Eq(f)
      BY ListExists
    <2> HIDE DEF Eq
    <2>2. QED
      BY <2>1
  <1>2. parse_int_list(s) = from[0]
    BY Zenon DEF parse_int_list, Take
  <1>3. \A i \in 0 .. Len(s) : from[i] = Take(s, from, i)
    BY <1>1
  <1> HIDE DEF from, Eq
  <1>4. ASSUME T # {} PROVE FALSE
    <2>1. PICK k \in T : \A y \in T : k <= y
      <3>1. T \in SUBSET Nat
        OBVIOUS
      <3> HIDE DEF T
      <3>2. QED
        BY <1>4, <3>1, Least
    <2>2. k \in 0 .. Len(s) /\ Len(s) - k \in 0 .. Len(s)
      OBVIOUS
    <2>3. ASSUME NEW j \in Len(s) - k + 1 .. Len(s) PROVE from[j] \in ParsedLists
      <3>1. Len(s) - j \in 0 .. Len(s) /\ ~ (k <= Len(s) - j) /\ Len(s) - (Len(s) - j) = j
        BY <2>2
      <3>2. Len(s) - j \notin T
        BY <2>1, <3>1
      <3>3. QED
        BY <3>1, <3>2
    <2>4. Take(s, from, Len(s) - k) \in ParsedLists
      BY <2>2, <2>3, TakeType
    <2>5. QED
      BY <1>3, <2>2, <2>4
  <1>5. ASSUME NEW i \in 0 .. Len(s) PROVE from[i] \in ParsedLists
    <2>1. Len(s) - i \in 0 .. Len(s) /\ Len(s) - (Len(s) - i) = i
      OBVIOUS
    <2>2. QED
      BY <1>4, <2>1
  <1>6. QED
    BY <1>2, <1>3, <1>5

\* The list has one word for each number, and the result is one of the codes.
LEMMA ListType == ASSUME NEW s \in Seq(Chars) PROVE parse_int_list(s) \in ParsedLists
  <1>1. 0 \in 0 .. Len(s)
    OBVIOUS
  <1>2. QED
    BY <1>1, ListEquation

\* The elements of a list are elements of its type.
LEMMA ElementsOf == ASSUME NEW S, NEW l \in Seq(S) PROVE \A x \in ToSet(l) : x \in S
  <1>1. DOMAIN l = 1 .. Len(l)
    OBVIOUS
  <1>2. \A i \in 1 .. Len(l) : l[i] \in S
    OBVIOUS
  <1>3. QED
    BY <1>1, <1>2 DEF ToSet

\* A bit that is set by mini_kvm_parse_cpu_list is a bit of the mask.
LEMMA MaskType ==
  ASSUME NEW s \in Seq(Chars), NEW mask \in SUBSET (0 .. LongBits - 1)
  PROVE  /\ parse_cpu_list(s, mask).ret \in Ret
         /\ parse_cpu_list(s, mask).mask \in SUBSET (0 .. LongBits - 1)
  <1>1. ASSUME NEW n \in 0 .. Word - 1 PROVE shifted(n) \in SUBSET (0 .. LongBits - 1)
    <2>1. n % IntBits \in 0 .. IntBits - 1
      BY WordFacts
    <2>2. QED
      BY <2>1, WordFacts DEF shifted
  <1>2. PICK p \in ParsedLists : p = parse_int_list(s)
    BY ListType
  <1>3. \A n \in ToSet(p.list) : n \in 0 .. Word - 1
    <2>1. p.list \in Seq(0 .. Word - 1)
      BY DEF ParsedLists
    <2>2. QED
      BY <2>1, ElementsOf
  <1>4. UNION {shifted(n) : n \in ToSet(p.list)} \in SUBSET (0 .. LongBits - 1)
    BY <1>1, <1>3
  <1>5. parse_cpu_list(s, mask) =
            IF p.ret # "SUCCESS" THEN [ret |-> "INTERNAL_ERROR", mask |-> mask]
            ELSE [ret |-> "SUCCESS", mask |-> mask \cup UNION {shifted(n) : n \in ToSet(p.list)}]
    BY <1>2 DEF parse_cpu_list
  <1> DEFINE bits == UNION {shifted(n) : n \in ToSet(p.list)}
  <1>6. mask \cup bits \in SUBSET (0 .. LongBits - 1)
    BY <1>4
  <1> HIDE DEF bits
  <1>7. QED
    <2>1. CASE p.ret # "SUCCESS"
      BY <1>5, <2>1 DEF Ret
    <2>2. CASE p.ret = "SUCCESS"
      <3>1. parse_cpu_list(s, mask) = [ret |-> "SUCCESS", mask |-> mask \cup bits]
        BY <1>5, <2>2 DEF bits
      <3>2. QED
        BY <1>6, <3>1 DEF Ret
    <2>3. QED
      BY <2>1, <2>2

(* What a turn of mini_kvm_parse_int_list makes of the characters before the next comma *)

\* The characters from position i on.
LEMMA DropFacts ==
  ASSUME NEW s \in Seq(Chars), NEW i \in 0 .. Len(s)
  PROVE  /\ Drop(s, i) \in Seq(Chars) /\ Len(Drop(s, i)) = Len(s) - i
         /\ \A k \in 1 .. Len(s) - i : Drop(s, i)[k] = s[i + k]
         /\ \A p \in 0 .. Len(s) - i : SubSeq(Drop(s, i), 1, p) = SubSeq(s, i + 1, i + p)
  <1>1. /\ Drop(s, i) \in Seq(Chars) /\ Len(Drop(s, i)) = Len(s) - i
        /\ \A k \in 1 .. Len(s) - i : Drop(s, i)[k] = s[i + k]
    BY DEF Drop
  <1>2. ASSUME NEW p \in 0 .. Len(s) - i PROVE SubSeq(Drop(s, i), 1, p) = SubSeq(s, i + 1, i + p)
    <2>1. PICK d \in Seq(Chars) : d = Drop(s, i)
      BY <1>1
    <2>2. Len(d) = Len(s) - i /\ \A k \in 1 .. p : d[k] = s[i + k]
      BY <1>1, <2>1
    <2>3. Len(SubSeq(d, 1, p)) = p /\ Len(SubSeq(s, i + 1, i + p)) = p
      BY <2>2
    <2>4. \A k \in 1 .. p : SubSeq(d, 1, p)[k] = d[k] /\ SubSeq(s, i + 1, i + p)[k] = s[i + k]
      BY <2>2
    <2>5. SubSeq(d, 1, p) \in Seq(Chars) /\ SubSeq(s, i + 1, i + p) \in Seq(Chars)
      BY <2>2
    <2>6. QED
      BY <2>1, <2>2, <2>3, <2>4, <2>5
  <1>3. QED
    BY <1>1, <1>2

LEMMA UintFacts ==
  ASSUME NEW s \in Seq(Chars), NEW i \in 0 .. Len(s), NEW p \in 0 .. Len(s) - i
  PROVE  is_uint(Drop(s, i), p) <=> \A j \in i + 1 .. i + p : s[j] \in Digits
  <1>1. PICK d \in Seq(Chars) : /\ d = Drop(s, i) /\ Len(d) = Len(s) - i
                                /\ \A k \in 1 .. Len(s) - i : d[k] = s[i + k]
    BY DropFacts
  <1>2. Min({p, Len(d)}) = p
    BY <1>1, MinOfTwo
  <1>3. is_uint(d, p) <=> \A k \in 1 .. p : d[k] \in Digits
    BY <1>2 DEF is_uint
  <1>4. \A k \in 1 .. p : d[k] = s[i + k] /\ i + k \in i + 1 .. i + p
    BY <1>1
  <1>5. \A j \in i + 1 .. i + p : j - i \in 1 .. p /\ d[j - i] = s[j]
    BY <1>1
  <1>6. (\A k \in 1 .. p : d[k] \in Digits) <=> \A j \in i + 1 .. i + p : s[j] \in Digits
    BY <1>4, <1>5
  <1>7. QED
    BY <1>1, <1>3, <1>6

\* A turn ends at the first character that is not a digit, or with the string.
LEMMA OffsetIs ==
  ASSUME NEW s \in Seq(Chars), NEW i \in 0 .. Len(s) - 1, NEW n \in i + 1 .. Len(s),
         \A j \in i + 1 .. n - 1 : s[j] \in Digits, n = Len(s) \/ s[n] \notin Digits
  PROVE  offset(s, i) = n - i
  <1> DEFINE Right(o) == /\ i + o = Len(s) \/ ~is_uint(Drop(s, i), o)
                         /\ \A p \in 1 .. o - 1 : is_uint(Drop(s, i), p)
  <1>1. ASSUME NEW p \in 1 .. Len(s) - i
        PROVE  is_uint(Drop(s, i), p) <=> \A j \in i + 1 .. i + p : s[j] \in Digits
    <2>1. i \in 0 .. Len(s) /\ p \in 0 .. Len(s) - i
      OBVIOUS
    <2>2. QED
      BY <2>1, UintFacts
  <1>2. \A p \in 1 .. n - i - 1 : is_uint(Drop(s, i), p)
    BY <1>1
  <1>3. n - i \in 1 .. Len(s) - i /\ (n = Len(s) \/ ~is_uint(Drop(s, i), n - i))
    <2>1. n - i \in 1 .. Len(s) - i /\ n \in i + 1 .. i + (n - i)
      OBVIOUS
    <2>2. QED
      BY <1>1, <2>1
  <1>4. Right(n - i)
    BY <1>2, <1>3
  <1>5. ASSUME NEW o \in 1 .. Len(s) - i, Right(o) PROVE o = n - i
    <2>1. CASE o < n - i
      <3>1. i + o # Len(s) /\ is_uint(Drop(s, i), o)
        BY <1>2, <2>1
      <3>2. QED
        BY <1>5, <3>1
    <2>2. CASE o > n - i
      <3>1. is_uint(Drop(s, i), n - i) /\ n # Len(s)
        BY <1>3, <1>5, <2>2
      <3>2. QED
        BY <1>3, <3>1
    <2>3. QED
      BY <2>1, <2>2
  <1>6. offset(s, i) = CHOOSE o \in 1 .. Len(s) - i : Right(o)
    BY Zenon DEF offset
  <1> HIDE DEF Right
  <1>7. QED
    BY <1>3, <1>4, <1>5, <1>6

\* The value and the result of a conversion whose digits end at n.
LEMMA FieldIs ==
  ASSUME NEW s \in Seq(Chars), NEW i \in 0 .. Len(s) - 1, NEW n \in i + 1 .. Len(s) + 1,
         \A j \in i + 1 .. n - 1 : s[j] \in Digits, n = Len(s) + 1 \/ s[n] = Comma,
         NEW v, v = Number(SubSeq(s, i + 1, n - 1))
  PROVE  /\ strtoul(Drop(s, i)) = v /\ v \in Nat
         /\ n # Len(s) => field_result(s, i) = IF v < Word THEN "SUCCESS" ELSE "FAILED"
         /\ n = Len(s) => field_result(s, i) = "FAILED"
         /\ v < Word => field(s, i).dst = v
         /\ offset(s, i) = IF n = Len(s) + 1 THEN Len(s) - i ELSE n - i
  <1>1. PICK d \in Seq(Chars) : /\ d = Drop(s, i) /\ Len(d) = Len(s) - i
                                /\ \A k \in 1 .. Len(s) - i : d[k] = s[i + k]
                                /\ \A p \in 0 .. Len(s) - i : SubSeq(d, 1, p) = SubSeq(s, i + 1, i + p)
    <2>1. i \in 0 .. Len(s)
      OBVIOUS
    <2>2. QED
      BY <2>1, DropFacts
  <1>2. \A k \in 1 .. n - 1 - i : d[k] \in Digits
    <2>1. \A k \in 1 .. n - 1 - i : k \in 1 .. Len(s) - i /\ i + k \in i + 1 .. n - 1
      OBVIOUS
    <2>2. QED
      BY <1>1, <2>1
  <1>3. Comma \notin Digits
    BY DEF Comma, Digits
  <1>4. SubSeq(d, 1, n - 1 - i) = SubSeq(s, i + 1, n - 1)
    <2>1. n - 1 - i \in 0 .. Len(s) - i /\ i + (n - 1 - i) = n - 1
      OBVIOUS
    <2>2. QED
      BY <1>1, <2>1
  <1>5. strtoul(d) = v
    <2>1. CASE n = Len(s) + 1
      <3>1. \A k \in 1 .. Len(d) : d[k] \in Digits
        BY <1>1, <1>2, <2>1
      <3>2. SubSeq(d, 1, n - 1 - i) = d
        BY <1>1, <2>1
      <3>3. QED
        BY <1>4, <3>1, <3>2, StrtoulFacts
    <2>2. CASE n # Len(s) + 1
      <3>1. PICK m \in 0 .. Len(d) - 1 : m = n - 1 - i
        <4>1. n - 1 - i \in 0 .. Len(s) - i - 1
          BY <2>2
        <4>2. QED
          BY <1>1, <4>1
      <3>2. d[m + 1] \notin Digits
        <4>1. m + 1 \in 1 .. Len(s) - i /\ i + (m + 1) = n
          BY <1>1, <3>1
        <4>2. QED
          BY <1>1, <1>3, <2>2, <4>1
      <3>3. strtoul(d) = Number(SubSeq(d, 1, m))
        BY <1>2, <3>1, <3>2, StrtoulFacts
      <3>4. QED
        BY <1>4, <3>1, <3>3
    <2>3. QED
      BY <2>1, <2>2
  <1>6. v \in Nat
    BY <1>5, StrtoulFacts
  <1>7. offset(s, i) = IF n = Len(s) + 1 THEN Len(s) - i ELSE n - i
    <2>1. CASE n = Len(s) + 1
      <3>1. PICK m \in i + 1 .. Len(s) : m = Len(s)
        OBVIOUS
      <3>2. \A j \in i + 1 .. m - 1 : s[j] \in Digits
        BY <2>1, <3>1
      <3>3. QED
        BY <2>1, <3>1, <3>2, OffsetIs
    <2>2. CASE n # Len(s) + 1
      <3>1. n \in i + 1 .. Len(s) /\ s[n] \notin Digits
        BY <1>3, <2>2
      <3>2. QED
        BY <2>2, <3>1, OffsetIs
    <2>3. QED
      BY <2>1, <2>2
  <1>8. PICK w \in Int : w = IF i + offset(s, i) < Len(s) THEN offset(s, i) - 1 ELSE offset(s, i)
    <2>1. offset(s, i) \in Int /\ offset(s, i) - 1 \in Int
      BY <1>7
    <2>2. QED
      BY <2>1
  <1>9. field(s, i) = to_uint(d, w)
    BY <1>1, <1>8 DEF field
  <1>10. v < Word => field(s, i).dst = v
    <2>1. to_uint(d, w).dst = IF v <= Word - 1 THEN v ELSE Word - 1
      BY <1>5, UintType
    <2>2. QED
      BY <1>6, <1>9, <2>1, WordFacts
  <1>11. n # Len(s) => field_result(s, i) = IF v < Word THEN "SUCCESS" ELSE "FAILED"
    <2>1. SUFFICES ASSUME n # Len(s)
                   PROVE  field_result(s, i) = IF v < Word THEN "SUCCESS" ELSE "FAILED"
      OBVIOUS
    <2>2. w = n - 1 - i /\ w \in 0 .. Len(s) - i
      BY <1>7, <1>8, <2>1
    <2>3. is_uint(d, w)
      <3>1. \A j \in i + 1 .. i + w : s[j] \in Digits
        BY <2>2
      <3>2. i \in 0 .. Len(s)
        OBVIOUS
      <3>3. QED
        BY <1>1, <2>2, <3>1, <3>2, UintFacts
    <2>4. field(s, i).ret = IF v < Word THEN "SUCCESS" ELSE "FAILED"
      BY <1>5, <1>9, <2>3 DEF to_uint
    <2>5. ~ (i + offset(s, i) < Len(s) /\ s[i + offset(s, i)] # Comma)
      BY <1>7, <2>1
    <2>6. QED
      BY <2>4, <2>5, Zenon DEF field_result
  <1>12. n = Len(s) => field_result(s, i) = "FAILED"
    <2>1. SUFFICES ASSUME n = Len(s) PROVE field_result(s, i) = "FAILED"
      OBVIOUS
    <2>2. w = n - i /\ w \in 0 .. Len(s) - i /\ ~ (i + offset(s, i) < Len(s))
      BY <1>7, <1>8, <2>1
    <2>3. ~ is_uint(d, w)
      <3>1. n \in i + 1 .. i + w /\ s[n] \notin Digits
        BY <1>3, <2>1, <2>2
      <3>2. i \in 0 .. Len(s)
        OBVIOUS
      <3>3. QED
        BY <1>1, <2>2, <3>1, <3>2, UintFacts
    <2>4. field(s, i).ret = "FAILED"
      BY <1>9, <2>3 DEF to_uint
    <2>5. QED
      BY <2>2, <2>4, Zenon DEF field_result
  <1>13. QED
    BY <1>1, <1>5, <1>6, <1>7, <1>10, <1>11, <1>12

\* A character that is neither a digit nor a comma is refused.
LEMMA FieldRefused ==
  ASSUME NEW s \in Seq(Chars), NEW i \in 0 .. Len(s) - 1, NEW n \in i + 1 .. Len(s) + 1,
         \A j \in i + 1 .. n - 1 : s[j] # Comma, ~ \A j \in i + 1 .. n - 1 : s[j] \in Digits
  PROVE  field_result(s, i) # "SUCCESS"
  <1> DEFINE T == {j \in i + 1 .. n - 1 : s[j] \notin Digits}
  <1>1. T \in SUBSET Nat /\ T # {}
    OBVIOUS
  <1>2. PICK q \in T : \A y \in T : q <= y
    <2> HIDE DEF T
    <2>1. QED
      BY <1>1, Least
  <1>3. q \in i + 1 .. n - 1 /\ s[q] \notin Digits /\ q \in i + 1 .. Len(s)
    OBVIOUS
  <1>4. ASSUME NEW j \in i + 1 .. q - 1 PROVE s[j] \in Digits
    <2>1. j \in i + 1 .. n - 1 /\ ~ (q <= j)
      BY <1>3
    <2>2. j \notin T
      BY <1>2, <2>1
    <2>3. QED
      BY <2>1, <2>2
  <1>5. offset(s, i) = q - i
    BY <1>3, <1>4, OffsetIs
  <1>6. CASE q < Len(s)
    <2>1. i + offset(s, i) = q /\ s[q] # Comma
      BY <1>3, <1>5
    <2>2. QED
      BY <1>6, <2>1 DEF field_result
  <1>7. CASE q = Len(s)
    <2>1. i + offset(s, i) = q /\ q - i \in 0 .. Len(s) - i
      BY <1>3, <1>5
    <2>2. ~ (i + offset(s, i) < Len(s)) /\ q \in i + 1 .. i + (q - i)
      BY <1>3, <1>7, <2>1
    <2>3. ~ is_uint(Drop(s, i), q - i)
      <3>1. i \in 0 .. Len(s)
        OBVIOUS
      <3>2. is_uint(Drop(s, i), q - i) <=> \A j \in i + 1 .. i + (q - i) : s[j] \in Digits
        BY <2>1, <3>1, UintFacts
      <3>3. QED
        BY <1>3, <2>2, <3>2
    <2>4. field(s, i) = to_uint(Drop(s, i), q - i)
      BY <1>5, <2>2 DEF field
    <2>5. field(s, i).ret = "FAILED"
      BY <2>3, <2>4 DEF to_uint
    <2>6. QED
      BY <2>2, <2>5 DEF field_result
  <1>8. QED
    BY <1>3, <1>6, <1>7
==============================================================================
