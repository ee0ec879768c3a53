--------------------------- MODULE BitArrayProofs ---------------------------
(***************************************************************************)
(* For every width of a word and every calls of the caller: the accesses   *)
(* of the bit array stay in memory that has a value, the words it gains    *)
(* are clear, the one-bit calls agree with each other, the region calls    *)
(* act on bits that are numbered from the top of a word, and the find      *)
(* calls find the first bits that the mask of their first word leaves.     *)
(* roundup_word64_to_pow2() is worked out with the powers of two, of which *)
(* BitArray assumes the recursion only.                                    *)
(***************************************************************************)
EXTENDS BitArray, FiniteSetTheorems, WellFoundedInduction, TLAPS

(* An array no realloc() has failed for, and whose bytes have not wrapped.   *)
Healthy == array = "valid" /\ ~failed /\ BytesFit

SizesInv ==
  /\ array = "valid" => num_of_words = ROUNDUP_BITS_TO_WORDS(num_of_bits)
  /\ BytesFit => alloc <= capacity * Byte /\ written \subseteq 0..alloc - 1

MemoryInv ==
  Healthy => num_of_words <= capacity /\ capacity <= alloc /\ 0..capacity - 1 \subseteq written

IInv == TypeOK /\ SizesInv /\ MemoryInv /\ GainedWordsClear /\ UndefinedOnlyThen

-----------------------------------------------------------------------------
(* Arithmetic. *)

LEMMA DivLess ==
  ASSUME NEW w \in Nat \ {0}, NEW x \in Nat, NEW m \in Nat
  PROVE  x < m * w <=> x \div w < m
OBVIOUS

LEMMA DivInNat ==
  ASSUME NEW w \in Nat \ {0}, NEW x \in Nat
  PROVE  x \div w \in Nat
OBVIOUS

LEMMA ModInRange ==
  ASSUME NEW w \in Nat \ {0}, NEW x \in Nat
  PROVE  x % w \in 0..w - 1
OBVIOUS

LEMMA DivMonotone ==
  ASSUME NEW w \in Nat \ {0}, NEW x \in Nat, NEW y \in Nat, x <= y
  PROVE  x \div w <= y \div w
OBVIOUS

LEMMA SameWord ==
  ASSUME NEW w \in Nat \ {0}, NEW x \in Nat, NEW y \in Nat, x \div w = y \div w
  PROVE  x <= y <=> x % w <= y % w
OBVIOUS

LEMMA EarlierWord ==
  ASSUME NEW w \in Nat \ {0}, NEW x \in Nat, NEW y \in Nat, x \div w < y \div w
  PROVE  x < y
OBVIOUS

LEMMA UpCovers ==
  ASSUME NEW w \in Nat \ {0}, NEW x \in Nat
  PROVE  x <= ((x + w - 1) \div w) * w
OBVIOUS

LEMMA TimesAtLeast ==
  ASSUME NEW w \in Nat \ {0}, NEW x \in Nat
  PROVE  x <= x * w
OBVIOUS

LEMMA FromWordStart ==
  ASSUME NEW w \in Nat \ {0}, NEW x \in Nat, NEW y \in Nat, x \div w = y \div w, x % w = 0
  PROVE  y - x = y % w
OBVIOUS

LEMMA WrappedInRange ==
  ASSUME NEW w \in Nat \ {0}, NEW x \in Nat, NEW s \in Nat, w < s
  PROVE  (x % s) \div w \in 0..s \div w
OBVIOUS

(* A set of numbers that is not empty has a least one. *)
LEMMA HasLeast ==
  ASSUME NEW T, T \subseteq Nat, T # {}
  PROVE  \E x \in T : \A y \in T : x <= y
<1>1. \E x \in T : \A y \in T : ~ (<<y, x>> \in OpToRel(<, Nat))
  BY NatLessThanWellFounded, WFMin
<1>2. PICK x \in T : \A y \in T : ~ (<<y, x>> \in OpToRel(<, Nat))
  BY <1>1
<1>3. \A y \in T : ~ (y < x)
  BY <1>2 DEF OpToRel
<1>4. \A y \in T : x <= y
  BY <1>3
<1>5. QED
  BY <1>4

-----------------------------------------------------------------------------
(* Powers of two. *)

LEMMA Width ==
  /\ W \in Nat /\ W >= 2 /\ IndexBits \in Nat /\ W <= IndexBits
  /\ \A b \in Place : b \in 0..IndexBits /\ b + 1 \in 0..IndexBits
BY BitArrayAssumption DEF Place

Power(b) == 2 ^ b

LEMMA PowerZero == ASSUME NEW b \in 0..IndexBits, b = 0 PROVE Power(b) = 1
BY PowerAssumption DEF Power

LEMMA PowerNext == ASSUME NEW b \in Place PROVE Power(b + 1) = 2 * Power(b)
<1>1. b + 1 \in 0..IndexBits /\ b + 1 # 0 /\ (b + 1) - 1 = b
  BY Width DEF Place
<1>2. QED
  BY <1>1, PowerAssumption DEF Power

(* Induction by the least counterexample. *)
LEMMA PowerGrows == \A b \in 0..IndexBits : Power(b) \in Nat /\ b < Power(b)
<1> DEFINE Bad == {b \in 0..IndexBits : ~ (Power(b) \in Nat /\ b < Power(b))}
<1>1. CASE Bad = {}
  BY <1>1
<1>2. CASE Bad # {}
  <2>1. Bad \subseteq Nat
    BY Width
  <2>2. PICK b \in Bad : \A c \in Bad : b <= c
    BY <1>2, <2>1, HasLeast
  <2>3. b \in 0..IndexBits /\ ~ (Power(b) \in Nat /\ b < Power(b))
    OBVIOUS
  <2>4. b # 0
    BY <2>3, PowerZero
  <2>5. b - 1 \in 0..IndexBits /\ b - 1 \in Place /\ (b - 1) + 1 = b /\ ~ (b <= b - 1)
    BY <2>3, <2>4, Width DEF Place
  <2>6. Power(b - 1) \in Nat /\ b - 1 < Power(b - 1)
    BY <2>2, <2>5
  <2>7. Power(b) = 2 * Power(b - 1)
    BY <2>5, PowerNext
  <2>8. QED
    BY <2>3, <2>5, <2>6, <2>7
<1>3. QED
  BY <1>1, <1>2

LEMMA PowerOrder ==
  ASSUME NEW b \in 0..IndexBits, NEW d \in 0..IndexBits, b < d
  PROVE  Power(b + 1) <= Power(d)
<1> DEFINE Bad == {c \in 0..IndexBits : b < c /\ ~ (Power(b + 1) <= Power(c))}
<1>1. CASE Bad = {}
  BY <1>1
<1>2. CASE Bad # {}
  <2>1. Bad \subseteq Nat
    BY Width
  <2>2. PICK c \in Bad : \A e \in Bad : c <= e
    BY <1>2, <2>1, HasLeast
  <2>3. c \in 0..IndexBits /\ b < c /\ ~ (Power(b + 1) <= Power(c))
    OBVIOUS
  <2>4. b + 1 \in 0..IndexBits /\ Power(b + 1) \in Nat
    BY <2>3, PowerGrows, Width
  <2>5. c # b + 1
    BY <2>3, <2>4
  <2>6. c - 1 \in 0..IndexBits /\ c - 1 \in Place /\ (c - 1) + 1 = c /\ ~ (c <= c - 1) /\ b < c - 1
    BY <2>3, <2>5, Width DEF Place
  <2>7. Power(b + 1) <= Power(c - 1)
    BY <2>2, <2>6
  <2>8. Power(c - 1) \in Nat /\ Power(c) = 2 * Power(c - 1)
    BY <2>6, PowerNext, PowerGrows
  <2>9. QED
    BY <2>3, <2>4, <2>7, <2>8
<1>3. QED
  BY <1>1, <1>2

LEMMA SizeFacts == Size \in Nat /\ W < Size
BY PowerGrows, Width DEF Size, Power

(* The highest one of a number. *)
LEMMA TopBit ==
  ASSUME NEW x \in Nat \ {0}, x < Size
  PROVE  \E t \in Place : Power(t) <= x /\ x < Power(t + 1)
<1> DEFINE Above == {b \in 0..IndexBits : x < Power(b)}
<1>1. Above \subseteq Nat /\ IndexBits \in Above
  BY Width DEF Size, Power
<1>2. PICK b \in Above : \A c \in Above : b <= c
  BY <1>1, HasLeast
<1>3. b \in 0..IndexBits /\ x < Power(b)
  OBVIOUS
<1>4. b # 0
  BY <1>3, PowerZero
<1>5. b - 1 \in Place /\ b - 1 \in 0..IndexBits /\ (b - 1) + 1 = b /\ ~ (b <= b - 1)
  BY <1>3, <1>4, Width DEF Place
<1>6. ~ (x < Power(b - 1))
  BY <1>2, <1>5
<1>7. Power(b - 1) \in Nat
  BY <1>5, PowerGrows
<1>8. Power(b - 1) <= x
  BY <1>6, <1>7
<1>9. QED
  BY <1>3, <1>5, <1>8

LEMMA HalfOrLess ==
  ASSUME NEW w \in Nat, w >= 2, NEW s \in Nat PROVE s \div w \in Nat /\ 2 * (s \div w) <= s
OBVIOUS

LEMMA Wraps == ASSUME NEW s \in Nat, NEW n \in 1..s PROVE (n + s - 1) % s = n - 1
OBVIOUS

LEMMA SmallQuotients ==
  ASSUME NEW d \in Nat \ {0}, NEW a \in Nat
  PROVE  (a < d => a \div d = 0) /\ (d <= a /\ a < 2 * d => a \div d = 1)
OBVIOUS

LEMMA SmearIsInitial ==
  ASSUME NEW x \in Nat, NEW t \in Place, Power(t) <= x, x < Power(t + 1)
  PROVE  Smear(OnesOf(x)) = 0..t
<1>1. IndexBits \in Nat /\ t \in Nat /\ t < IndexBits /\ t \in 0..IndexBits
  BY Width DEF Place
<1>2. t \in OnesOf(x)
  <2>1. Power(t) \in Nat \ {0} /\ Power(t + 1) = 2 * Power(t)
    BY <1>1, PowerGrows, PowerNext
  <2>2. x \div Power(t) = 1
    BY <2>1, SmallQuotients
  <2>3. QED
    BY <2>2 DEF OnesOf, Power
<1>3. ASSUME NEW c \in OnesOf(x) PROVE c <= t
  <2>0. c \in Nat
    BY DEF OnesOf, Place
  <2>1. SUFFICES ASSUME c > t PROVE FALSE
    BY <1>1, <2>0
  <2>2. c \in 0..IndexBits /\ (x \div Power(c)) % 2 = 1
    BY Width DEF OnesOf, Power
  <2>3. Power(t + 1) <= Power(c)
    BY <1>1, <2>1, <2>2, PowerOrder
  <2>4. Power(c) \in Nat \ {0} /\ Power(t + 1) \in Nat
    <3>1. t + 1 \in 0..IndexBits /\ c \in Nat
      BY <1>1, <2>2
    <3>2. QED
      BY <2>2, <3>1, PowerGrows
  <2>5. PICK q : q = x \div Power(c)
    OBVIOUS
  <2>6. q = 0
    BY <2>3, <2>4, <2>5, SmallQuotients
  <2>7. q % 2 = 1
    BY <2>2, <2>5
  <2>8. QED
    BY <2>6, <2>7
<1>4. \A c \in OnesOf(x) : c \in Nat
  BY DEF OnesOf, Place
<1>5. ASSUME NEW b PROVE b \in Smear(OnesOf(x)) <=> b \in 0..t
  <2>1. b \in Smear(OnesOf(x)) => b \in 0..t
    BY <1>1, <1>3, <1>4 DEF Smear, Place
  <2>2. b \in 0..t => b \in Smear(OnesOf(x))
    BY <1>1, <1>2 DEF Smear, Place
  <2>3. QED
    BY <2>1, <2>2
<1>6. QED
  BY <1>5

-----------------------------------------------------------------------------
(* The sum of the powers of two in a set of bits, which ValueOf() takes off *)
(* the set in the order of CHOOSE.                                          *)

Pick(s) == CHOOSE b \in s : TRUE
Less(s, b) == s \ {b}

Term(f, s) == IF s = {} THEN 0 ELSE Power(Pick(s)) + f[Less(s, Pick(s))]

Sums(f, S) == f = [s \in SUBSET S |-> Term(f, s)]

LEMMA PickIn == ASSUME NEW s, s # {} PROVE Pick(s) \in s
BY DEF Pick

LEMMA BitSets ==
  /\ \A s \in SUBSET Place : IsFiniteSet(s) /\ Cardinality(s) \in Nat
  /\ \A s \in SUBSET Place : \A b \in s : Cardinality(s \ {b}) = Cardinality(s) - 1
<1>1. IsFiniteSet(Place)
  BY Width, FS_Interval DEF Place
<1>2. \A s \in SUBSET Place : IsFiniteSet(s)
  BY <1>1, FS_Subset
<1>3. QED
  BY <1>2, FS_CardinalityType, FS_RemoveElement

(* Among sets of bits there is one without a bit more than another one.     *)
LEMMA SmallestSet ==
  ASSUME NEW B, B \subseteq SUBSET Place, B # {}
  PROVE  \E s \in B : \A b \in s : s \ {b} \notin B
<1> DEFINE T == {Cardinality(s) : s \in B}
<1>1. T \subseteq Nat /\ T # {}
  BY BitSets
<1>2. PICK n \in T : \A m \in T : n <= m
  BY <1>1, HasLeast
<1>3. PICK s \in B : Cardinality(s) = n
  OBVIOUS
<1>4. ASSUME NEW b \in s, s \ {b} \in B PROVE FALSE
  <2>1. Cardinality(s \ {b}) = n - 1 /\ n \in Nat
    BY <1>1, <1>3, BitSets
  <2>2. Cardinality(s \ {b}) \in T
    BY <1>4
  <2>3. n <= n - 1
    BY <1>2, <2>1, <2>2
  <2>4. QED
    BY <2>1, <2>3
<1>5. QED
  BY <1>3, <1>4

(* The subsets of S of at most k bits. *)
Small(S, k) == {s \in SUBSET S : Cardinality(s) <= k}

LEMMA SumsExist == ASSUME NEW S \in SUBSET Place PROVE \E f : Sums(f, S)
<1> DEFINE Bad == {k \in Nat : ~ \E f : f = [s \in Small(S, k) |-> Term(f, s)]}
<1>1. CASE Bad = {}
  <2>1. Cardinality(S) \in Nat
    BY BitSets
  <2>2. PICK f : f = [s \in Small(S, Cardinality(S)) |-> Term(f, s)]
    BY <1>1, <2>1
  <2>3. \A s \in SUBSET S : Cardinality(s) <= Cardinality(S)
    BY BitSets, FS_Subset
  <2>4. Small(S, Cardinality(S)) = SUBSET S
    BY <2>3 DEF Small
  <2>5. QED
    BY <2>2, <2>4 DEF Sums
<1>2. CASE Bad # {}
  <2>1. Bad \subseteq Nat
    OBVIOUS
  <2>2. PICK k \in Bad : \A j \in Bad : k <= j
    BY <1>2, <2>1, HasLeast
  <2>3. k \in Nat /\ ~ \E f : f = [s \in Small(S, k) |-> Term(f, s)]
    OBVIOUS
  <2>4. \E g : \A s \in Small(S, k) : Cardinality(s) < k => g[s] = Term(g, s)
    <3>1. CASE k = 0
      <4>1. \A s \in Small(S, k) : ~ (Cardinality(s) < k)
        BY <3>1, BitSets DEF Small
      <4>2. QED
        BY <4>1
    <3>2. CASE k # 0
      <4>1. k - 1 \in Nat /\ ~ (k <= k - 1)
        BY <2>3, <3>2
      <4>2. PICK g : g = [s \in Small(S, k - 1) |-> Term(g, s)]
        BY <2>2, <4>1
      <4>3. ASSUME NEW s \in Small(S, k), Cardinality(s) < k PROVE s \in Small(S, k - 1)
        <5>1. Cardinality(s) \in Nat
          BY BitSets DEF Small
        <5>2. QED
          BY <2>3, <4>3, <5>1 DEF Small
      <4>4. \A s \in Small(S, k - 1) : g[s] = Term(g, s)
        BY <4>2
      <4>5. QED
        BY <4>3, <4>4
    <3>3. QED
      BY <3>1, <3>2
  <2>5. PICK g : \A s \in Small(S, k) : Cardinality(s) < k => g[s] = Term(g, s)
    BY <2>4
  <2> DEFINE f == [s \in Small(S, k) |-> IF Cardinality(s) < k THEN g[s] ELSE Term(g, s)]
  <2>6. ASSUME NEW s \in Small(S, k) PROVE f[s] = Term(f, s)
    <3>1. f[s] = Term(g, s)
      BY <2>5
    <3>2. CASE s = {}
      BY <3>1, <3>2 DEF Term
    <3>3. CASE s # {}
      <4>1. Pick(s) \in s /\ s \in SUBSET Place /\ s \subseteq S
        BY <3>3, PickIn DEF Small
      <4>2. Cardinality(Less(s, Pick(s))) = Cardinality(s) - 1 /\ Cardinality(s) \in Nat
        BY <4>1, BitSets DEF Less
      <4>3. Cardinality(Less(s, Pick(s))) < k /\ Less(s, Pick(s)) \in Small(S, k)
        BY <2>3, <4>1, <4>2 DEF Small, Less
      <4>4. f[Less(s, Pick(s))] = g[Less(s, Pick(s))]
        BY <4>3
      <4>5. QED
        BY <3>1, <3>3, <4>4 DEF Term
    <3>4. QED
      BY <3>2, <3>3
  <2>7. f = [s \in Small(S, k) |-> f[s]]
    OBVIOUS
  <2> HIDE DEF f
  <2>8. f = [s \in Small(S, k) |-> Term(f, s)]
    BY <2>6, <2>7
  <2>9. QED
    BY <2>3, <2>8
<1>3. QED
  BY <1>1, <1>2

LEMMA ValueIs ==
  ASSUME NEW S \in SUBSET Place
  PROVE  \E f : Sums(f, S) /\ ValueOf(S) = f[S]
<1> DEFINE f == CHOOSE g : Sums(g, S)
<1>1. Sums(f, S)
  BY SumsExist
<1>2. ValueOf(S) = f[S]
  BY DEF ValueOf, MapThenSumSet, MapThenFoldSet, Sums, Term, Pick, Power, Less
<1>3. QED
  BY <1>1, <1>2

(* Every sum is a natural number, and the order does not matter. *)
LEMMA SumIsNat ==
  ASSUME NEW S \in SUBSET Place, NEW f, Sums(f, S), NEW u \in SUBSET S
  PROVE  f[u] \in Nat
<1> DEFINE Bad == {s \in SUBSET S : f[s] \notin Nat}
<1>1. CASE Bad = {}
  BY <1>1
<1>2. CASE Bad # {}
  <2>1. PICK s \in Bad : \A b \in s : s \ {b} \notin Bad
    <3>1. Bad \subseteq SUBSET Place
      OBVIOUS
    <3>2. QED
      BY <1>2, <3>1, SmallestSet
  <2>2. s \in SUBSET S /\ f[s] \notin Nat /\ f[s] = Term(f, s)
    BY DEF Sums
  <2>3. s # {}
    BY <2>2 DEF Term
  <2>4. Pick(s) \in s /\ Pick(s) \in 0..IndexBits
    BY <2>2, <2>3, PickIn, Width
  <2>5. f[Less(s, Pick(s))] \in Nat
    BY <2>1, <2>2, <2>4 DEF Less
  <2>6. Power(Pick(s)) \in Nat
    BY <2>4, PowerGrows
  <2>7. QED
    BY <2>2, <2>3, <2>5, <2>6 DEF Term
<1>3. QED
  BY <1>1, <1>2

LEMMA SumOfOthers ==
  \A S \in SUBSET Place : \A f : Sums(f, S) =>
    \A u \in SUBSET S : \A c \in Place : c \in u => f[u] = Power(c) + f[Less(u, c)]
<1> SUFFICES ASSUME NEW S \in SUBSET Place, NEW f, Sums(f, S), NEW u \in SUBSET S, NEW c \in Place, c \in u
             PROVE  f[u] = Power(c) + f[Less(u, c)]
  OBVIOUS
<1> DEFINE Bad == {s \in SUBSET S : \E b \in Place \cap s : f[s] # Power(b) + f[Less(s, b)]}
<1>1. CASE Bad = {}
  BY <1>1
<1>2. CASE Bad # {}
  <2>1. PICK s \in Bad : \A b \in s : Less(s, b) \notin Bad
    <3>1. Bad \subseteq SUBSET Place
      OBVIOUS
    <3>2. QED
      BY <1>2, <3>1, SmallestSet, Zenon DEF Less
  <2>2. s \in SUBSET S /\ f[s] = Term(f, s)
    BY DEF Sums
  <2>3. PICK b \in Place \cap s : f[s] # Power(b) + f[Less(s, b)]
    OBVIOUS
  <2> DEFINE a == Pick(s)
  <2>4. a \in s /\ f[s] = Power(a) + f[Less(s, a)]
    BY <2>2, <2>3, PickIn DEF Term
  <2> HIDE DEF a
  <2> a \in Place
    BY <2>2, <2>4
  <2>5. a # b
    BY <2>3, <2>4
  <2>6. /\ b \in Less(s, a) /\ Less(s, a) \in SUBSET S /\ Less(s, a) \notin Bad
        /\ a \in Less(s, b) /\ Less(s, b) \in SUBSET S /\ Less(s, b) \notin Bad
    BY <2>1, <2>2, <2>4, <2>5 DEF Less
  <2>7. f[Less(s, a)] = Power(b) + f[Less(Less(s, a), b)]
    BY <2>6
  <2>8. f[Less(s, b)] = Power(a) + f[Less(Less(s, b), a)]
    BY <2>6
  <2>9. Less(Less(s, a), b) = Less(Less(s, b), a) /\ Less(Less(s, a), b) \in SUBSET S
    BY <2>2 DEF Less
  <2>10. f[Less(Less(s, a), b)] \in Nat
    BY <2>9, SumIsNat
  <2>11. Power(a) \in Nat /\ Power(b) \in Nat
    <3>1. a \in Place /\ b \in Place
      BY <2>2, <2>3, <2>4
    <3>2. QED
      BY <3>1, PowerGrows, Width
  <2>12. f[s] = Power(b) + f[Less(s, b)]
    <3>1. PICK n, p, q : n = f[Less(Less(s, a), b)] /\ p = Power(a) /\ q = Power(b)
      OBVIOUS
    <3>2. n \in Nat /\ p \in Nat /\ q \in Nat
      BY <2>10, <2>11, <3>1
    <3>3. f[s] = p + (q + n)
      BY <2>4, <2>7, <3>1
    <3>4. f[Less(s, b)] = p + n
      BY <2>8, <2>9, <3>1
    <3>5. p + (q + n) = q + (p + n)
      BY <3>2
    <3>6. QED
      BY <3>1, <3>3, <3>4, <3>5
  <2>13. QED
    BY <2>3, <2>12
<1>3. QED
  BY <1>1, <1>2

LEMMA SumToBit ==
  ASSUME NEW S \in SUBSET Place, NEW f, Sums(f, S), NEW k \in Place, 0..k \in SUBSET S
  PROVE  f[0..k] = Power(k) + f[0..k - 1]
<1>1. k \in 0..k /\ Less(0..k, k) = 0..k - 1
  BY Width DEF Place, Less
<1>2. \A u \in SUBSET S : \A c \in Place : c \in u => f[u] = Power(c) + f[Less(u, c)]
  BY SumOfOthers
<1>3. f[0..k] = Power(k) + f[Less(0..k, k)]
  BY <1>1, <1>2
<1>4. QED
  BY <1>1, <1>3

(* The lowest t + 1 bits. *)
LEMMA ValueOfInitial == ASSUME NEW t \in Place PROVE ValueOf(0..t) = Power(t + 1) - 1
<1>1. 0..t \in SUBSET Place /\ t \in Nat /\ t < IndexBits /\ IndexBits \in Nat
  BY Width DEF Place
<1>2. PICK f : Sums(f, 0..t) /\ ValueOf(0..t) = f[0..t]
  BY <1>1, ValueIs
<1> DEFINE F(k) == f[0..k]
<1>0. ValueOf(0..t) = F(t)
  BY <1>2
<1> DEFINE Bad == {k \in 0..t : F(k) # Power(k + 1) - 1}
<1>3. CASE Bad = {}
  <2>1. t \in 0..t /\ t \notin Bad
    BY <1>1, <1>3
  <2>2. F(t) = Power(t + 1) - 1
    BY <2>1, Zenon
  <2> HIDE DEF F
  <2>3. QED
    BY <1>0, <2>2
<1>4. CASE Bad # {}
  <2>1. Bad \subseteq Nat
    BY <1>1
  <2>2. PICK k \in Bad : \A j \in Bad : k <= j
    BY <1>4, <2>1, HasLeast
  <2>3. k \in 0..t /\ F(k) # Power(k + 1) - 1 /\ k \in Place /\ k \in 0..IndexBits
    BY <1>1, Width DEF Place
  <2>4. 0..k \in SUBSET (0..t) /\ k \in 0..k /\ (0..k) \ {k} = 0..k - 1
    BY <1>1, <2>3
  <2>5. F(k) = Power(k) + F(k - 1)
    BY <1>1, <1>2, <2>3, <2>4, SumToBit
  <2> HIDE DEF F
  <2>6. Power(k) \in Nat /\ Power(k + 1) = 2 * Power(k)
    BY <2>3, PowerGrows, PowerNext
  <2>7. CASE k = 0
    <3>1. 0..k - 1 = {} /\ {} \in SUBSET (0..t)
      BY <2>7
    <3>2. F(k - 1) = 0
      BY <1>2, <3>1 DEF F, Sums, Term
    <3>3. Power(k) = 1
      BY <2>3, <2>7, PowerZero
    <3>4. QED
      BY <2>3, <2>5, <2>6, <2>7, <3>2, <3>3
  <2>8. CASE k # 0
    <3>1. k - 1 \in 0..t /\ ~ (k <= k - 1) /\ (k - 1) + 1 = k
      BY <1>1, <2>3, <2>8
    <3>2. F(k - 1) = Power(k) - 1
      BY <2>2, <3>1
    <3>3. QED
      BY <2>3, <2>5, <2>6, <3>2
  <2>9. QED
    BY <2>7, <2>8
<1>5. QED
  BY <1>3, <1>4

LEMMA ValueInNat == ASSUME NEW S \in SUBSET Place PROVE ValueOf(S) \in Nat
<1>1. PICK f : Sums(f, S) /\ ValueOf(S) = f[S]
  BY ValueIs
<1>2. QED
  BY <1>1, SumIsNat

(* For every width of a word, roundup_word64_to_pow2() answers with no less *)
(* than the number of words it is given, so that the block it sizes has     *)
(* room for all of them.                                                    *)
THEOREM RoundUpGrows ==
  ASSUME NEW n \in 0..Size \div W
  PROVE  /\ roundup_word64_to_pow2(n) \in Nat
         /\ roundup_word64_to_pow2(n) >= n
<1> DEFINE x == (n + Size - 1) % Size
           v == ValueOf(Smear(OnesOf(x)))
<1>1. Size \in Nat /\ Size > 0 /\ W \in Nat /\ W >= 2
  BY SizeFacts, Width
<1>2. Size \div W \in Nat /\ 2 * (Size \div W) <= Size
  BY <1>1, HalfOrLess
<1>3. n \in Nat /\ 2 * n <= Size
  <2>1. PICK h : h = Size \div W
    OBVIOUS
  <2>2. h \in Nat /\ 2 * h <= Size /\ n \in 0..h
    BY <1>2, <2>1
  <2>3. QED
    BY <1>1, <2>2
<1>4. v \in Nat
  <2>1. Smear(OnesOf(x)) \in SUBSET Place
    BY DEF Smear
  <2>2. QED
    BY <2>1, ValueInNat
<1>5. roundup_word64_to_pow2(n) = IF (v + 1) % Size = 0 THEN 1 ELSE (v + 1) % Size
  BY DEF roundup_word64_to_pow2
<1> HIDE DEF v
<1>6. (v + 1) % Size \in Nat
  BY <1>1, <1>4
<1>7. CASE n <= 1
  BY <1>3, <1>5, <1>6, <1>7
<1>8. CASE n > 1
  <2>1. x = n - 1
    BY <1>1, <1>3, <1>8, Wraps
  <2>2. x \in Nat \ {0} /\ x < Size
    BY <1>1, <1>3, <1>8, <2>1
  <2>3. PICK t \in Place : Power(t) <= x /\ x < Power(t + 1)
    BY <2>2, TopBit
  <2>4. v = Power(t + 1) - 1
    BY <2>2, <2>3, SmearIsInitial, ValueOfInitial DEF v
  <2>5. t \in 0..IndexBits /\ t + 1 \in 0..IndexBits
    BY Width
  <2>6. Power(t) \in Nat /\ Power(t + 1) \in Nat /\ Power(t + 1) = 2 * Power(t)
    BY <2>5, PowerGrows, PowerNext
  <2>7. Power(t + 1) < Size
    <3>1. Power(t) <= n - 1
      BY <2>1, <2>3
    <3>2. PICK p, s : p = Power(t) /\ s = Size
      OBVIOUS
    <3>3. p \in Nat /\ s \in Nat /\ p <= n - 1 /\ 2 * n <= s
      BY <1>1, <1>3, <2>6, <3>1, <3>2
    <3>4. 2 * p < s
      BY <1>3, <3>3
    <3>5. QED
      BY <2>6, <3>2, <3>4
  <2>8. (v + 1) % Size = Power(t + 1)
    BY <1>1, <2>4, <2>6, <2>7
  <2>9. n <= Power(t + 1)
    BY <1>3, <2>1, <2>3, <2>6
  <2>10. QED
    BY <1>3, <1>5, <1>8, <2>6, <2>8, <2>9
<1>9. QED
  BY <1>3, <1>7, <1>8

-----------------------------------------------------------------------------
(* What the constants give. *)
LEMMA Constants ==
  /\ W \in Nat \ {0} /\ IntBits \in Nat \ {0} /\ IntBits < W
  /\ Byte \in Nat \ {0} /\ W % Byte = 0 /\ Size \in Nat /\ W < Size
  /\ Indices \subseteq 0..Size - 1
BY BitArrayAssumption, SizeFacts DEF Index

(* Where the bytes of a capacity do not wrap around, realloc() is asked for  *)
(* what the capacity says, and memset() clears what that adds.              *)
LEMMA BytesAsMeant ==
  ASSUME NEW c \in Nat, NEW d \in Nat, c <= d, d * W < Size
  PROVE  /\ c * W < Size /\ (d # 0 => Bytes(d) # 0)
         /\ WordsOf(Bytes(d)) = d * Byte
         /\ WordsOf((Bytes(d) - Bytes(c)) % Size) = (d - c) * Byte
<1>1. ASSUME NEW b \in Nat \ {0}, NEW w \in Nat \ {0}, w % b = 0
      PROVE  w \div b \in Nat \ {0} /\ w = b * (w \div b)
  BY <1>1
<1>2. PICK k : k = W \div Byte
  OBVIOUS
<1>3. k \in Nat \ {0} /\ W = Byte * k
  BY <1>1, <1>2, Constants
<1>4. ASSUME NEW q \in Nat, NEW x \in Nat \ {0} PROVE (q * x) \div x = q
  OBVIOUS
<1>5. ASSUME NEW e \in Nat PROVE WordsOf(e * W) = e * Byte
  <2>1. e * (Byte * k) = (e * Byte) * k /\ e * Byte \in Nat
    BY ONLY <1>3, <1>5, Constants
  <2>2. ((e * Byte) * k) \div k = e * Byte
    BY ONLY <1>3, <1>4, <2>1
  <2>3. e * W = (e * Byte) * k
    BY ONLY <1>3, <2>1
  <2>4. QED
    BY ONLY <1>2, <2>2, <2>3 DEF WordsOf
<1>6. c * W \in Nat /\ d * W \in Nat /\ c * W <= d * W /\ d * W - c * W = (d - c) * W
  BY ONLY Constants, c \in Nat, d \in Nat, c <= d
<1>7. ASSUME NEW s \in Nat, NEW x \in Nat, x < s PROVE x % s = x
  BY <1>7
<1>8. Size \in Nat /\ c * W < Size
  BY ONLY <1>6, Constants, d * W < Size
<1>9. Bytes(c) = c * W /\ Bytes(d) = d * W
  BY ONLY <1>6, <1>7, <1>8, d * W < Size DEF Bytes
<1>10. d - c \in Nat /\ (d - c) * W \in Nat /\ (d - c) * W < Size
  <2>1. d - c \in Nat
    OBVIOUS
  <2>2. d * W - c * W \in Nat /\ d * W - c * W < Size
    BY ONLY <1>6, <1>8, d * W < Size
  <2>3. QED
    BY ONLY <1>6, <2>1, <2>2
<1>11. (Bytes(d) - Bytes(c)) % Size = (d - c) * W
  BY ONLY <1>6, <1>7, <1>8, <1>9, <1>10
<1>12. d # 0 => Bytes(d) # 0
  BY ONLY <1>9, Constants, d \in Nat
<1>13. QED
  BY ONLY <1>5, <1>8, <1>9, <1>10, <1>11, <1>12

(* What realloc() gives, and memset() clears, are numbers of words.         *)
LEMMA BytesInNat ==
  ASSUME NEW c \in Nat, NEW d \in Nat
  PROVE  /\ WordsOf(Bytes(d)) \in Nat
         /\ WordsOf((Bytes(d) - Bytes(c)) % Size) \in Nat
<1>1. ASSUME NEW b \in Nat \ {0}, NEW w \in Nat \ {0}, w % b = 0 PROVE w \div b \in Nat \ {0}
  BY <1>1
<1>2. W \div Byte \in Nat \ {0}
  BY <1>1, Constants
<1>3. ASSUME NEW s \in Nat \ {0}, NEW x \in Int PROVE x % s \in Nat
  OBVIOUS
<1>4. Size \in Nat \ {0} /\ c * W \in Int /\ d * W \in Int
  BY Constants
<1>5. Bytes(c) \in Nat /\ Bytes(d) \in Nat
  BY ONLY <1>3, <1>4 DEF Bytes
<1>6. (Bytes(d) - Bytes(c)) % Size \in Nat
  <2>1. Bytes(d) - Bytes(c) \in Int
    BY <1>5
  <2>2. QED
    BY ONLY <1>3, <1>4, <2>1
<1>7. QED
  BY <1>2, <1>5, <1>6, DivInNat DEF WordsOf

LEMMA IndexWord == ASSUME NEW k \in Index PROVE k \div W \in Word /\ k \in Nat
<1>1. k \in Nat /\ k <= Size
  BY Constants DEF Index
<1>2. k \div W \in Nat /\ k \div W <= Size \div W
  BY ONLY <1>1, Constants, DivMonotone, DivInNat
<1>3. Size \div W \in Nat
  BY Constants, DivInNat
<1>4. QED
  BY <1>1, <1>2, <1>3 DEF Word

(* The number of words for a number of bits, and the power of two for that. *)
LEMMA RoundUp ==
  ASSUME NEW n \in Index
  PROVE  /\ ROUNDUP_BITS_TO_WORDS(n) \in Nat
         /\ roundup_word64_to_pow2(ROUNDUP_BITS_TO_WORDS(n)) \in Nat
         /\ roundup_word64_to_pow2(ROUNDUP_BITS_TO_WORDS(n)) >= ROUNDUP_BITS_TO_WORDS(n)
         /\ n + W - 1 < Size => n <= ROUNDUP_BITS_TO_WORDS(n) * W
<1> DEFINE words == ROUNDUP_BITS_TO_WORDS(n)
<1>1. n \in Nat /\ n + W - 1 \in Nat
  BY Constants DEF Index
<1>2. words \in 0..Size \div W
  BY <1>1, Constants, WrappedInRange DEF ROUNDUP_BITS_TO_WORDS
<1>3. words \in Nat
  BY <1>2
<1>4. ASSUME n + W - 1 < Size PROVE n <= words * W
  <2>1. (n + W - 1) % Size = n + W - 1
    BY <1>1, <1>4, Constants
  <2>2. QED
    BY <1>1, <2>1, Constants, UpCovers DEF ROUNDUP_BITS_TO_WORDS
<1>5. QED
  BY <1>2, <1>3, <1>4, RoundUpGrows

-----------------------------------------------------------------------------
(* The shape of the calls: they resize the array, or change the words first *)
(* to last of it, or leave its block.                                       *)

Touches(first, last) ==
  IF last >= alloc
    THEN Undefined
    ELSE /\ buff_bits' \in [Word -> SUBSET Bit]
         /\ \A w \in Word : w \notin first..last => buff_bits'[w] = buff_bits[w]
         /\ UNCHANGED <<array, num_of_bits, num_of_words, capacity, alloc, written, failed>>

OneBitCall(index) ==
  \/ bit_array_set_bit(index)
  \/ bit_array_clear_bit(index)
  \/ bit_array_toggle_bit(index)
  \/ bit_array_get_bit(index)

RegionCall(start, length) ==
  \/ bit_array_set_region(start, length)
  \/ bit_array_clear_region(start, length)
  \/ bit_array_toggle_region(start, length)

LEMMA IntBitIsBits == ASSUME NEW index \in Index PROVE IntBit(index) \subseteq Bit
<1>1. index % IntBits \in 0..IntBits - 1
  BY Constants, ModInRange DEF Index
<1>2. QED
  BY <1>1, Constants DEF IntBit, Bit

LEMMA OneBitShape ==
  ASSUME TypeOK, NEW index \in Index, OneBitCall(index)
  PROVE  /\ array = "valid"
         /\ \/ index >= num_of_bits /\ bit_array_resize(index)
            \/ index < num_of_bits /\ Touches(index \div W, index \div W)
<1>1. array = "valid" /\ index \in Nat /\ num_of_bits \in Nat /\ index \div W \in Word
  BY IndexWord, Constants
  DEF OneBitCall, bit_array_set_bit, bit_array_clear_bit, bit_array_toggle_bit,
      bit_array_get_bit, OneBit, TypeOK, Index
<1>2. CASE index >= num_of_bits
  BY <1>1, <1>2
  DEF OneBitCall, bit_array_set_bit, bit_array_clear_bit, bit_array_toggle_bit,
      bit_array_get_bit, OneBit
<1>3. CASE index < num_of_bits
  <2>1. CASE index \div W >= alloc
    BY <1>1, <1>3, <2>1
    DEF OneBitCall, bit_array_set_bit, bit_array_clear_bit, bit_array_toggle_bit,
        bit_array_get_bit, OneBit, Store, Leaves, Touches
  <2>2. CASE ~(index \div W >= alloc)
    <3> DEFINE w0 == index \div W
    <3>1. PICK S \in SUBSET Bit :
             /\ buff_bits' = [w \in Word |-> IF w0 <= w /\ w <= w0 THEN S ELSE buff_bits[w]]
             /\ UNCHANGED <<array, num_of_bits, num_of_words, capacity, alloc, written, failed>>
      <4>0. w0 \in Nat /\ \A w \in Word : w \in Nat
        BY <1>1 DEF Word
      <4>a. \A w \in Word : buff_bits[w] \subseteq Bit
        BY DEF TypeOK
      <4>b. IntBit(index) \subseteq Bit
        BY IntBitIsBits
      <4>c. buff_bits[w0] \subseteq Bit
        BY <1>1, <4>a
      <4>d. \A w \in Word : w0 <= w /\ w <= w0 => w = w0
        BY <4>0
      <4>1. CASE bit_array_set_bit(index)
        <5>0. buff_bits[w0] \cup IntBit(index) \in SUBSET Bit
          BY <4>b, <4>c
        <5>1. WITNESS buff_bits[w0] \cup IntBit(index) \in SUBSET Bit
        <5>2. QED
          BY <1>1, <1>3, <2>2, <4>1, <4>d DEF bit_array_set_bit, OneBit, Store, Leaves
      <4>2. CASE bit_array_clear_bit(index)
        <5>0. buff_bits[w0] \ IntBit(index) \in SUBSET Bit
          BY <4>b, <4>c
        <5>1. WITNESS buff_bits[w0] \ IntBit(index) \in SUBSET Bit
        <5>2. QED
          BY <1>1, <1>3, <2>2, <4>2, <4>d DEF bit_array_clear_bit, OneBit, Store, Leaves
      <4>3. CASE bit_array_toggle_bit(index)
        <5>0. Xor(buff_bits[w0], IntBit(index)) \in SUBSET Bit
          BY <4>b, <4>c DEF Xor
        <5>1. WITNESS Xor(buff_bits[w0], IntBit(index)) \in SUBSET Bit
        <5>2. QED
          BY <1>1, <1>3, <2>2, <4>3, <4>d DEF bit_array_toggle_bit, OneBit, Store, Leaves
      <4>4. CASE bit_array_get_bit(index)
        <5>0. buff_bits[w0] \in SUBSET Bit
          BY <4>b, <4>c
        <5>1. WITNESS buff_bits[w0] \in SUBSET Bit
        <5>2. QED
          BY <1>1, <1>3, <2>2, <4>4, <4>d DEF bit_array_get_bit, OneBit, Store, Leaves
      <4>5. QED
        BY <4>1, <4>2, <4>3, <4>4 DEF OneBitCall
    <3>2. w0 \in Nat /\ \A w \in Word : w \in Nat
      BY <1>1 DEF Word
    <3>3. buff_bits' \in [Word -> SUBSET Bit]
      BY <3>1 DEF TypeOK
    <3>4. \A w \in Word : w \notin w0..w0 => buff_bits'[w] = buff_bits[w]
      BY <3>1, <3>2
    <3>5. QED
      BY <1>1, <1>3, <2>2, <3>1, <3>3, <3>4 DEF Touches
  <2>3. QED
    BY <2>1, <2>2
<1>4. QED
  BY <1>1, <1>2, <1>3

LEMMA RegionShape ==
  ASSUME TypeOK, NEW start \in Index, NEW length \in Index \ {0}, RegionCall(start, length)
  PROVE  /\ array = "valid" /\ start + length <= num_of_bits
         /\ Touches(start \div W, (start + length - 1) \div W)
<1> DEFINE first == start \div W
           last  == (start + length - 1) \div W
           Mask(w) == RegionMask(start, length, w)
<1>1. array = "valid" /\ start + length <= num_of_bits
  BY DEF RegionCall, bit_array_set_region, bit_array_clear_region, bit_array_toggle_region, Region
<1>2. CASE last >= alloc
  BY <1>1, <1>2
  DEF RegionCall, bit_array_set_region, bit_array_clear_region, bit_array_toggle_region, Region,
      Store, Leaves, Touches, last_word, NUMB_OF_WORD64
<1>3. CASE ~(last >= alloc)
  <2>1. \A w : Mask(w) \subseteq Bit
    BY DEF RegionMask, bit_mask_64
  <2>2. PICK V \in [Word -> SUBSET Bit] :
           /\ buff_bits' = [w \in Word |-> IF first <= w /\ w <= last THEN V[w] ELSE buff_bits[w]]
           /\ UNCHANGED <<array, num_of_bits, num_of_words, capacity, alloc, written, failed>>
    <3>a. \A w \in Word : buff_bits[w] \subseteq Bit
      BY DEF TypeOK
    <3> HIDE DEF Mask
    <3>1. CASE bit_array_set_region(start, length)
      <4>0. [w \in Word |-> buff_bits[w] \cup Mask(w)] \in [Word -> SUBSET Bit]
        BY <2>1, <3>a
      <4>1. WITNESS [w \in Word |-> buff_bits[w] \cup Mask(w)] \in [Word -> SUBSET Bit]
      <4>2. QED
        BY <1>3, <3>1 DEF bit_array_set_region, Region, Store, Leaves, last_word, NUMB_OF_WORD64, Mask
    <3>2. CASE bit_array_clear_region(start, length)
      <4>0. [w \in Word |-> buff_bits[w] \ Mask(w)] \in [Word -> SUBSET Bit]
        BY <2>1, <3>a
      <4>1. WITNESS [w \in Word |-> buff_bits[w] \ Mask(w)] \in [Word -> SUBSET Bit]
      <4>2. QED
        BY <1>3, <3>2 DEF bit_array_clear_region, Region, Store, Leaves, last_word, NUMB_OF_WORD64, Mask
    <3>3. CASE bit_array_toggle_region(start, length)
      <4>0. [w \in Word |-> Xor(buff_bits[w], Mask(w))] \in [Word -> SUBSET Bit]
        BY <2>1, <3>a DEF Xor
      <4>1. WITNESS [w \in Word |-> Xor(buff_bits[w], Mask(w))] \in [Word -> SUBSET Bit]
      <4>2. QED
        BY <1>3, <3>3 DEF bit_array_toggle_region, Region, Store, Leaves, last_word, NUMB_OF_WORD64, Mask
    <3>4. QED
      BY <3>1, <3>2, <3>3 DEF RegionCall
  <2>3. start \in Nat /\ start + length - 1 \in Nat
    BY Constants DEF Index
  <2>4. first \in Nat /\ last \in Nat /\ \A w \in Word : w \in Nat
    BY ONLY <2>3, Constants, DivInNat DEF Word
  <2>5. buff_bits' \in [Word -> SUBSET Bit]
    BY <2>2 DEF TypeOK
  <2>6. \A w \in Word : w \notin first..last => buff_bits'[w] = buff_bits[w]
    BY <2>2, <2>4
  <2>7. QED
    BY <1>1, <1>3, <2>2, <2>5, <2>6 DEF Touches
<1>4. QED
  BY <1>1, <1>2, <1>3

-----------------------------------------------------------------------------
(* The invariant. *)

LEMMA InitInv == Init => IInv
<1> SUFFICES ASSUME Init PROVE IInv
  OBVIOUS
<1>1. TypeOK
  <2>1. 0 \in Index /\ [w \in Word |-> {}] \in [Word -> SUBSET Bit]
    BY Constants DEF Index
  <2>2. QED
    BY <2>1 DEF Init, TypeOK
<1>2. SizesInv
  <2>1. Init => written = {} /\ alloc = 0 /\ capacity = 0 /\ array # "valid"
    BY DEF Init
  <2>2. QED
    BY <2>1, Constants DEF SizesInv
<1>3. MemoryInv /\ GainedWordsClear /\ UndefinedOnlyThen
  BY DEF Init, MemoryInv, Healthy, GainedWordsClear, UndefinedOnlyThen
<1>4. QED
  BY <1>1, <1>2, <1>3 DEF IInv

LEMMA ConstructStep == ASSUME IInv, NEW n \in Indices, bit_array_construct(n) PROVE IInv'
<1> DEFINE words == ROUNDUP_BITS_TO_WORDS(n)
<1>1. /\ array' = "valid" /\ num_of_bits' = n /\ num_of_words' = words
      /\ capacity' = IF roundup_word64_to_pow2(words) > MIN_CAPACITY
                       THEN roundup_word64_to_pow2(words) ELSE MIN_CAPACITY
      /\ buff_bits' = [w \in Word |-> {}] /\ alloc' = capacity' /\ written' = 0..capacity' - 1
      /\ failed' = failed
  BY DEF bit_array_construct
<1>2. n \in Index /\ words \in Nat /\ roundup_word64_to_pow2(words) \in Nat
      /\ roundup_word64_to_pow2(words) >= words
  BY RoundUp, BitArrayAssumption
<1> HIDE DEF words
<1>3. capacity' \in Nat /\ words <= capacity'
  BY <1>1, <1>2 DEF MIN_CAPACITY
<1>4. TypeOK'
  BY <1>1, <1>2, <1>3 DEF IInv, TypeOK
<1>5. capacity' <= capacity' * Byte
  BY <1>3, Constants, TimesAtLeast
<1>6. SizesInv'
  <2>1. num_of_words' = ROUNDUP_BITS_TO_WORDS(num_of_bits')
    BY <1>1 DEF words
  <2>2. alloc' <= capacity' * Byte /\ written' \subseteq 0..alloc' - 1
    BY <1>1, <1>5
  <2>3. QED
    BY <2>1, <2>2 DEF SizesInv
<1>7. MemoryInv' /\ GainedWordsClear' /\ UndefinedOnlyThen'
  BY <1>1, <1>3 DEF MemoryInv, GainedWordsClear, UndefinedOnlyThen
<1>8. QED
  BY <1>4, <1>6, <1>7 DEF IInv

(* Where the number of words has not wrapped around, the bits are within    *)
(* the block of a healthy array.                                            *)
LEMMA BitsInBlock ==
  ASSUME IInv, Healthy, Fits
  PROVE  num_of_bits <= num_of_words * W /\ num_of_bits <= alloc * W
<1>1. /\ num_of_bits \in Index /\ num_of_words = ROUNDUP_BITS_TO_WORDS(num_of_bits)
      /\ num_of_words <= alloc /\ num_of_words \in Nat /\ alloc \in Nat
  BY DEF IInv, TypeOK, SizesInv, MemoryInv, Healthy
<1>2. num_of_bits <= num_of_words * W
  BY <1>1, RoundUp DEF Fits
<1>3. num_of_words * W <= alloc * W /\ num_of_words * W \in Nat /\ alloc * W \in Nat
  BY ONLY <1>1, Constants
<1>4. QED
  BY <1>1, <1>2, <1>3 DEF Index

(* A call that leaves the block, or frees it again, where it may.           *)
LEMMA UndefinedStep ==
  ASSUME IInv, Undefined, failed \/ ~Fits \/ ~BytesFit \/ num_of_bits = alloc * W
  PROVE  IInv'
<1>1. array' = "undefined" /\ UNCHANGED <<num_of_bits, num_of_words, capacity, heap, failed>>
  BY DEF Undefined
<1>2. TypeOK' /\ SizesInv' /\ MemoryInv' /\ GainedWordsClear'
  BY <1>1 DEF IInv, TypeOK, SizesInv, MemoryInv, Healthy, GainedWordsClear, BytesFit, heap
<1>3. UndefinedOnlyThen'
  BY <1>1 DEF UndefinedOnlyThen, Fits, BytesFit, heap
<1>4. QED
  BY <1>2, <1>3 DEF IInv

LEMMA DestructStep == ASSUME IInv, bit_array_destruct PROVE IInv'
<1>1. CASE Freed /\ Undefined
  <2>1. array = "valid" /\ alloc = 0 /\ num_of_bits \in Nat /\ 0 * W = 0
    BY <1>1, Constants DEF bit_array_destruct, Freed, IInv, TypeOK, Index
  <2>2. ~failed /\ Fits /\ BytesFit => num_of_bits = alloc * W
    BY <2>1, BitsInBlock DEF Healthy
  <2>3. QED
    BY <1>1, <2>2, UndefinedStep
<1>2. CASE ~Freed
  <2>1. /\ array' = "null" /\ num_of_bits' = 0 /\ num_of_words' = 0 /\ capacity' = 0
        /\ buff_bits' = [w \in Word |-> {}] /\ alloc' = 0 /\ written' = {} /\ failed' = FALSE
    BY <1>2 DEF bit_array_destruct
  <2>2. TypeOK'
    <3>1. 0 \in Index /\ [w \in Word |-> {}] \in [Word -> SUBSET Bit]
      BY Constants DEF Index
    <3>2. QED
      BY <2>1, <3>1 DEF TypeOK
  <2>3. SizesInv'
    BY <2>1, Constants DEF SizesInv
  <2>4. MemoryInv' /\ GainedWordsClear' /\ UndefinedOnlyThen'
    BY <2>1 DEF MemoryInv, Healthy, GainedWordsClear, UndefinedOnlyThen
  <2>5. QED
    BY <2>2, <2>3, <2>4 DEF IInv
<1>3. QED
  BY <1>1, <1>2 DEF bit_array_destruct

(* realloc() has given a larger block: the words behind the old capacity    *)
(* have been cleared.                                                       *)
LEMMA ReallocatedStep ==
  ASSUME IInv, array = "valid", array' = "valid", UndefinedOnlyThen',
         NEW words \in Nat, NEW new \in Nat, new >= words, words > capacity,
         num_of_bits' \in Index, num_of_words' = words, capacity' = new,
         num_of_words' = ROUNDUP_BITS_TO_WORDS(num_of_bits'),
         Fits' => Fits,
         BytesFit' => /\ BytesFit /\ WordsOf(Bytes(new)) = new * Byte
                      /\ WordsOf((Bytes(new) - Bytes(capacity)) % Size) = (new - capacity) * Byte,
         Reallocated(new)
  PROVE  IInv'
<1> DEFINE size    == WordsOf(Bytes(new))
           grown   == WordsOf((Bytes(new) - Bytes(capacity)) % Size)
           cleared == capacity..capacity + grown - 1
<1>1. /\ alloc' = size /\ written' = written \cup cleared /\ failed' = failed
      /\ buff_bits' = [w \in Word |-> IF w \in cleared THEN {} ELSE buff_bits[w]]
  BY DEF Reallocated
<1>2. /\ TypeOK /\ SizesInv /\ MemoryInv /\ GainedWordsClear
      /\ capacity \in Nat /\ alloc \in Nat /\ num_of_words \in Nat /\ written \subseteq Nat
  BY DEF IInv, TypeOK
<1>3. size \in Nat /\ grown \in Nat
  BY <1>2, BytesInNat
<1>4. BytesFit' => BytesFit /\ size = new * Byte /\ grown = (new - capacity) * Byte
  OBVIOUS
<1> HIDE DEF size, grown
<1>5. cleared \subseteq Nat /\ new > capacity
  BY <1>2, <1>3
<1>6. TypeOK'
  <2>1. buff_bits' \in [Word -> SUBSET Bit]
    BY <1>1, <1>2 DEF TypeOK
  <2>2. QED
    BY <1>1, <1>2, <1>3, <1>5, <2>1 DEF TypeOK
<1>7. ASSUME BytesFit'
      PROVE  /\ size \in Nat /\ capacity + grown <= size /\ alloc <= size /\ new <= size
             /\ new - capacity <= grown
  <2>1. (new - capacity) * Byte = new * Byte - capacity * Byte
    BY ONLY <1>2, new \in Nat, Constants
  <2>2. capacity <= capacity * Byte /\ capacity * Byte \in Nat
    BY ONLY <1>2, Constants
  <2>3. new <= new * Byte /\ new * Byte \in Nat
    BY ONLY new \in Nat, Constants
  <2>4. capacity * Byte <= new * Byte
    BY ONLY <1>2, <1>5, new \in Nat, Constants
  <2>5. new - capacity <= (new - capacity) * Byte
    <3>1. new - capacity \in Nat
      BY <1>2, <1>5
    <3>2. QED
      BY ONLY <3>1, Constants
  <2>6. alloc <= capacity * Byte
    BY <1>2, <1>4, <1>7 DEF SizesInv
  <2>7. size = new * Byte /\ grown = (new - capacity) * Byte
    BY <1>4, <1>7
  <2>8. QED
    BY ONLY <1>2, <2>1, <2>2, <2>3, <2>4, <2>5, <2>6, <2>7, new \in Nat
<1>8. SizesInv'
  <2>1. ASSUME BytesFit' PROVE alloc' <= capacity' * Byte /\ written' \subseteq 0..alloc' - 1
    <3>1. alloc' <= capacity' * Byte
      BY <1>1, <1>3, <1>4, <2>1
    <3>2. written \subseteq 0..alloc - 1
      BY <1>2, <1>4, <2>1 DEF SizesInv
    <3>3. /\ size \in Nat /\ capacity + grown <= size /\ alloc <= size
          /\ capacity \in Nat /\ alloc \in Nat /\ grown \in Nat
      BY <1>2, <1>3, <1>7, <2>1
    <3>4. 0..alloc - 1 \subseteq 0..size - 1 /\ cleared \subseteq 0..size - 1
      BY ONLY <3>3
    <3>5. written' \subseteq 0..alloc' - 1
      BY <1>1, <3>2, <3>4
    <3>6. QED
      BY <3>1, <3>5
  <2>2. QED
    BY <2>1 DEF SizesInv
<1>9. MemoryInv'
  <2> SUFFICES ASSUME Healthy'
               PROVE num_of_words' <= capacity' /\ capacity' <= alloc' /\ 0..capacity' - 1 \subseteq written'
    BY DEF MemoryInv
  <2>1. Healthy /\ BytesFit'
    BY <1>1, <1>4 DEF Healthy
  <2>2. 0..capacity - 1 \subseteq written
    BY <1>2, <2>1 DEF MemoryInv
  <2>3. 0..new - 1 \subseteq written'
    BY <1>1, <1>2, <1>3, <1>7, <2>1, <2>2
  <2>4. QED
    BY <1>1, <1>7, <2>1, <2>3
<1>10. GainedWordsClear'
  <2> SUFFICES ASSUME array' = "valid", ~failed', BytesFit', Fits', NEW w \in Word,
                      num_of_words' <= w, w \in written'
               PROVE  buff_bits'[w] = {}
    BY DEF GainedWordsClear
  <2>1. Healthy /\ Fits /\ BytesFit
    BY <1>1, <1>4 DEF Healthy
  <2>2. num_of_words <= capacity
    BY <1>2, <2>1 DEF MemoryInv
  <2>3. CASE w \in cleared
    BY <1>1, <2>3
  <2>4. CASE w \notin cleared
    <3>1. w \in written /\ buff_bits'[w] = buff_bits[w]
      BY <1>1, <2>4
    <3>2. num_of_words <= w
      BY <1>2, <2>2 DEF Word
    <3>3. QED
      BY <1>2, <2>1, <3>1, <3>2 DEF GainedWordsClear, Healthy
  <2>5. QED
    BY <2>3, <2>4
<1>11. QED
  BY <1>6, <1>8, <1>9, <1>10 DEF IInv

LEMMA ResizeStep ==
  ASSUME IInv, array = "valid", NEW n \in Indices, n >= num_of_bits, bit_array_resize(n)
  PROVE  IInv'
<1> DEFINE words == ROUNDUP_BITS_TO_WORDS(n)
           new   == roundup_word64_to_pow2(words)
<1>1. /\ n \in Index /\ words \in Nat /\ new \in Nat /\ new >= words
  BY RoundUp, BitArrayAssumption
<1>2. \/ words < num_of_words /\ num_of_words - 1 >= alloc /\ Undefined
      \/ /\ array' = "valid" /\ num_of_bits' = n /\ num_of_words' = words
         /\ \/ words > capacity /\ capacity' = new /\ Bytes(new) = 0 /\ FreedByRealloc
            \/ words > capacity /\ capacity' = new /\ Bytes(new) # 0 /\ Reallocated(new)
            \/ words > capacity /\ capacity' = new /\ NotReallocated
            \/ /\ ~(words > capacity) /\ capacity' = capacity /\ Shrunk(words)
               /\ words < num_of_words => num_of_words - 1 < alloc
  <2>1. alloc \in Nat /\ num_of_words \in Nat
    BY DEF IInv, TypeOK
  <2>2. QED
    BY <2>1 DEF bit_array_resize, Leaves, Grown
<1> HIDE DEF words, new
<1>3. /\ TypeOK /\ SizesInv /\ MemoryInv /\ GainedWordsClear
      /\ capacity \in Nat /\ alloc \in Nat /\ num_of_words \in Nat /\ num_of_bits \in Nat
      /\ written \subseteq Nat /\ n \in Nat
  BY <1>1 DEF IInv, TypeOK, Index
<1>4. \A w \in Word : w \in Nat
  BY DEF Word
<1>a. CASE words < num_of_words /\ num_of_words - 1 >= alloc /\ Undefined
  <2>1. failed \/ ~BytesFit
    BY <1>1, <1>3, <1>a DEF MemoryInv, Healthy
  <2>2. QED
    BY <1>a, <2>1, UndefinedStep
<1>b. CASE /\ array' = "valid" /\ num_of_bits' = n /\ num_of_words' = words
           /\ \/ words > capacity /\ capacity' = new /\ Bytes(new) = 0 /\ FreedByRealloc
              \/ words > capacity /\ capacity' = new /\ Bytes(new) # 0 /\ Reallocated(new)
              \/ words > capacity /\ capacity' = new /\ NotReallocated
              \/ /\ ~(words > capacity) /\ capacity' = capacity /\ Shrunk(words)
                 /\ words < num_of_words => num_of_words - 1 < alloc
  <2>1. array' = "valid" /\ num_of_bits' = n /\ num_of_words' = words
    BY <1>b
  <2>2. num_of_words' = ROUNDUP_BITS_TO_WORDS(num_of_bits')
    BY <2>1 DEF words
  <2>3. Fits' => Fits
    BY <1>3, <2>1, Constants DEF Fits
  <2>4. UndefinedOnlyThen'
    BY <2>1 DEF UndefinedOnlyThen
  <2>5. words > capacity /\ capacity' = new =>
          new \in Nat \ {0} /\ capacity < new /\ (BytesFit' <=> new * W < Size)
    BY <1>1, <1>3 DEF BytesFit
  <2>6. words > capacity /\ capacity' = new /\ BytesFit' =>
          /\ BytesFit /\ Bytes(new) # 0 /\ WordsOf(Bytes(new)) = new * Byte
          /\ WordsOf((Bytes(new) - Bytes(capacity)) % Size) = (new - capacity) * Byte
    BY <1>1, <1>3, <2>5, BytesAsMeant DEF BytesFit
  <2>7. CASE words > capacity /\ capacity' = new /\ Bytes(new) = 0 /\ FreedByRealloc
    <3>1. ~BytesFit' /\ alloc' = 0 /\ written' = {} /\ buff_bits' = buff_bits /\ failed' = failed
      BY <2>6, <2>7 DEF FreedByRealloc
    <3>2. TypeOK'
      BY <1>1, <1>3, <2>1, <2>7, <3>1 DEF TypeOK
    <3>3. SizesInv' /\ MemoryInv' /\ GainedWordsClear'
      BY <2>2, <3>1 DEF SizesInv, MemoryInv, Healthy, GainedWordsClear
    <3>4. QED
      BY <2>4, <3>2, <3>3 DEF IInv
  <2>8. CASE words > capacity /\ capacity' = new /\ Bytes(new) # 0 /\ Reallocated(new)
    BY <1>1, <1>3, <1>4, <2>1, <2>2, <2>3, <2>4, <2>5, <2>6, <2>8, ReallocatedStep
  <2>9. CASE words > capacity /\ capacity' = new /\ NotReallocated
    <3>1. failed' = TRUE /\ buff_bits' = buff_bits /\ alloc' = alloc /\ written' = written
      BY <2>9 DEF NotReallocated, heap
    <3>2. TypeOK'
      BY <1>1, <1>3, <2>1, <2>9, <3>1 DEF TypeOK
    <3>3. capacity * Byte <= new * Byte /\ capacity * Byte \in Nat /\ new * Byte \in Nat
      BY ONLY <1>1, <1>3, <2>5, <2>9, Constants
    <3>4. SizesInv'
      <4>1. BytesFit' => alloc' <= capacity' * Byte /\ written' \subseteq 0..alloc' - 1
        BY <1>3, <2>6, <2>9, <3>1, <3>3 DEF SizesInv
      <4>2. QED
        BY <2>2, <4>1 DEF SizesInv
    <3>5. MemoryInv' /\ GainedWordsClear'
      BY <3>1 DEF MemoryInv, Healthy, GainedWordsClear
    <3>6. QED
      BY <2>4, <3>2, <3>4, <3>5 DEF IInv
  <2>10. CASE /\ ~(words > capacity) /\ capacity' = capacity /\ Shrunk(words)
              /\ words < num_of_words => num_of_words - 1 < alloc
    <3>1. /\ alloc' = alloc /\ written' = written \cup words..num_of_words - 1 /\ failed' = failed
          /\ buff_bits' = [w \in Word |-> IF words <= w /\ w < num_of_words THEN {} ELSE buff_bits[w]]
      BY <2>10 DEF Shrunk
    <3>2. words..num_of_words - 1 \subseteq 0..alloc - 1 /\ words..num_of_words - 1 \subseteq Nat
      BY <1>1, <1>3, <2>10
    <3>3. TypeOK'
      <4>1. buff_bits' \in [Word -> SUBSET Bit]
        BY <1>3, <3>1 DEF TypeOK
      <4>2. QED
        BY <1>1, <1>3, <2>1, <2>10, <3>1, <3>2, <4>1 DEF TypeOK
    <3>4. BytesFit' <=> BytesFit
      BY <2>10 DEF BytesFit
    <3>5. SizesInv'
      <4>1. BytesFit' => alloc' <= capacity' * Byte /\ written' \subseteq 0..alloc' - 1
        BY <1>3, <2>10, <3>1, <3>2, <3>4 DEF SizesInv
      <4>2. QED
        BY <2>2, <4>1 DEF SizesInv
    <3>6. MemoryInv'
      BY <1>1, <1>3, <2>1, <2>10, <3>1, <3>4 DEF MemoryInv, Healthy
    <3>7. GainedWordsClear'
      <4> SUFFICES ASSUME array' = "valid", ~failed', BytesFit', Fits', NEW w \in Word,
                          num_of_words' <= w, w \in written'
                   PROVE  buff_bits'[w] = {}
        BY DEF GainedWordsClear
      <4>1. CASE w < num_of_words
        BY <2>1, <3>1, <4>1
      <4>2. CASE ~(w < num_of_words)
        <5>1. w \notin words..num_of_words - 1
          BY <1>3, <1>4, <4>2
        <5>2. w \in written /\ num_of_words <= w /\ buff_bits'[w] = buff_bits[w]
          BY <1>3, <1>4, <3>1, <4>2, <5>1
        <5>3. QED
          BY <1>3, <2>3, <3>1, <3>4, <5>2 DEF GainedWordsClear
      <4>3. QED
        BY <4>1, <4>2
    <3>8. QED
      BY <2>4, <3>3, <3>5, <3>6, <3>7 DEF IInv
  <2>11. QED
    BY <1>b, <2>7, <2>8, <2>9, <2>10
<1>5. QED
  BY <1>2, <1>a, <1>b

(* A call on bits of the array, the last of them x. *)
LEMMA TouchStep ==
  ASSUME IInv, array = "valid", NEW first \in Nat, NEW x \in Nat, x < num_of_bits,
         Touches(first, x \div W)
  PROVE  IInv'
<1> DEFINE last == x \div W
<1>1. /\ TypeOK /\ SizesInv /\ MemoryInv /\ GainedWordsClear
      /\ alloc \in Nat /\ num_of_words \in Nat /\ num_of_bits \in Nat
  BY DEF IInv, TypeOK, Index
<1>2. last \in Nat
  BY Constants, DivInNat
<1>3. CASE last >= alloc
  <2>1. ASSUME ~failed, Fits, BytesFit PROVE FALSE
    <3>1. num_of_bits <= alloc * W
      BY <2>1, BitsInBlock DEF Healthy
    <3>2. alloc * W \in Nat
      BY <1>1, Constants
    <3>3. x < alloc * W
      BY <1>1, <3>1, <3>2
    <3>4. last < alloc
      BY <1>1, <3>3, Constants, DivLess
    <3>5. QED
      BY <1>1, <1>2, <1>3, <3>4
  <2>2. QED
    BY <1>3, <2>1, UndefinedStep DEF Touches
<1>4. CASE ~(last >= alloc)
  <2>1. /\ buff_bits' \in [Word -> SUBSET Bit]
        /\ \A w \in Word : w \notin first..last => buff_bits'[w] = buff_bits[w]
        /\ UNCHANGED <<array, num_of_bits, num_of_words, capacity, alloc, written, failed>>
    BY <1>4 DEF Touches
  <2>2. TypeOK' /\ SizesInv' /\ MemoryInv' /\ UndefinedOnlyThen'
    BY <1>1, <2>1 DEF TypeOK, SizesInv, MemoryInv, Healthy, UndefinedOnlyThen, BytesFit
  <2>3. GainedWordsClear'
    <3> SUFFICES ASSUME array' = "valid", ~failed', BytesFit', Fits', NEW w \in Word,
                        num_of_words' <= w, w \in written'
                 PROVE  buff_bits'[w] = {}
      BY DEF GainedWordsClear
    <3>1. Healthy /\ Fits /\ num_of_words <= w /\ w \in written
      BY <2>1 DEF Healthy, Fits, BytesFit
    <3>2. num_of_bits <= num_of_words * W
      BY <3>1, BitsInBlock
    <3>3. num_of_words * W \in Nat
      BY <1>1, Constants
    <3>4. x < num_of_words * W
      BY <1>1, <3>2, <3>3
    <3>5. last < num_of_words
      BY <1>1, <3>4, Constants, DivLess
    <3>6. w \notin first..last
      BY <1>1, <1>2, <3>1, <3>5 DEF Word
    <3>7. QED
      BY <1>1, <2>1, <3>1, <3>6 DEF GainedWordsClear, Healthy
  <2>4. QED
    BY <2>2, <2>3 DEF IInv
<1>5. QED
  BY <1>3, <1>4

LEMMA StutterStep == ASSUME IInv, UNCHANGED vars PROVE IInv'
BY DEF vars, IInv, TypeOK, SizesInv, MemoryInv, Healthy, GainedWordsClear, Fits, BytesFit, UndefinedOnlyThen

LEMMA FindStep == ASSUME IInv, NEW start \in Indices, Find(start) PROVE IInv'
<1>1. CASE UNCHANGED vars
  BY <1>1, StutterStep
<1>2. CASE Leaves(NUMB_OF_WORD64(start)) /\ Undefined
  <2>1. array = "valid" /\ start <= num_of_bits /\ start \div W >= alloc
    BY <1>2 DEF Find, Leaves, NUMB_OF_WORD64
  <2>2. alloc \in Nat /\ num_of_bits \in Nat /\ start \in Nat /\ alloc * W \in Nat
    BY Constants DEF IInv, TypeOK, Index
  <2>3. ASSUME ~failed, Fits, BytesFit PROVE num_of_bits = alloc * W
    <3>1. num_of_bits <= alloc * W
      BY <2>1, <2>3, BitsInBlock DEF Healthy
    <3>2. ~(start \div W < alloc)
      BY <2>1, <2>2, Constants, DivInNat
    <3>3. ~(start < alloc * W)
      BY <2>2, <3>2, Constants, DivLess
    <3>4. QED
      BY <2>1, <2>2, <3>1, <3>3
  <2>4. QED
    BY <1>2, <2>3, UndefinedStep
<1>3. QED
  BY <1>1, <1>2 DEF Find

LEMMA DumpStep == ASSUME IInv, bit_array_dump PROVE IInv'
<1>1. CASE UNCHANGED vars
  BY <1>1, StutterStep
<1>2. CASE Leaves(capacity - 1) /\ Undefined
  <2>1. array = "valid" /\ capacity - 1 >= alloc /\ capacity \in Nat /\ alloc \in Nat
    BY <1>2 DEF bit_array_dump, Read, Leaves, IInv, TypeOK
  <2>2. failed \/ ~BytesFit
    BY <2>1 DEF IInv, MemoryInv, Healthy
  <2>3. QED
    BY <1>2, <2>2, UndefinedStep
<1>3. QED
  BY <1>1, <1>2 DEF bit_array_dump, Read

LEMMA ForeachStep == ASSUME IInv, bit_array_foreach PROVE IInv'
<1> DEFINE x == num_of_bits - 1
<1>1. CASE UNCHANGED vars
  BY <1>1, StutterStep
<1>2. CASE Leaves(x \div W) /\ Undefined
  <2>1. array = "valid" /\ num_of_bits > 0 /\ x \div W >= alloc
    BY <1>2 DEF bit_array_foreach, Read, Leaves
  <2>2. x \in Nat /\ x < num_of_bits /\ num_of_bits \in Nat /\ alloc \in Nat
    BY <2>1, Constants DEF IInv, TypeOK, Index
  <2> HIDE DEF x
  <2>3. ASSUME ~failed, Fits, BytesFit PROVE FALSE
    <3>1. num_of_bits <= alloc * W /\ alloc * W \in Nat
      BY <2>1, <2>2, <2>3, BitsInBlock, Constants DEF Healthy
    <3>2. x < alloc * W
      BY <2>2, <3>1
    <3>3. x \div W < alloc /\ x \div W \in Nat
      BY ONLY <2>2, <3>2, Constants, DivLess, DivInNat
    <3>4. QED
      BY <2>1, <2>2, <3>3
  <2>4. QED
    BY <1>2, <2>3, UndefinedStep
<1>3. QED
  BY <1>1, <1>2 DEF bit_array_foreach, Read

LEMMA NextStep == IInv /\ [Next]_vars => IInv'
<1> SUFFICES ASSUME IInv, [Next]_vars PROVE IInv'
  OBVIOUS
<1>1. TypeOK /\ num_of_bits \in Nat
  BY DEF IInv, TypeOK, Index
<1>2. ASSUME NEW n \in Indices, bit_array_construct(n) PROVE IInv'
  BY <1>2, ConstructStep
<1>3. CASE bit_array_destruct
  BY <1>3, DestructStep
<1>4. ASSUME NEW index \in Indices, OneBitCall(index) PROVE IInv'
  <2>1. index \in Index /\ index \in Nat
    BY Constants DEF Index
  <2>2. /\ array = "valid"
        /\ \/ index >= num_of_bits /\ bit_array_resize(index)
           \/ index < num_of_bits /\ Touches(index \div W, index \div W)
    BY <1>1, <1>4, <2>1, OneBitShape
  <2>3. CASE index >= num_of_bits /\ bit_array_resize(index)
    BY <2>2, <2>3, ResizeStep
  <2>4. CASE index < num_of_bits /\ Touches(index \div W, index \div W)
    <3>1. index \div W \in Nat
      BY <2>1, Constants, DivInNat
    <3>2. QED
      BY <2>1, <2>2, <2>4, <3>1, TouchStep
  <2>5. QED
    BY <2>2, <2>3, <2>4
<1>5. ASSUME NEW start \in Indices, Find(start) PROVE IInv'
  BY <1>5, FindStep
<1>6. ASSUME NEW r \in Regions, RegionCall(r[1], r[2]) PROVE IInv'
  <2>1. r[1] \in Index /\ r[2] \in Index \ {0}
    BY BitArrayAssumption
  <2>2. /\ array = "valid" /\ r[1] + r[2] <= num_of_bits
        /\ Touches(r[1] \div W, (r[1] + r[2] - 1) \div W)
    BY <1>1, <1>6, <2>1, RegionShape
  <2>3. r[1] \in Nat /\ r[1] + r[2] - 1 \in Nat /\ r[1] + r[2] - 1 < num_of_bits
    BY <1>1, <2>1, <2>2 DEF Index
  <2>4. r[1] \div W \in Nat
    BY <2>3, Constants, DivInNat
  <2>5. QED
    BY <2>2, <2>3, <2>4, TouchStep
<1>7. CASE bit_array_dump
  BY <1>7, DumpStep
<1>8. CASE bit_array_foreach
  BY <1>8, ForeachStep
<1>9. CASE UNCHANGED vars
  BY <1>9, StutterStep
<1>10. QED
  BY <1>2, <1>3, <1>4, <1>5, <1>6, <1>7, <1>8, <1>9 DEF Next, OneBitCall, RegionCall

LEMMA Inductive == Spec => []IInv
BY InitInv, NextStep, PTL DEF Spec

-----------------------------------------------------------------------------
(* Every variable keeps its type.                                           *)
THEOREM TypeCorrect == Spec => []TypeOK
<1>1. IInv => TypeOK
  BY DEF IInv
<1>2. QED
  BY <1>1, Inductive, PTL

(* The words of the array are within its block and have a value, and a call *)
(* leaves the block, or frees it twice, only after a failed realloc(),      *)
(* where the number of words or the bytes of the capacity wrap around (with *)
(* 0 bytes realloc() frees the block), or where a find begins at the end of *)
(* a full block.                                                            *)
THEOREM AccessIsSafe == Spec => []MemorySafe
<1>1. IInv => MemorySafe
  <2> SUFFICES ASSUME IInv PROVE MemoryCovers
    BY DEF MemorySafe, IInv
  <2>1. QED
    BY BitsInBlock DEF IInv, MemoryCovers, MemoryInv, SizesInv, Healthy
<1>2. QED
  BY <1>1, Inductive, PTL

(* The whole words that a growing array gains, and those it may still gain, *)
(* have no ones, as long as no size has wrapped around and no realloc() has *)
(* failed.                                                                  *)
THEOREM GainedAreClear == Spec => []GainedWordsClear
<1>1. IInv => GainedWordsClear
  BY DEF IInv
<1>2. QED
  BY <1>1, Inductive, PTL

-----------------------------------------------------------------------------
(* The steps of the one-bit calls. *)

LEMMA StoredBit ==
  ASSUME TypeOK, NEW k \in Indices, k < num_of_bits, array' = "valid"
  PROVE  /\ bit_array_set_bit(k) => buff_bits' = [buff_bits EXCEPT ![k \div W] = @ \cup IntBit(k)]
         /\ bit_array_clear_bit(k) => buff_bits' = [buff_bits EXCEPT ![k \div W] = @ \ IntBit(k)]
         /\ bit_array_toggle_bit(k) => buff_bits' = [buff_bits EXCEPT ![k \div W] = Xor(@, IntBit(k))]
<1> DEFINE w0 == k \div W
<1>1. /\ k \in Nat /\ num_of_bits \in Nat /\ w0 \in Word /\ w0 \in Nat /\ ~(k >= num_of_bits)
      /\ buff_bits \in [Word -> SUBSET Bit] /\ \A w \in Word : w \in Nat
  BY IndexWord, Constants DEF TypeOK, Index, Word
<1> HIDE DEF w0
<1>2. \A w \in Word : w0 <= w /\ w <= w0 <=> w = w0
  BY <1>1
<1>3. ASSUME bit_array_set_bit(k) PROVE buff_bits' = [buff_bits EXCEPT ![w0] = @ \cup IntBit(k)]
  <2>1. buff_bits' = [w \in Word |-> IF w0 <= w /\ w <= w0 THEN buff_bits[w] \cup IntBit(k) ELSE buff_bits[w]]
    BY <1>1, <1>3 DEF bit_array_set_bit, OneBit, Store, Undefined, w0
  <2>2. QED
    BY <1>1, <1>2, <2>1
<1>4. ASSUME bit_array_clear_bit(k) PROVE buff_bits' = [buff_bits EXCEPT ![w0] = @ \ IntBit(k)]
  <2>1. buff_bits' = [w \in Word |-> IF w0 <= w /\ w <= w0 THEN buff_bits[w] \ IntBit(k) ELSE buff_bits[w]]
    BY <1>1, <1>4 DEF bit_array_clear_bit, OneBit, Store, Undefined, w0
  <2>2. QED
    BY <1>1, <1>2, <2>1
<1>5. ASSUME bit_array_toggle_bit(k) PROVE buff_bits' = [buff_bits EXCEPT ![w0] = Xor(@, IntBit(k))]
  <2>1. buff_bits' = [w \in Word |-> IF w0 <= w /\ w <= w0 THEN Xor(buff_bits[w], IntBit(k)) ELSE buff_bits[w]]
    BY <1>1, <1>5 DEF bit_array_toggle_bit, OneBit, Store, Undefined, w0
  <2>2. QED
    BY <1>1, <1>2, <2>1
<1>6. QED
  BY <1>3, <1>4, <1>5 DEF w0

(* The bits of an int at one place, and at two places. *)
LEMMA IntBitFacts ==
  ASSUME NEW j \in Index, NEW k \in Index
  PROVE  /\ IntBit(k) # {}
         /\ k % IntBits # IntBits - 1 => IntBit(k) = {k % IntBits}
         /\ j % IntBits # k % IntBits => IntBit(j) \cap IntBit(k) = {}
<1>1. j % IntBits \in 0..IntBits - 1 /\ k % IntBits \in 0..IntBits - 1
  BY Constants, ModInRange DEF Index
<1>2. IntBits - 1 \in IntBits - 1..W - 1
  BY Constants
<1>3. QED
  BY <1>1, <1>2, Constants DEF IntBit

LEMMA OneBitStep ==
  ASSUME TypeOK, NEW k \in Indices, k < num_of_bits, array' = "valid"
  PROVE  /\ bit_array_set_bit(k) => IsSet(k)'
         /\ bit_array_clear_bit(k) => ~IsSet(k)'
         /\ bit_array_toggle_bit(k) => (IsSet(k)' \/ IsSet(k))
         /\ bit_array_toggle_bit(k) /\ k % IntBits # IntBits - 1 => (IsSet(k)' # IsSet(k))
         /\ bit_array_set_bit(k) \/ bit_array_clear_bit(k) \/ bit_array_toggle_bit(k) =>
              \A j \in Index : j < num_of_bits /\ ~Alias(j, k) => (IsSet(j)' = IsSet(j))
<1> DEFINE w0 == k \div W
           I  == IntBit(k)
           old == buff_bits[w0]
           new == buff_bits'[w0]
<1>1. k \in Index /\ w0 \in Word /\ buff_bits \in [Word -> SUBSET Bit]
  BY IndexWord, Constants DEF TypeOK, Index
<1>2. I # {} /\ (k % IntBits # IntBits - 1 => I = {k % IntBits})
  BY <1>1, IntBitFacts
<1>3. /\ IsSet(k) <=> old \cap I # {}
      /\ IsSet(k)' <=> new \cap I # {}
  BY DEF IsSet
<1>4. ASSUME bit_array_set_bit(k) PROVE new = old \cup I /\ \A w \in Word : w # w0 => buff_bits'[w] = buff_bits[w]
  BY <1>1, <1>4, StoredBit
<1>5. ASSUME bit_array_clear_bit(k) PROVE new = old \ I /\ \A w \in Word : w # w0 => buff_bits'[w] = buff_bits[w]
  BY <1>1, <1>5, StoredBit
<1>6. ASSUME bit_array_toggle_bit(k)
      PROVE  new = (old \ I) \cup (I \ old) /\ \A w \in Word : w # w0 => buff_bits'[w] = buff_bits[w]
  <2>1. buff_bits' = [buff_bits EXCEPT ![k \div W] = Xor(@, IntBit(k))]
    BY <1>6, StoredBit
  <2>2. QED
    BY <1>1, <2>1 DEF Xor
<1>7. ASSUME bit_array_set_bit(k) \/ bit_array_clear_bit(k) \/ bit_array_toggle_bit(k),
             NEW j \in Index, ~Alias(j, k)
      PROVE  IsSet(j)' = IsSet(j)
  <2>1. j \div W \in Word
    BY IndexWord
  <2>2. CASE j \div W # w0
    BY <1>4, <1>5, <1>6, <1>7, <2>1, <2>2 DEF IsSet
  <2>3. CASE j \div W = w0 /\ j % IntBits # k % IntBits
    <3>1. IntBit(j) \cap I = {}
      BY <1>1, <2>3, IntBitFacts
    <3>2. /\ IsSet(j) <=> old \cap IntBit(j) # {}
          /\ IsSet(j)' <=> new \cap IntBit(j) # {}
      BY <2>3 DEF IsSet
    <3>3. new = old \cup I \/ new = old \ I \/ new = (old \ I) \cup (I \ old)
      BY <1>4, <1>5, <1>6, <1>7
    <3> HIDE DEF old, new, I
    <3>4. new \cap IntBit(j) = old \cap IntBit(j)
      BY ONLY <3>1, <3>3
    <3>5. (IsSet(j)' <=> IsSet(j))
      BY ONLY <3>2, <3>4
    <3>6. IsSet(j)' \in BOOLEAN /\ IsSet(j) \in BOOLEAN
      BY DEF IsSet
    <3>7. QED
      BY ONLY <3>5, <3>6
  <2>4. QED
    BY <1>7, <2>2, <2>3 DEF Alias
<1> HIDE DEF old, new, I
<1>8. bit_array_set_bit(k) => IsSet(k)'
  BY <1>2, <1>3, <1>4
<1>9. bit_array_clear_bit(k) => ~IsSet(k)'
  BY <1>2, <1>3, <1>5
<1>10. bit_array_toggle_bit(k) => (IsSet(k)' \/ IsSet(k))
  BY <1>2, <1>3, <1>6
<1>11. bit_array_toggle_bit(k) /\ k % IntBits # IntBits - 1 => (IsSet(k)' # IsSet(k))
  BY <1>2, <1>3, <1>6
<1>12. QED
  BY <1>7, <1>8, <1>9, <1>10, <1>11

(* The one-bit calls agree with each other on every bit that they tell apart. *)
THEOREM OneBitCallsDoAgree == Spec => OneBitCallsAgree
<1>1. ASSUME IInv
      PROVE  \A k \in Indices :
        array' = "valid" /\ k < num_of_bits =>
          /\ bit_array_set_bit(k) => IsSet(k)'
          /\ bit_array_clear_bit(k) => ~IsSet(k)'
          /\ bit_array_toggle_bit(k) => (IsSet(k)' \/ IsSet(k))
          /\ bit_array_toggle_bit(k) /\ k % IntBits # IntBits - 1 => (IsSet(k)' # IsSet(k))
          /\ bit_array_set_bit(k) \/ bit_array_clear_bit(k) \/ bit_array_toggle_bit(k) =>
               \A j \in Index : j < num_of_bits /\ ~Alias(j, k) => (IsSet(j)' = IsSet(j))
  BY <1>1, OneBitStep DEF IInv
<1>2. QED
  BY <1>1, Inductive, PTL DEF OneBitCallsAgree

-----------------------------------------------------------------------------
(* The steps of the region calls. *)

(* The mask of a region that spans words, or begins with one, has just the  *)
(* bits of the region, counted from the top.                                *)
LEMMA MaskIsRegion ==
  ASSUME NEW start \in Nat, NEW length \in Nat \ {0}, NEW k \in Nat,
         start % W = 0 \/ start \div W # (start + length - 1) \div W
  PROVE  k \in start..start + length - 1 <=>
           /\ start \div W <= k \div W /\ k \div W <= (start + length - 1) \div W
           /\ W - 1 - (k % W) \in RegionMask(start, length, k \div W)
<1> DEFINE end == start + length - 1
           first == start \div W
           last  == end \div W
           word  == k \div W
           b     == W - 1 - (k % W)
<1>1. W \in Nat \ {0} /\ end \in Nat /\ start <= end
  BY Constants
<1>2. /\ first \in Nat /\ last \in Nat /\ word \in Nat /\ first <= last
      /\ start % W \in 0..W - 1 /\ end % W \in 0..W - 1 /\ k % W \in 0..W - 1
  BY ONLY <1>1, DivInNat, ModInRange, DivMonotone
<1>3. b \in Bit
  BY <1>1, <1>2 DEF Bit
<1>4. first = word => (start <= k <=> start % W <= k % W)
  BY ONLY <1>1, SameWord
<1>5. last = word => (k <= end <=> k % W <= end % W)
  BY ONLY <1>1, SameWord
<1>6. (first < word => start < k) /\ (word < first => k < start)
  BY ONLY <1>1, EarlierWord
<1>7. (last < word => end < k) /\ (word < last => k < end)
  BY ONLY <1>1, EarlierWord
<1>8. RegionMask(start, length, word) =
        CASE first = last -> {c \in Bit : c - (start % W) \in {d \in Bit : d >= W - length}}
          [] first < last /\ word = first -> Bit \ {d \in Bit : d >= W - (start % W)}
          [] first < last /\ word = last -> {d \in Bit : d >= W - ((end % W) + 1)}
          [] OTHER -> Bit
  BY DEF RegionMask, NUMB_OF_WORD64, INDX_IN_WORD64, last_word, bit_mask_64
<1>9. first = last => start % W = 0 /\ end % W = length - 1
  <2>1. first = last /\ start % W = 0 => end - start = end % W
    BY ONLY <1>1, FromWordStart
  <2>2. end - start = length - 1
    BY <1>1
  <2>3. QED
    BY <2>1, <2>2
<1> HIDE DEF end, first, last, word
<1>10. CASE word < first \/ last < word
  <2>1. k < start \/ end < k
    BY <1>6, <1>7, <1>10
  <2>2. ~(first <= word /\ word <= last)
    BY <1>2, <1>10
  <2>3. QED
    BY <1>1, <2>1, <2>2 DEF end, first, last, word
<1>11. CASE first < last /\ first < word /\ word < last
  <2>1. RegionMask(start, length, word) = Bit
    BY <1>2, <1>8, <1>11
  <2>2. QED
    BY <1>1, <1>2, <1>3, <1>6, <1>7, <1>11, <2>1 DEF end, first, last, word
<1>12. CASE first < last /\ word = first
  <2>1. RegionMask(start, length, word) = Bit \ {d \in Bit : d >= W - (start % W)}
    BY <1>2, <1>8, <1>12
  <2>2. b \in RegionMask(start, length, word) <=> start % W <= k % W
    BY <1>1, <1>2, <1>3, <2>1
  <2>3. start <= k <=> start % W <= k % W
    BY <1>4, <1>12
  <2>4. k < end
    BY <1>7, <1>12
  <2>5. QED
    BY <1>1, <1>2, <1>12, <2>2, <2>3, <2>4 DEF end, first, last, word
<1>13. CASE first < last /\ word = last
  <2>1. RegionMask(start, length, word) = {d \in Bit : d >= W - ((end % W) + 1)}
    BY <1>2, <1>8, <1>13
  <2>2. b \in RegionMask(start, length, word) <=> k % W <= end % W
    BY <1>1, <1>2, <1>3, <2>1
  <2>3. k <= end <=> k % W <= end % W
    BY <1>5, <1>13
  <2>4. start < k
    BY <1>6, <1>13
  <2>5. QED
    BY <1>1, <1>2, <1>13, <2>2, <2>3, <2>4 DEF end, first, last, word
<1>14. CASE first = last /\ word = first
  <2>1. RegionMask(start, length, word) = {c \in Bit : c - (start % W) \in {d \in Bit : d >= W - length}}
    BY <1>2, <1>8, <1>14
  <2>2. b - (start % W) = b
    <3>0. k % W \in Int /\ W \in Int
      BY <1>1, <1>2
    <3>1. start % W = 0
      BY ONLY <1>9, <1>14
    <3>2. b \in Int
      BY ONLY <3>0
    <3>3. QED
      BY ONLY <3>1, <3>2
  <2>3. b \in RegionMask(start, length, word) <=> b >= W - length
    BY <1>3, <2>1, <2>2
  <2>4. b >= W - length <=> k % W <= end % W
    BY <1>1, <1>2, <1>9, <1>14
  <2>5. k <= end <=> k % W <= end % W
    BY <1>5, <1>14
  <2>6. start <= k
    BY <1>2, <1>4, <1>9, <1>14
  <2>7. QED
    BY <1>1, <1>2, <1>14, <2>3, <2>4, <2>5, <2>6 DEF end, first, last, word
<1>15. QED
  BY <1>2, <1>10, <1>11, <1>12, <1>13, <1>14

LEMMA StoredRegion ==
  ASSUME TypeOK, NEW start \in Index, NEW length \in Index \ {0}, array' = "valid",
         RegionCall(start, length)
  PROVE  /\ start + length <= num_of_bits /\ (start + length - 1) \div W < alloc /\ alloc' = alloc
         /\ \A w \in Word :
              LET inside == start \div W <= w /\ w <= (start + length - 1) \div W
                  mask   == RegionMask(start, length, w)
              IN  /\ ~inside => buff_bits'[w] = buff_bits[w]
                  /\ inside /\ bit_array_set_region(start, length) =>
                       buff_bits'[w] = buff_bits[w] \cup mask
                  /\ inside /\ bit_array_clear_region(start, length) =>
                       buff_bits'[w] = buff_bits[w] \ mask
                  /\ inside /\ bit_array_toggle_region(start, length) =>
                       buff_bits'[w] = Xor(buff_bits[w], mask)
<1> DEFINE first == start \div W
           last  == (start + length - 1) \div W
<1>1. start + length <= num_of_bits /\ last < alloc /\ alloc' = alloc
  <2>1. last \in Nat /\ alloc \in Nat
    <3>1. start + length - 1 \in Nat
      BY Constants DEF Index
    <3>2. QED
      BY ONLY <3>1, Constants, DivInNat, TypeOK DEF TypeOK
  <2>2. QED
    BY <2>1, RegionShape DEF Touches, Undefined
<1>2. ASSUME bit_array_set_region(start, length)
      PROVE  buff_bits' = [w \in Word |-> IF first <= w /\ w <= last
                             THEN buff_bits[w] \cup RegionMask(start, length, w) ELSE buff_bits[w]]
  BY <1>2 DEF bit_array_set_region, Region, Store, Undefined, last_word, NUMB_OF_WORD64
<1>3. ASSUME bit_array_clear_region(start, length)
      PROVE  buff_bits' = [w \in Word |-> IF first <= w /\ w <= last
                             THEN buff_bits[w] \ RegionMask(start, length, w) ELSE buff_bits[w]]
  BY <1>3 DEF bit_array_clear_region, Region, Store, Undefined, last_word, NUMB_OF_WORD64
<1>4. ASSUME bit_array_toggle_region(start, length)
      PROVE  buff_bits' = [w \in Word |-> IF first <= w /\ w <= last
                             THEN Xor(buff_bits[w], RegionMask(start, length, w)) ELSE buff_bits[w]]
  BY <1>4 DEF bit_array_toggle_region, Region, Store, Undefined, last_word, NUMB_OF_WORD64
<1>5. QED
  BY <1>1, <1>2, <1>3, <1>4 DEF RegionCall

LEMMA RegionStep ==
  ASSUME TypeOK, NEW start \in Index, NEW length \in Index \ {0}, array' = "valid",
         INDX_IN_WORD64(start) = 0 \/ NUMB_OF_WORD64(start) # NUMB_OF_WORD64(start + length - 1)
  PROVE  LET region == start..start + length - 1
         IN  /\ bit_array_set_region(start, length) => FromTop' = FromTop \cup region
             /\ bit_array_clear_region(start, length) => FromTop' = FromTop \ region
             /\ bit_array_toggle_region(start, length) => FromTop' = Xor(FromTop, region)
<1> DEFINE region == start..start + length - 1
           end == start + length - 1
           top(k) == W - 1 - (k % W)
<1>1. SUFFICES ASSUME RegionCall(start, length)
      PROVE  /\ bit_array_set_region(start, length) => FromTop' = FromTop \cup region
             /\ bit_array_clear_region(start, length) => FromTop' = FromTop \ region
             /\ bit_array_toggle_region(start, length) => FromTop' = Xor(FromTop, region)
  BY DEF RegionCall
<1>2. /\ start \in Nat /\ length \in Nat \ {0} /\ end \in Nat /\ num_of_bits \in Index
      /\ alloc \in Nat
  BY Constants DEF Index, TypeOK
<1>3. start + length <= num_of_bits /\ end \div W < alloc /\ alloc' = alloc
  BY <1>1, StoredRegion
<1>4. region \subseteq Index
  BY <1>2, <1>3, Constants DEF Index
<1>5. \A k \in Index : /\ k \in FromTop <=> k \div W < alloc /\ top(k) \in buff_bits[k \div W]
                       /\ k \in FromTop' <=> k \div W < alloc /\ top(k) \in buff_bits'[k \div W]
  <2>1. \A k \in Index : k \in FromTop <=> k \div W < alloc /\ top(k) \in buff_bits[k \div W]
    BY DEF FromTop, NUMB_OF_WORD64, INDX_IN_WORD64
  <2>2. \A k \in Index : k \in FromTop' <=> k \div W < alloc' /\ top(k) \in buff_bits'[k \div W]
    BY DEF FromTop, NUMB_OF_WORD64, INDX_IN_WORD64
  <2>3. QED
    BY <1>3, <2>1, <2>2
<1>6. FromTop \subseteq Index /\ FromTop' \subseteq Index
  BY DEF FromTop
<1> DEFINE inside(k) == start \div W <= k \div W /\ k \div W <= end \div W
           mask(k)   == RegionMask(start, length, k \div W)
<1>7. \A k \in Index : k \in region <=> inside(k) /\ top(k) \in mask(k)
  <2> TAKE k \in Index
  <2>1. k \in Nat
    BY Constants DEF Index
  <2>2. start % W = 0 \/ start \div W # end \div W
    BY DEF NUMB_OF_WORD64, INDX_IN_WORD64
  <2>3. QED
    BY ONLY <1>2, <2>1, <2>2, MaskIsRegion
<1>8. \A k \in Index : inside(k) => k \div W < alloc
  <2> TAKE k \in Index
  <2>1. k \div W \in Nat /\ end \div W \in Nat
    BY <1>2, IndexWord, Constants, DivInNat
  <2>2. QED
    BY <1>2, <1>3, <2>1
<1>9. \A k \in Index :
        /\ ~inside(k) => buff_bits'[k \div W] = buff_bits[k \div W]
        /\ inside(k) /\ bit_array_set_region(start, length) =>
             buff_bits'[k \div W] = buff_bits[k \div W] \cup mask(k)
        /\ inside(k) /\ bit_array_clear_region(start, length) =>
             buff_bits'[k \div W] = buff_bits[k \div W] \ mask(k)
        /\ inside(k) /\ bit_array_toggle_region(start, length) =>
             buff_bits'[k \div W] = Xor(buff_bits[k \div W], mask(k))
  BY <1>1, StoredRegion, IndexWord
<1> HIDE DEF region, top, inside, mask
<1>10. ASSUME bit_array_set_region(start, length) PROVE FromTop' = FromTop \cup region
  <2>1. \A k \in Index : k \in FromTop' <=> k \in FromTop \/ k \in region
    BY <1>5, <1>7, <1>8, <1>9, <1>10
  <2>2. QED
    BY ONLY <1>4, <1>6, <2>1
<1>11. ASSUME bit_array_clear_region(start, length) PROVE FromTop' = FromTop \ region
  <2>1. \A k \in Index : k \in FromTop' <=> k \in FromTop /\ k \notin region
    BY <1>5, <1>7, <1>8, <1>9, <1>11
  <2>2. QED
    BY ONLY <1>4, <1>6, <2>1
<1>12. ASSUME bit_array_toggle_region(start, length) PROVE FromTop' = Xor(FromTop, region)
  <2>1. \A k \in Index : k \in FromTop' <=> ~(k \in FromTop <=> k \in region)
    BY <1>5, <1>7, <1>8, <1>9, <1>12 DEF Xor
  <2>2. QED
    BY ONLY <1>4, <1>6, <2>1 DEF Xor
<1>13. QED
  BY <1>10, <1>11, <1>12

(* A region call that spans words, or begins with one, acts on exactly the  *)
(* bits of its region when the bits of a word are counted from the top.     *)
THEOREM RegionCallsCountFromTop == Spec => RegionsAreFromTop
<1>1. ASSUME IInv
      PROVE  \A r \in Regions :
        LET region == r[1]..r[1] + r[2] - 1
        IN  /\ array' = "valid"
            /\ INDX_IN_WORD64(r[1]) = 0 \/ NUMB_OF_WORD64(r[1]) # NUMB_OF_WORD64(r[1] + r[2] - 1)
            => /\ bit_array_set_region(r[1], r[2]) => FromTop' = FromTop \cup region
               /\ bit_array_clear_region(r[1], r[2]) => FromTop' = FromTop \ region
               /\ bit_array_toggle_region(r[1], r[2]) => FromTop' = Xor(FromTop, region)
  <2> TAKE r \in Regions
  <2>1. r[1] \in Index /\ r[2] \in Index \ {0} /\ TypeOK
    BY <1>1, BitArrayAssumption DEF IInv
  <2>2. QED
    BY <2>1, RegionStep
<1>2. QED
  BY <1>1, Inductive, PTL DEF RegionsAreFromTop

-----------------------------------------------------------------------------
(* Least numbers, and the place of a bit. *)

LEMMA LeastNat ==
  ASSUME NEW T, T \subseteq Nat, T # {}
  PROVE  Min(T) \in T /\ \A y \in T : Min(T) <= y
<1>1. \E x \in T : \A y \in T : x <= y
  BY HasLeast
<1>2. QED
  BY <1>1 DEF Min

LEMMA TimesMonotone ==
  ASSUME NEW n \in Nat, NEW x \in Nat, NEW y \in Nat, x <= y
  PROVE  x * n <= y * n /\ x * n \in Nat /\ y * n \in Nat
<1>1. y - x \in Nat
  OBVIOUS
<1>2. (y - x) * n >= 0
  BY <1>1
<1>3. y * n = x * n + (y - x) * n
  BY <1>1
<1>4. x * n \in Nat /\ y * n \in Nat
  OBVIOUS
<1>5. QED
  BY <1>1, <1>2, <1>3, <1>4

LEMMA EarlierPlace ==
  ASSUME NEW x \in Nat, NEW y \in Nat, x < y, NEW b \in Bit
  PROVE  x * W + b <= y * W
<1>1. (x + 1) * W <= y * W /\ y * W \in Nat
  BY TimesMonotone, Constants
<1>2. (x + 1) * W = x * W + W /\ x * W \in Nat
  BY Constants
<1>3. b \in Nat /\ b < W
  BY Constants DEF Bit
<1>4. QED
  BY <1>1, <1>2, <1>3, Constants

LEMMA PlaceOf ==
  ASSUME NEW w \in Nat, NEW b \in Bit
  PROVE  w * W + b \in Nat /\ (w * W + b) \div W = w /\ (w * W + b) % W = b
<1>1. ASSUME NEW n \in Nat \ {0}, NEW a \in Nat, NEW r \in 0..n - 1
      PROVE  a * n + r \in Nat /\ (a * n + r) \div n = a /\ (a * n + r) % n = r
  OBVIOUS
<1>2. QED
  BY <1>1, Constants DEF Bit

LEMMA PlaceIn ==
  ASSUME NEW k \in Nat
  PROVE  k % W \in Bit /\ k \div W \in Nat /\ k = (k \div W) * W + (k % W)
<1>1. ASSUME NEW n \in Nat \ {0}
      PROVE  k % n \in 0..n - 1 /\ k \div n \in Nat /\ k = (k \div n) * n + (k % n)
  OBVIOUS
<1>2. QED
  BY <1>1, Constants DEF Bit

-----------------------------------------------------------------------------
(* FindOne() on words c. *)

Cur(start, c, w) == IF w = start \div W THEN c[w] \ bit_mask_64(start % W) ELSE c[w]

Hits(start, c) ==
  {w \in {start \div W} \cup start \div W + 1..num_of_words - 1 :
     Cur(start, c, w) # {} /\ w * W + Min(Cur(start, c, w)) < num_of_bits}

FirstIn(start, c) ==
  IF start > num_of_bits \/ Hits(start, c) = {}
    THEN None
    ELSE Min(Hits(start, c)) * W + Min(Cur(start, c, Min(Hits(start, c))))

(* The places of the array whose words c has them. *)
Places(c) == {k \in 0..num_of_bits - 1 : k % W \in c[k \div W]}

(* An array that fits in its words. *)
Bounded ==
  /\ num_of_bits \in Nat /\ num_of_words \in Nat /\ num_of_words - 1 \in Int
  /\ num_of_bits <= num_of_words * W
  /\ num_of_words - 1 <= Size \div W /\ Size \div W \in Nat
  /\ num_of_bits \div W <= Size \div W

LEMMA HitIsPlace ==
  ASSUME Bounded, NEW c \in [Word -> SUBSET Bit], NEW start \in 0..num_of_bits,
         NEW h \in Hits(start, c)
  PROVE  /\ h \in Nat /\ h >= start \div W
         /\ Min(Cur(start, c, h)) \in Cur(start, c, h) /\ Min(Cur(start, c, h)) \in Bit
         /\ h * W + Min(Cur(start, c, h)) \in Places(c)
<1> DEFINE b == Min(Cur(start, c, h))
<1>1. start \in Nat /\ start \div W \in Nat /\ start \div W <= Size \div W
  <2>1. start \in Nat /\ start <= num_of_bits
    BY DEF Bounded
  <2>2. start \div W <= num_of_bits \div W /\ start \div W \in Nat /\ num_of_bits \div W \in Nat
    BY <2>1, DivMonotone, DivInNat, Constants DEF Bounded
  <2>3. QED
    BY <2>1, <2>2 DEF Bounded
<1>2. h \in Nat /\ h >= start \div W /\ h \in Word
  BY <1>1 DEF Hits, Word, Bounded
<1>3. Cur(start, c, h) # {} /\ Cur(start, c, h) \subseteq c[h] /\ c[h] \subseteq Bit
  BY <1>2 DEF Hits, Cur
<1>4. Bit \subseteq Nat
  BY DEF Bit
<1>5. b \in Cur(start, c, h)
  BY <1>3, <1>4, LeastNat
<1>6. b \in Bit /\ b \in c[h]
  BY <1>3, <1>5
<1>7. h * W + b \in Nat /\ (h * W + b) \div W = h /\ (h * W + b) % W = b
  BY <1>2, <1>6, PlaceOf
<1>8. h * W + b < num_of_bits
  BY DEF Hits
<1>9. h * W + b \in Places(c)
  BY <1>6, <1>7, <1>8 DEF Places, Bounded
<1>10. QED
  BY <1>2, <1>5, <1>6, <1>9

(* A place that is in what a word is searched for makes the word a hit, and *)
(* what is found is not behind it.                                          *)
LEMMA PlaceIsHit ==
  ASSUME Bounded, NEW c \in [Word -> SUBSET Bit], NEW start \in 0..num_of_bits,
         NEW k \in Places(c), k \div W >= start \div W,
         k % W \in Cur(start, c, k \div W)
  PROVE  FirstIn(start, c) # None /\ FirstIn(start, c) <= k /\ Hits(start, c) # {}
<1> DEFINE w == k \div W
           H == Hits(start, c)
           h == Min(H)
<1>1. k \in Nat /\ k < num_of_bits /\ start \in Nat /\ start \div W \in Nat /\ num_of_words \in Nat
  BY DivInNat, Constants DEF Places, Bounded
<1>2. w \in Nat /\ k % W \in Bit /\ k = w * W + (k % W)
  BY <1>1, PlaceIn
<1>3. w < num_of_words
  <2>1. num_of_words * W \in Nat /\ num_of_bits \in Nat /\ num_of_bits <= num_of_words * W
    BY <1>1, Constants DEF Bounded
  <2>2. k < num_of_words * W
    BY <1>1, <2>1
  <2>3. QED
    BY <1>1, <2>2, Constants, DivLess
<1>4. w \in Word
  BY <1>2, <1>3 DEF Word, Bounded
<1>5. Cur(start, c, w) \subseteq Nat
  BY <1>4 DEF Cur, Bit
<1>6. Min(Cur(start, c, w)) \in Nat /\ Min(Cur(start, c, w)) <= k % W
  BY <1>5, LeastNat
<1>7. w * W \in Nat /\ k % W \in Nat
  BY <1>2, Constants DEF Bit
<1>8. w * W + Min(Cur(start, c, w)) <= k
  BY <1>2, <1>6, <1>7
<1>9. w \in H
  <2>1. w \in {start \div W} \cup start \div W + 1..num_of_words - 1
    BY <1>1, <1>2, <1>3
  <2>2. w * W + Min(Cur(start, c, w)) < num_of_bits
    BY <1>1, <1>6, <1>7, <1>8 DEF Bounded
  <2>3. QED
    BY <2>1, <2>2 DEF Hits
<1>10. H \subseteq Nat
  BY HitIsPlace
<1>11. h \in H /\ h <= w
  BY <1>9, <1>10, LeastNat
<1>12. h \in Nat /\ Min(Cur(start, c, h)) \in Bit
  BY <1>11, HitIsPlace
<1>13. FirstIn(start, c) = h * W + Min(Cur(start, c, h))
  <2>1. ~ (start > num_of_bits)
    BY DEF Bounded
  <2>2. QED
    BY <1>9, <2>1 DEF FirstIn
<1>14. h * W + Min(Cur(start, c, h)) <= k
  <2>1. CASE h = w
    BY <1>8, <2>1
  <2>2. CASE h # w
    <3>1. h * W + Min(Cur(start, c, h)) <= w * W
      BY <1>2, <1>11, <1>12, <2>2, EarlierPlace
    <3>2. h * W \in Nat /\ Min(Cur(start, c, h)) \in Nat
      BY <1>12, Constants DEF Bit
    <3>3. QED
      BY <1>2, <1>7, <3>1, <3>2
  <2>3. QED
    BY <2>1, <2>2
<1>15. h * W + Min(Cur(start, c, h)) # None
  BY <1>12, PlaceOf DEF None
<1>16. QED
  BY <1>9, <1>13, <1>14, <1>15

LEMMA FirstIsGood ==
  ASSUME Bounded, NEW c \in [Word -> SUBSET Bit], NEW start \in 0..num_of_bits
  PROVE  GoodAnswer(FirstIn(start, c), start, Places(c))
<1> DEFINE a == FirstIn(start, c)
           S == Places(c)
           later == {k \in S : NUMB_OF_WORD64(k) > NUMB_OF_WORD64(start)}
           from == {k \in S : k >= start}
<1>1. S \subseteq Nat /\ later \subseteq Nat /\ from \subseteq Nat /\ start \in Nat /\ start \div W \in Nat
  BY DivInNat, Constants DEF Places, Bounded
<1>2. ASSUME a # None
      PROVE  a \in S /\ a \div W >= start \div W
  <2>1. Hits(start, c) # {} /\ a = Min(Hits(start, c)) * W + Min(Cur(start, c, Min(Hits(start, c))))
    BY <1>2 DEF FirstIn
  <2>2. Hits(start, c) \subseteq Nat
    BY HitIsPlace
  <2>3. Min(Hits(start, c)) \in Hits(start, c)
    BY <2>1, <2>2, LeastNat
  <2>4. QED
    BY <2>1, <2>3, HitIsPlace, PlaceOf
<1>3. ASSUME NEW k \in later PROVE a # None /\ a <= k
  <2>1. k \div W > start \div W /\ k \in S /\ k \in Nat /\ k \div W \in Nat
    BY <1>1, <1>3, DivInNat, Constants DEF NUMB_OF_WORD64
  <2>2. k % W \in Cur(start, c, k \div W) /\ k \div W >= start \div W
    BY <1>1, <2>1 DEF Places, Cur
  <2>3. QED
    BY <2>1, <2>2, PlaceIsHit
<1>4. later # {} => a # None /\ a <= Min(later)
  BY <1>1, <1>3, LeastNat
<1>5. ASSUME start % W = 0 PROVE a = IF from = {} THEN None ELSE Min(from)
  <2>1. start = (start \div W) * W
    BY <1>1, <1>5, PlaceIn, Constants
  <2>2. \A w : Cur(start, c, w) = c[w]
    <3>1. bit_mask_64(0) = {}
      BY Constants DEF bit_mask_64, Bit
    <3>2. QED
      BY <1>5, <3>1 DEF Cur
  <2>3. ASSUME NEW k \in from PROVE a # None /\ a <= k
    <3>1. k \in S /\ k \in Nat /\ k >= start
      BY <1>1
    <3>2. k \div W >= start \div W
      BY <1>1, <3>1, DivMonotone, DivInNat, Constants
    <3>3. k % W \in c[k \div W]
      BY <3>1 DEF Places
    <3>4. QED
      BY <2>2, <3>1, <3>2, <3>3, PlaceIsHit
  <2>4. ASSUME a # None PROVE a \in from
    <3>1. a \in S /\ a \in Nat /\ a \div W >= start \div W
      BY <1>1, <1>2, <2>4
    <3>2. a >= start
      <4>1. a = (a \div W) * W + (a % W) /\ a % W \in Nat /\ a \div W \in Nat
        BY <3>1, PlaceIn DEF Bit
      <4>2. (start \div W) * W <= (a \div W) * W /\ (a \div W) * W \in Nat
        BY <1>1, <3>1, <4>1, TimesMonotone, Constants
      <4>3. QED
        BY <1>1, <2>1, <4>1, <4>2
    <3>3. QED
      BY <3>1, <3>2
  <2>5. CASE from = {}
    BY <2>4, <2>5
  <2>6. CASE from # {}
    <3>1. Min(from) \in from /\ \A y \in from : Min(from) <= y
      BY <1>1, <2>6, LeastNat
    <3>2. a # None /\ a <= Min(from)
      BY <2>3, <3>1
    <3>3. a \in from /\ Min(from) <= a
      BY <2>4, <3>1, <3>2
    <3>4. a \in Nat /\ Min(from) \in Nat
      BY <1>1, <3>1, <3>3
    <3>5. a = Min(from)
      BY <3>2, <3>3, <3>4
    <3>6. QED
      BY <2>6, <3>5
  <2>7. QED
    BY <2>5, <2>6
<1>6. a # None => a \in S /\ NUMB_OF_WORD64(a) >= NUMB_OF_WORD64(start)
  BY <1>2 DEF NUMB_OF_WORD64
<1>7. INDX_IN_WORD64(start) = 0 => a = IF from = {} THEN None ELSE Min(from)
  BY <1>5 DEF INDX_IN_WORD64
<1>8. QED
  BY <1>4, <1>6, <1>7 DEF GoodAnswer

(* The find calls search the ones and the zeros of the words. *)
LEMMA FindSearches ==
  ASSUME TypeOK, Bounded, NEW start \in 0..num_of_bits
  PROVE  LET c == [w \in Word |-> Bit \ buff_bits[w]]
         IN  /\ bit_array_find_set_bit(start) = FirstIn(start, buff_bits)
             /\ bit_array_find_clear_bit(start) = FirstIn(start, c)
             /\ Ones = Places(buff_bits) /\ Zeros = Places(c)
<1> DEFINE c == [w \in Word |-> Bit \ buff_bits[w]]
<1>1. bit_array_find_set_bit(start) = FirstIn(start, buff_bits)
  BY DEF bit_array_find_set_bit, FindOne, FirstIn, Hits, Cur, NUMB_OF_WORD64, INDX_IN_WORD64
<1>2. bit_array_find_clear_bit(start) = FirstIn(start, c)
  <2> DEFINE first == start \div W
             range == {first} \cup first + 1..num_of_words - 1
             cur(w) == IF w = first THEN (Bit \ buff_bits[w]) \ bit_mask_64(start % W)
                                    ELSE Bit \ buff_bits[w]
             hits == {w \in range : cur(w) # {} /\ w * W + Min(cur(w)) < num_of_bits}
  <2>1. bit_array_find_clear_bit(start) =
          IF start > num_of_bits \/ hits = {} THEN None ELSE Min(hits) * W + Min(cur(Min(hits)))
    BY DEF bit_array_find_clear_bit, FindOne, NUMB_OF_WORD64, INDX_IN_WORD64
  <2>2. range \subseteq Word
    <3>1. start \in Nat /\ start <= num_of_bits
      BY DEF Bounded
    <3>2. start \div W <= num_of_bits \div W /\ first \in Nat /\ num_of_bits \div W \in Nat
      BY <3>1, DivMonotone, DivInNat, Constants DEF Bounded
    <3>3. QED
      BY <3>1, <3>2 DEF Word, Bounded
  <2>3. \A w \in range : cur(w) = Cur(start, c, w)
    BY <2>2 DEF Cur
  <2>4. hits = Hits(start, c)
    BY <2>3 DEF Hits
  <2>5. hits # {} => Min(hits) \in range
    <3>1. hits \subseteq Nat
      BY <2>2 DEF Word
    <3>2. QED
      BY <3>1, LeastNat
  <2>6. QED
    BY <2>1, <2>3, <2>4, <2>5 DEF FirstIn
<1>3. Ones = Places(buff_bits)
  BY DEF Ones, Places, NUMB_OF_WORD64, INDX_IN_WORD64
<1>4. Zeros = Places(c)
  <2>1. ASSUME NEW k \in 0..num_of_bits - 1
        PROVE  k % W \in c[k \div W] <=> ~ (k % W \in buff_bits[k \div W])
    <3>1. k \in Nat /\ k <= num_of_bits /\ k \div W \in Nat /\ k % W \in Bit
      BY PlaceIn DEF Bounded
    <3>2. k \div W <= num_of_bits \div W /\ num_of_bits \div W \in Nat
      BY <3>1, DivMonotone, DivInNat, Constants DEF Bounded
    <3>3. k \div W \in Word
      BY <3>1, <3>2 DEF Word, Bounded
    <3>4. QED
      BY <3>1, <3>3
  <2>2. QED
    BY <2>1 DEF Zeros, Ones, Places, NUMB_OF_WORD64, INDX_IN_WORD64
<1>5. QED
  BY <1>1, <1>2, <1>3, <1>4

(* Both find calls answer with the first bit of their kind, as far as the   *)
(* mask of the first word lets them, for every content of the array.        *)
THEOREM FindsAreGood == Spec => []FindIsGood
<1>1. IInv => FindIsGood
  <2> SUFFICES ASSUME IInv, Healthy, Fits, NEW start \in 0..num_of_bits
               PROVE  /\ GoodAnswer(bit_array_find_set_bit(start), start, Ones)
                      /\ GoodAnswer(bit_array_find_clear_bit(start), start, Zeros)
    BY DEF FindIsGood, Healthy
  <2> DEFINE c == [w \in Word |-> Bit \ buff_bits[w]]
  <2>1. TypeOK /\ num_of_bits \in Index /\ num_of_words = ROUNDUP_BITS_TO_WORDS(num_of_bits)
    BY DEF IInv, TypeOK, SizesInv, Healthy
  <2>2. num_of_bits \in Nat /\ num_of_bits <= num_of_words * W
    BY <2>1, BitsInBlock DEF Index
  <2>3. num_of_words \in 0..Size \div W /\ Size \div W \in Nat
    <3>1. num_of_bits + W - 1 \in Nat
      BY <2>2, Constants
    <3>2. QED
      BY <2>1, <3>1, Constants, WrappedInRange, DivInNat DEF ROUNDUP_BITS_TO_WORDS
  <2>4. num_of_bits \div W \in 0..Size \div W
    BY <2>1, IndexWord DEF Word
  <2>5. Bounded
    BY <2>2, <2>3, <2>4 DEF Bounded
  <2>6. c \in [Word -> SUBSET Bit] /\ buff_bits \in [Word -> SUBSET Bit]
    BY <2>1 DEF TypeOK
  <2>7. QED
    BY <2>1, <2>5, <2>6, FindSearches, FirstIsGood
<1>2. QED
  BY <1>1, Inductive, PTL
=============================================================================
