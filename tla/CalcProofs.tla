------------------------------ MODULE CalcProofs ------------------------------
(***************************************************************************)
(* For every number of threads and every machine: the threads whose        *)
(* results count have ended before Integrate() frees what they use, unless *)
(* a pthread_create() failed; the result is the sum of their parts, each   *)
(* of them once, for steps of every length; and where the ids of the cores *)
(* are dense and the cores even, the threads are spread over all           *)
(* processors.  TypeOK, for machines of every kind.                        *)
(***************************************************************************)
EXTENDS Calc, FiniteSetTheorems, WellFoundedInduction, TLAPS


Ended(i) == i \in DOMAIN thread /\ thread[i] = "ended"

(* Up to the first of the joins nothing has been freed; from then on, the   *)
(* threads before i_thread have ended, and all that count when it is freed. *)
JoinInv ==
  /\ n_threads \in Nat /\ i_thread \in Nat
  /\ main = "prepare" => i_thread = 0 /\ n_thread_create \in Nat /\ n_threads <= n_thread_create
  /\ main \in {"prepare", "create", "join"} => memory # "freed" /\ error = "SUCCESS"
  /\ main = "create" => n_threads > 0
  /\ main \in {"create", "join"} => Useful \subseteq DOMAIN thread
  /\ main = "join" => i_thread < n_threads /\ \A j \in 0..i_thread - 1 : Ended(j)
  /\ main = "free" \/ memory = "freed" => error # "SUCCESS" \/ \A j \in Useful : Ended(j)
  /\ memory = "freed" => main \in {"return", "exited"}

IInv == JoinInv /\ FreedOnlyUnderSpare

-----------------------------------------------------------------------------
LEMMA InitInv == Init => IInv
<1> SUFFICES ASSUME Init PROVE IInv
  OBVIOUS
<1>1. n_threads \in Nat /\ n_core_ids \in Nat
  BY CalcAssumption DEF Init, n_core_ids
<1>2. n_thread_create \in Nat /\ n_threads <= n_thread_create
  BY <1>1 DEF n_thread_create, get_nprocs
<1>3. QED
  BY <1>1, <1>2 DEF Init, IInv, JoinInv, FreedOnlyUnderSpare

(* A thread that has ended stays so, but for a Create() that makes it anew. *)
LEMMA EndedStays ==
  ASSUME [Next]_vars, NEW j, Ended(j), main \notin {"prepare", "create"}
  PROVE  Ended(j)'
<1>1. CASE Integrate
  BY <1>1 DEF Integrate, Refuse, Crash, Prepare, Create, CreateFails, Join, Free, Exit, Ended
<1>2. ASSUME NEW i \in DOMAIN thread, Thread(i) PROVE Ended(j)'
  <2>1. \/ thread[i] = "created" /\ thread' = [thread EXCEPT ![i] = "running"]
        \/ thread[i] = "running" /\ thread' = [thread EXCEPT ![i] = "ended"]
    BY <1>2 DEF Thread, Begin, End
  <2>2. QED
    BY <2>1 DEF Ended
<1>3. CASE UNCHANGED vars
  BY <1>3 DEF vars, Ended
<1>4. QED
  BY <1>1, <1>2, <1>3 DEF Next

LEMMA JoinStep == IInv /\ [Next]_vars => JoinInv'
<1> SUFFICES ASSUME IInv, [Next]_vars PROVE JoinInv'
  OBVIOUS
<1>0. JoinInv
  BY DEF IInv
<1>1. CASE Refuse
  BY <1>0, <1>1 DEF Refuse, Return, JoinInv
<1>2. CASE Crash
  BY <1>0, <1>2 DEF Crash, JoinInv
<1>3. CASE Prepare
  <2>1. Useful' \subseteq DOMAIN thread'
    BY <1>0, <1>3 DEF Prepare, JoinInv, Useful
  <2>2. QED
    BY <1>0, <1>3, <2>1 DEF Prepare, JoinInv
<1>4. CASE Create
  BY <1>0, <1>4 DEF Create, JoinInv, Useful
<1>5. CASE CreateFails
  BY <1>0, <1>5 DEF CreateFails, JoinInv
<1>6. CASE Join
  <2>1. /\ main = "join" /\ thread[i_thread] = "ended" /\ i_thread' = i_thread + 1
        /\ main' = (IF i_thread + 1 < n_threads THEN "join" ELSE "free")
        /\ UNCHANGED <<n_threads, memory, thread, error>>
    BY <1>6 DEF Join
  <2>2. /\ n_threads \in Nat /\ i_thread \in Nat /\ i_thread < n_threads
        /\ \A j \in 0..i_thread - 1 : Ended(j)
    BY <1>0, <2>1 DEF JoinInv
  <2>3. Ended(i_thread)
    BY <1>0, <2>1, <2>2 DEF Ended, JoinInv, Useful
  <2>4. \A j \in 0..i_thread' - 1 : Ended(j)'
    BY <2>1, <2>2, <2>3 DEF Ended
  <2>5. main' = "free" => \A j \in Useful' : Ended(j)'
    BY <2>1, <2>2, <2>4 DEF Useful
  <2>6. QED
    BY <1>0, <2>1, <2>2, <2>4, <2>5 DEF JoinInv, Useful
<1>7. CASE Free
  <2>1. \A j \in Useful : Ended(j) => Ended(j)'
    BY <1>7 DEF Free, Ended
  <2>2. QED
    BY <1>0, <1>7, <2>1 DEF Free, JoinInv, Useful
<1>8. CASE Exit
  <2>1. \A j \in Useful : Ended(j) => Ended(j)'
    BY <1>8 DEF Exit, Ended
  <2>2. QED
    BY <1>0, <1>8, <2>1 DEF Exit, JoinInv, Useful
<1>9. ASSUME NEW i \in DOMAIN thread, Thread(i) PROVE JoinInv'
  <2>1. UNCHANGED <<n_threads, core_ids, main, i_thread, memory, error>>
    BY <1>9 DEF Thread, Begin, End
  <2>2. main \notin {"prepare", "create"} => \A j : Ended(j) => Ended(j)'
    BY EndedStays
  <2>3. main = "free" \/ memory = "freed" => main \notin {"prepare", "create"}
    BY <1>0 DEF JoinInv
  <2>4. n_thread_create' = n_thread_create /\ Useful' = Useful /\ DOMAIN thread' = DOMAIN thread
    BY <1>9, <2>1 DEF Thread, Begin, End, n_thread_create, get_nprocs, n_core_ids, Useful
  <2>5. QED
    BY <1>0, <2>1, <2>2, <2>3, <2>4 DEF JoinInv
<1>10. CASE UNCHANGED vars
  BY <1>0, <1>10 DEF vars, JoinInv, Ended, Useful, n_thread_create, get_nprocs, n_core_ids
<1>11. QED
  BY <1>1, <1>2, <1>3, <1>4, <1>5, <1>6, <1>7, <1>8, <1>9, <1>10 DEF Next, Integrate

LEMMA FreedStep == IInv /\ [Next]_vars => FreedOnlyUnderSpare'
<1> SUFFICES ASSUME IInv, [Next]_vars, error' = "SUCCESS" PROVE touched' \cap Useful' = {}
  BY DEF FreedOnlyUnderSpare
<1>1. CASE Integrate \/ UNCHANGED vars
  <2>1. touched' = touched /\ n_threads' = n_threads
    BY <1>1 DEF Integrate, Refuse, Crash, Prepare, Create, CreateFails, Join, Free, Exit, vars
  <2>2. error = "SUCCESS"
    BY <1>1 DEF Integrate, Refuse, Return, Crash, Prepare, Create, CreateFails, Join, Free, Exit, vars,
                IInv, JoinInv
  <2>3. QED
    BY <2>1, <2>2 DEF IInv, FreedOnlyUnderSpare, Useful
<1>2. ASSUME NEW i \in DOMAIN thread, Thread(i) PROVE touched' \cap Useful' = {}
  <2>1. /\ thread[i] # "ended" /\ error = "SUCCESS" /\ n_threads' = n_threads
        /\ touched' = IF memory = "freed" THEN touched \cup {i} ELSE touched
    BY <1>2 DEF Thread, Begin, End, Touch
  <2>2. touched \cap Useful = {} /\ Useful' = Useful
    BY <2>1 DEF IInv, FreedOnlyUnderSpare, Useful
  <2>3. memory = "freed" => i \notin Useful
    BY <2>1 DEF IInv, JoinInv, Ended
  <2>4. QED
    BY <2>1, <2>2, <2>3
<1>3. QED
  BY <1>1, <1>2 DEF Next

(* Memory that was freed is not used by a thread that counts, unless a      *)
(* pthread_create() failed: each has ended before.                          *)
THEOREM FreedIsUnused == Spec => []FreedOnlyUnderSpare
<1>1. IInv /\ [Next]_vars => IInv'
  BY JoinStep, FreedStep DEF IInv
<1>2. IInv => FreedOnlyUnderSpare
  BY DEF IInv
<1>3. QED
  BY <1>1, <1>2, InitInv, PTL DEF Spec

-----------------------------------------------------------------------------
(* How often f is added at a point. *)

LEMMA TimesMonotone ==
  ASSUME NEW n \in Nat, NEW x \in Nat, NEW y \in Nat, x <= y
  PROVE  x * n <= y * n /\ x * n \in Nat /\ y * n \in Nat
<1>1. y - x \in Nat
  OBVIOUS
<1>2. (y - x) * n >= 0
  BY <1>1
<1>3. y * n = x * n + (y - x) * n
  BY <1>1
<1>4. x * n \in Nat /\ y * n \in Nat
  OBVIOUS
<1>5. QED
  BY <1>1, <1>2, <1>3, <1>4

LEMMA Divides ==
  ASSUME NEW l \in Nat \ {0}, NEW n \in Nat \ {0}, l % n = 0
  PROVE  l \div n \in Nat \ {0} /\ n * (l \div n) = l
<1>1. l \div n \in Nat /\ l = (l \div n) * n + (l % n)
  OBVIOUS
<1>2. l = (l \div n) * n
  BY <1>1
<1>3. l \div n # 0
  BY <1>2
<1>4. QED
  BY <1>1, <1>2, <1>3

(* The threads that count have a part each, of at least one unit.*)
Divided == n_threads \in 1..MaxThreads

LEMMA Parts ==
  ASSUME Divided
  PROVE  /\ n_threads \in Nat \ {0} /\ Length \in Nat \ {0}
         /\ interval \in Nat \ {0} /\ n_threads * interval = Length
<1>1. n_threads \in Nat \ {0} /\ Length \in Nat \ {0} /\ Length % n_threads = 0
  <2>1. n_threads \in 1..MaxThreads /\ MaxThreads \in Nat /\ Length \in Nat \ {0}
    BY CalcAssumption DEF Divided
  <2>2. \A n \in 1..MaxThreads : Length % n = 0
    BY CalcAssumption, Zenon
  <2>3. Length % n_threads = 0
    BY ONLY <2>1, <2>2, Zenon
  <2>4. QED
    BY <2>1, <2>3
<1>2. QED
  BY <1>1, Divides DEF interval

LEMMA SmallSets == Cardinality({}) = 0 /\ \A a : Cardinality({a}) = 1
BY FS_EmptySet, FS_Singleton

LEMMA PairSet == ASSUME NEW a, NEW b, a # b PROVE Cardinality({a, b}) = 2
<1>1. IsFiniteSet({a}) /\ Cardinality({a}) = 1
  BY FS_Singleton
<1>2. {a, b} = {a} \cup {b} /\ b \notin {a}
  OBVIOUS
<1>3. Cardinality({a} \cup {b}) = Cardinality({a}) + 1
  BY <1>1, <1>2, FS_AddElement
<1>4. Cardinality({a, b}) = Cardinality({a}) + 1
  BY <1>2, <1>3
<1>5. QED
  BY <1>1, <1>4

LEMMA FirstPairs == Cardinality({0, 1}) = 2 /\ Cardinality({1, 2}) = 2
<1>1. 0 # 1 /\ 1 # 2
  OBVIOUS
<1>2. QED
  BY <1>1, PairSet, Zenon

One(b) == IF b THEN 1 ELSE 0

(* How many there are, when one more is looked at. *)
LEMMA CountNext ==
  ASSUME NEW n \in Nat, NEW Q
  PROVE  /\ Cardinality({i \in 0..n : i \in Q}) = Cardinality({i \in 0..n - 1 : i \in Q}) + One(n \in Q)
         /\ Cardinality({i \in 0..n - 1 : i \in Q}) \in Nat
<1> DEFINE S == {i \in 0..n - 1 : i \in Q}
           T == {i \in 0..n : i \in Q}
<1>1. IsFiniteSet(0..n - 1) /\ S \subseteq 0..n - 1
  BY FS_Interval
<1>2. IsFiniteSet(S) /\ Cardinality(S) \in Nat /\ n \notin S
  BY <1>1, FS_Subset, FS_CardinalityType
<1>3. CASE n \in Q
  <2>1. T = S \cup {n}
    BY <1>3
  <2>2. Cardinality(S \cup {n}) = Cardinality(S) + 1
    BY <1>2, FS_AddElement
  <2>3. QED
    BY <1>2, <1>3, <2>1, <2>2 DEF One
<1>4. CASE n \notin Q
  <2>1. T = S
    BY <1>4
  <2>2. QED
    BY <1>2, <1>4, <2>1 DEF One
<1>5. QED
  BY <1>3, <1>4

(* The sum of the first n parts. *)
SumOf(n) ==
  [x \in Point |-> Cardinality({i \in 0..n - 1 : x \in Added(i)})
                    + Cardinality({i \in 0..n - 1 : x - Step \in Added(i)})
                    + 2 * Cardinality({i \in 0..n - 1 : x \in Instead(i)})]

-----------------------------------------------------------------------------
(* Multiples of a step. *)

LEMMA SameMultiple ==
  ASSUME NEW s \in Nat \ {0}, NEW a \in Nat, NEW m \in Nat
  PROVE  a * s = m * s <=> a = m
<1>1. ASSUME NEW c \in Nat, NEW d \in Nat, c < d PROVE c * s # d * s
  <2>1. (c + 1) * s <= d * s /\ c * s \in Nat /\ d * s \in Nat
    BY <1>1, TimesMonotone
  <2>2. (c + 1) * s = c * s + s
    BY <1>1
  <2>3. QED
    BY <2>1, <2>2
<1>2. a < m \/ a = m \/ m < a
  OBVIOUS
<1>3. QED
  BY <1>1, <1>2

LEMMA Multiples ==
  ASSUME NEW s \in Nat \ {0}
  PROVE  /\ \A k \in Nat : (k * s) % s = 0 /\ k * s \in Nat
         /\ \A d \in Nat : d % s = 0 => \E k \in Nat : d = k * s
<1>1. ASSUME NEW k \in Nat PROVE (k * s) % s = 0 /\ k * s \in Nat
  OBVIOUS
<1>2. ASSUME NEW d \in Nat, d % s = 0 PROVE \E k \in Nat : d = k * s
  <2>1. d \div s \in Nat /\ d = (d \div s) * s + (d % s)
    OBVIOUS
  <2>2. d = (d \div s) * s
    BY <1>2, <2>1
  <2>3. QED
    BY <2>1, <2>2
<1>3. QED
  BY <1>1, <1>2

(* The turns are the steps that begin before the end. *)
LEMMA TurnsBegin ==
  ASSUME NEW s \in Nat \ {0}, NEW l \in Nat \ {0}, NEW t, t = (l + s - 1) \div s
  PROVE  t \in Nat \ {0} /\ \A k \in Nat : k < t <=> k * s < l
<1>1. t \in Nat /\ t * s <= l + s - 1 /\ l + s - 1 < t * s + s /\ t * s \in Nat
  <2>1. ASSUME NEW n \in Nat, NEW d \in Nat \ {0}
        PROVE  n \div d \in Nat /\ (n \div d) * d <= n /\ n < (n \div d) * d + d
    OBVIOUS
  <2>2. l + s - 1 \in Nat
    OBVIOUS
  <2>3. QED
    BY <2>1, <2>2
<1>2. ASSUME NEW k \in Nat, k < t PROVE k * s < l
  <2>1. (k + 1) * s <= t * s /\ k * s \in Nat
    BY <1>1, <1>2, TimesMonotone
  <2>2. (k + 1) * s = k * s + s
    BY <1>2
  <2>3. QED
    BY ONLY <1>1, <2>1, <2>2, s \in Nat \ {0}, l \in Nat \ {0}
<1>3. ASSUME NEW k \in Nat, ~(k < t) PROVE ~(k * s < l)
  <2>1. t * s <= k * s /\ k * s \in Nat
    BY <1>1, <1>3, TimesMonotone
  <2>2. QED
    BY ONLY <1>1, <2>1, s \in Nat \ {0}, l \in Nat \ {0}
<1>4. t # 0
  BY <1>1
<1>5. QED
  BY <1>1, <1>2, <1>3, <1>4

(* The points of the turns, in steps from the begin of the part. *)
Left(k) == IF k = 0 THEN 0 ELSE IF k = 1 THEN 1 ELSE k - 1
Right(k) == IF k = 0 THEN 1 ELSE k

LEMMA TurnsAdd ==
  ASSUME NEW T \in Nat \ {0}, NEW m \in Nat
  PROVE  Cardinality({k \in 0..T - 1 : Left(k) = m}) + Cardinality({k \in 0..T - 1 : Right(k) = m})
           = One(m < T /\ (m = 0 \/ m + 1 < T))
             + One(m >= 1 /\ m - 1 < T /\ (m = 1 \/ m < T))
             + 2 * One(m = 1 /\ 1 < T)
<1> DEFINE S1 == {k \in 0..T - 1 : Left(k) = m}
           S2 == {k \in 0..T - 1 : Right(k) = m}
<1>1. Cardinality(S2) = IF m = 1 THEN IF T = 1 THEN 1 ELSE 2 ELSE One(2 <= m /\ m < T)
  <2>1. CASE m = 1 /\ T = 1
    <3>1. S2 = {0}
      BY <2>1 DEF Right
    <3>2. QED
      BY <2>1, <3>1, SmallSets
  <2>2. CASE m = 1 /\ T # 1
    <3>1. S2 = {0, 1}
      BY <2>2 DEF Right
    <3>2. QED
      BY <2>2, <3>1, FirstPairs
  <2>3. CASE 2 <= m /\ m < T
    <3>1. S2 = {m}
      BY <2>3 DEF Right
    <3>2. Cardinality(S2) = 1
      BY <3>1, SmallSets
    <3>3. QED
      BY <2>3, <3>2 DEF One
  <2>4. CASE m # 1 /\ ~(2 <= m /\ m < T)
    <3>1. S2 = {}
      BY <2>4 DEF Right
    <3>2. Cardinality(S2) = 0
      BY <3>1, SmallSets
    <3>3. QED
      BY <2>4, <3>2 DEF One
  <2>5. QED
    BY <2>1, <2>2, <2>3, <2>4
<1>2. Cardinality(S1) = IF m = 0 THEN 1
                        ELSE IF m = 1 THEN IF T = 1 THEN 0 ELSE IF T = 2 THEN 1 ELSE 2
                        ELSE One(m + 1 < T)
  <2>1. CASE m = 0
    <3>1. S1 = {0}
      BY <2>1 DEF Left
    <3>2. QED
      BY <2>1, <3>1, SmallSets
  <2>2. CASE m = 1 /\ T = 1
    <3>1. S1 = {}
      BY <2>2 DEF Left
    <3>2. QED
      BY <2>2, <3>1, SmallSets
  <2>3. CASE m = 1 /\ T = 2
    <3>1. S1 = {1}
      BY <2>3 DEF Left
    <3>2. QED
      BY <2>3, <3>1, SmallSets
  <2>4. CASE m = 1 /\ T > 2
    <3>1. S1 = {1, 2}
      BY <2>4 DEF Left
    <3>2. QED
      BY <2>4, <3>1, FirstPairs
  <2>5. CASE 2 <= m /\ m + 1 < T
    <3>1. S1 = {m + 1}
      BY <2>5 DEF Left
    <3>2. Cardinality(S1) = 1
      BY <3>1, SmallSets
    <3>3. QED
      BY <2>5, <3>2 DEF One
  <2>6. CASE 2 <= m /\ ~(m + 1 < T)
    <3>1. S1 = {}
      BY <2>6 DEF Left
    <3>2. Cardinality(S1) = 0
      BY <3>1, SmallSets
    <3>3. QED
      BY <2>6, <3>2 DEF One
  <2>7. QED
    BY <2>1, <2>2, <2>3, <2>4, <2>5, <2>6
<1> HIDE DEF S1, S2
<1>3. Cardinality(S1) + Cardinality(S2)
           = One(m < T /\ (m = 0 \/ m + 1 < T))
             + One(m >= 1 /\ m - 1 < T /\ (m = 1 \/ m < T))
             + 2 * One(m = 1 /\ 1 < T)
  BY <1>1, <1>2 DEF One
<1>4. QED
  BY <1>3 DEF S1, S2

(* Where the steps of a part begin, counted in steps. *)
LEMMA BeginsAt ==
  ASSUME Divided, NEW i \in Nat, NEW T, T = (interval + Step - 1) \div Step
  PROVE  /\ \A m \in Nat : i * interval + m * Step \in Begins(i) <=> m < T
         /\ \A x \in Begins(i) : \E m \in Nat : x = i * interval + m * Step
         /\ \A x \in Begins(i) : x >= i * interval /\ x \in Nat
<1> DEFINE b == i * interval
<1>1. /\ interval \in Nat \ {0} /\ b \in Nat /\ (i + 1) * interval = b + interval
      /\ Step \in Nat \ {0}
  BY Parts, CalcAssumption
<1>2. T \in Nat \ {0} /\ \A k \in Nat : k < T <=> k * Step < interval
  BY <1>1, TurnsBegin
<1>3. Begins(i) = {x \in b..b + interval - 1 : (x - b) % Step = 0}
  BY <1>1 DEF Begins
<1> HIDE DEF b
<1>4. ASSUME NEW m \in Nat PROVE b + m * Step \in Begins(i) <=> m < T
  <2>1. PICK n : n = m * Step
    OBVIOUS
  <2>2. n \in Nat /\ n % Step = 0
    BY <1>1, <2>1, Multiples
  <2>3. (b + n) - b = n
    BY <1>1, <2>2
  <2>4. b + n \in Begins(i) <=> n < interval
    BY <1>1, <1>3, <2>2, <2>3
  <2>5. QED
    BY <1>2, <2>1, <2>4
<1>5. ASSUME NEW x \in Begins(i) PROVE (\E m \in Nat : x = b + m * Step) /\ x >= b /\ x \in Nat
  <2>1. x \in Nat /\ x >= b /\ x - b \in Nat /\ (x - b) % Step = 0
    BY <1>1, <1>3
  <2>2. PICK m \in Nat : x - b = m * Step
    BY <1>1, <2>1, Multiples
  <2>3. m * Step \in Nat
    BY <1>1, Multiples
  <2>4. x = b + m * Step
    BY <1>1, <2>1, <2>2, <2>3
  <2>5. QED
    BY <2>1, <2>4
<1>6. QED
  BY <1>4, <1>5 DEF b

(* What CalcIntegral() adds at each point of a part. *)
LEMMA PartSum ==
  ASSUME Divided, NEW i \in Useful, NEW x \in Point
  PROVE  CalcIntegral(PartOf(i))[x] =
           One(x \in Added(i)) + One(x - Step \in Added(i)) + 2 * One(x \in Instead(i))
<1> DEFINE b == i * interval
           p == PartOf(i)
           T == (interval + Step - 1) \div Step
           S1 == {k \in 0..T - 1 : f1(p, k) = x}
           S2 == {k \in 0..T - 1 : f2(p, k) = x}
<1>1. /\ interval \in Nat \ {0} /\ b \in Nat /\ (i + 1) * interval = b + interval /\ i \in Nat
      /\ i < n_threads /\ x \in Nat /\ Step \in Nat \ {0}
  BY Parts, CalcAssumption DEF Useful, Point
<1>2. p.begin = b /\ p.end = b + interval
  BY <1>1 DEF PartOf
<1>3. T \in Nat \ {0}
  BY <1>1, TurnsBegin
<1>4. CalcIntegral(p)[x] = Cardinality(S1) + Cardinality(S2)
  <2>1. Turns(p) = T
    BY <1>1, <1>2 DEF Turns
  <2>2. QED
    BY <2>1 DEF CalcIntegral
<1>5. /\ \A m \in Nat : b + m * Step \in Begins(i) <=> m < T
      /\ \A y \in Begins(i) : \E m \in Nat : y = b + m * Step
      /\ \A y \in Begins(i) : y >= b /\ y \in Nat
  BY <1>1, BeginsAt
<1>6. Added(i) = {y \in Begins(i) : y = b \/ y + Step \in Begins(i)}
  BY DEF Added
<1>7. Instead(i) = Begins(i) \cap {b + Step}
  BY DEF Instead
<1>8. \A k \in 0..T - 1 : f2(p, k) = b + Right(k) * Step /\ f1(p, k) = b + Left(k) * Step
  <2>1. ASSUME NEW k \in 0..T - 1 PROVE f2(p, k) = b + Right(k) * Step
    BY <1>2 DEF f2, Right
  <2>2. ASSUME NEW k \in 0..T - 1 PROVE f1(p, k) = b + Left(k) * Step
    <3>1. CASE k = 0
      BY <1>1, <1>2, <3>1 DEF f1, Left
    <3>2. CASE k = 1
      <4>1. k - 1 = 0 /\ k # 0
        BY <3>2
      <4>2. QED
        BY <1>2, <3>2, <4>1 DEF f1, f2, Left
    <3>3. CASE k # 0 /\ k # 1
      <4>1. k - 1 # 0
        BY <1>3, <3>3
      <4>2. QED
        BY <1>2, <3>3, <4>1 DEF f1, f2, Left
    <3>4. QED
      BY <3>1, <3>2, <3>3
  <2>3. QED
    BY <2>1, <2>2
<1>9. \A k \in 0..T - 1 : Left(k) \in Nat /\ Right(k) \in Nat
  BY <1>3 DEF Left, Right
<1> HIDE DEF b, p, T
<1>10. CASE \E m \in Nat : x = b + m * Step
  <2>1. PICK m \in Nat : x = b + m * Step
    BY <1>10
  <2>2. ASSUME NEW a \in Nat PROVE b + a * Step = x <=> a = m
    <3>1. a * Step \in Nat /\ m * Step \in Nat
      BY <1>1, Multiples
    <3>2. b + a * Step = x <=> a * Step = m * Step
      BY <1>1, <2>1, <3>1
    <3>3. QED
      BY <1>1, <3>2, SameMultiple
  <2>3. S1 = {k \in 0..T - 1 : Left(k) = m} /\ S2 = {k \in 0..T - 1 : Right(k) = m}
    BY <1>8, <1>9, <2>2
  <2>4. x \in Begins(i) <=> m < T
    BY <1>5, <2>1
  <2>5. x = b <=> m = 0
    <3>1. b + 0 * Step = x <=> 0 = m
      BY <2>2
    <3>2. b + 0 * Step = b
      BY <1>1
    <3>3. QED
      BY <3>1, <3>2
  <2>6. x = b + Step <=> m = 1
    <3>1. b + 1 * Step = x <=> 1 = m
      BY <2>2
    <3>2. b + 1 * Step = b + Step
      BY <1>1
    <3>3. QED
      BY <3>1, <3>2
  <2>7. x + Step \in Begins(i) <=> m + 1 < T
    <3>1. (m + 1) * Step = m * Step + Step /\ m * Step \in Nat
      BY <1>1, Multiples
    <3>2. x + Step = b + (m + 1) * Step
      BY <1>1, <2>1, <3>1
    <3>3. QED
      BY <1>5, <3>2
  <2>8. m >= 1 => (x - Step \in Begins(i) <=> m - 1 < T)
    <3>1. ASSUME m >= 1 PROVE m - 1 \in Nat /\ x - Step = b + (m - 1) * Step
      <4>1. PICK n \in Nat : m = n + 1
        BY <3>1
      <4>2. (n + 1) * Step = n * Step + Step /\ n * Step \in Nat /\ m - 1 = n
        BY <1>1, <4>1, Multiples
      <4>3. x = b + (n * Step + Step)
        BY <2>1, <4>1, <4>2
      <4>4. QED
        BY <1>1, <4>2, <4>3
    <3>2. QED
      BY <1>5, <3>1
  <2>9. m = 0 => x - Step \notin Begins(i)
    BY <1>1, <1>5, <2>5
  <2>10. x - Step = b <=> m = 1
    BY <1>1, <2>6
  <2>11. x - Step + Step = x
    BY <1>1
  <2>12. x \in Added(i) <=> m < T /\ (m = 0 \/ m + 1 < T)
    BY <1>6, <2>4, <2>5, <2>7
  <2>13. x - Step \in Added(i) <=> m >= 1 /\ m - 1 < T /\ (m = 1 \/ m < T)
    <3>1. x - Step \in Added(i) <=>
            x - Step \in Begins(i) /\ (x - Step = b \/ x \in Begins(i))
      BY <1>6, <2>11
    <3>2. x - Step \in Begins(i) <=> m >= 1 /\ m - 1 < T
      BY <2>8, <2>9
    <3>3. QED
      BY <2>4, <2>10, <3>1, <3>2
  <2>14. x \in Instead(i) <=> m = 1 /\ 1 < T
    BY <1>7, <2>4, <2>6
  <2>15. Cardinality(S1) + Cardinality(S2)
           = One(m < T /\ (m = 0 \/ m + 1 < T))
             + One(m >= 1 /\ m - 1 < T /\ (m = 1 \/ m < T))
             + 2 * One(m = 1 /\ 1 < T)
    BY <1>3, <2>3, TurnsAdd
  <2>16. QED
    BY <1>4, <2>12, <2>13, <2>14, <2>15 DEF One, p
<1>11. CASE ~ \E m \in Nat : x = b + m * Step
  <2>1. S1 = {} /\ S2 = {}
    BY <1>8, <1>9, <1>11
  <2>2. x \notin Begins(i)
    BY <1>5, <1>11
  <2>3. x - Step \notin Begins(i)
    <3> SUFFICES ASSUME x - Step \in Begins(i) PROVE FALSE
      OBVIOUS
    <3>1. PICK m \in Nat : x - Step = b + m * Step
      BY <1>5
    <3>2. (m + 1) * Step = m * Step + Step /\ m * Step \in Nat
      BY <1>1, Multiples
    <3>3. x = b + (m + 1) * Step
      BY <1>1, <3>1, <3>2
    <3>4. QED
      BY <1>11, <3>3
  <2>4. x \notin Added(i) /\ x - Step \notin Added(i) /\ x \notin Instead(i)
    BY <1>6, <1>7, <2>2, <2>3
  <2>5. Cardinality(S1) = 0 /\ Cardinality(S2) = 0
    BY <2>1, SmallSets
  <2>6. QED
    BY <1>4, <2>4, <2>5 DEF One, p
<1>12. QED
  BY <1>10, <1>11

LEMMA SumNext ==
  ASSUME Divided, NEW i \in Useful, NEW x \in Point
  PROVE  SumOf(i)[x] + CalcIntegral(PartOf(i))[x] = SumOf(i + 1)[x]
<1> DEFINE Q1 == {j \in Nat : x \in Added(j)}
           Q2 == {j \in Nat : x - Step \in Added(j)}
           Q3 == {j \in Nat : x \in Instead(j)}
           C(n, Q) == Cardinality({j \in 0..n - 1 : j \in Q})
<1>1. i \in Nat /\ (i + 1) - 1 = i
  BY Parts DEF Useful
<1>2. ASSUME NEW n \in Nat PROVE SumOf(n)[x] = C(n, Q1) + C(n, Q2) + 2 * C(n, Q3)
  <2>1. /\ {j \in 0..n - 1 : x \in Added(j)} = {j \in 0..n - 1 : j \in Q1}
        /\ {j \in 0..n - 1 : x - Step \in Added(j)} = {j \in 0..n - 1 : j \in Q2}
        /\ {j \in 0..n - 1 : x \in Instead(j)} = {j \in 0..n - 1 : j \in Q3}
    OBVIOUS
  <2>2. QED
    BY <2>1 DEF SumOf
<1>3. \A Q : C(i + 1, Q) = C(i, Q) + One(i \in Q) /\ C(i, Q) \in Nat
  BY <1>1, CountNext
<1>4. CalcIntegral(PartOf(i))[x] = One(i \in Q1) + One(i \in Q2) + 2 * One(i \in Q3)
  BY <1>1, PartSum
<1>5. \A Q : One(i \in Q) \in Nat
  BY DEF One
<1>6. /\ SumOf(i)[x] = C(i, Q1) + C(i, Q2) + 2 * C(i, Q3)
      /\ SumOf(i + 1)[x] = C(i + 1, Q1) + C(i + 1, Q2) + 2 * C(i + 1, Q3)
  BY <1>1, <1>2
<1> HIDE DEF C, Q1, Q2, Q3
<1>7. QED
  BY <1>3, <1>4, <1>5, <1>6

-----------------------------------------------------------------------------
(* The sum of the threads that have been joined. *)

LEMMA SumNone == Nothing = SumOf(0)
<1>1. Cardinality({}) = 0
  BY SmallSets
<1>2. \A P : {i \in 0..0 - 1 : i \in P} = {}
  OBVIOUS
<1>3. ASSUME NEW x \in Point PROVE SumOf(0)[x] = 0
  <2>1. /\ {i \in 0..0 - 1 : x \in Added(i)} = {} /\ {i \in 0..0 - 1 : x - Step \in Added(i)} = {}
        /\ {i \in 0..0 - 1 : x \in Instead(i)} = {}
    OBVIOUS
  <2>2. QED
    BY <1>1, <2>1 DEF SumOf
<1>4. QED
  BY <1>3 DEF Nothing, SumOf

LEMMA SumAll == ASSUME NEW x \in Point PROVE SumOf(n_threads)[x] = Expected(x)
BY DEF SumOf, Expected, Useful

(* Each thread that counts works on its part, and has stored its sum when   *)
(* it has ended; main has added those it has joined.                        *)
SumInv ==
  /\ n_threads \in 0..MaxThreads
  /\ main \in {"create", "join"} => n_threads # 0
  /\ \A i \in DOMAIN thread \cap Useful :
       /\ i \in DOMAIN stored /\ infosp[i] = PartOf(i)
       /\ thread[i] = "ended" => stored[i] = CalcIntegral(PartOf(i))
  /\ main \in {"prepare", "create"} => res = Nothing
  /\ main = "join" => res = SumOf(i_thread)
  /\ main \in {"free", "return", "exited"} /\ error = "SUCCESS" =>
       n_threads # 0 /\ res = SumOf(n_threads)

LEMMA SumInit == Init => SumInv
<1> SUFFICES ASSUME Init PROVE SumInv
  OBVIOUS
<1>1. main = "prepare" /\ DOMAIN thread = {} /\ n_threads \in 0..MaxThreads /\ res = Nothing
  BY DEF Init
<1>2. QED
  BY <1>1 DEF SumInv

(* What the parts depend on stays as it is. *)
LEMMA PartsStay ==
  ASSUME UNCHANGED n_threads
  PROVE  /\ Useful' = Useful
         /\ \A i : PartOf(i)' = PartOf(i)
         /\ \A p : CalcIntegral(p)' = CalcIntegral(p)
         /\ \A n : SumOf(n)' = SumOf(n)
BY DEF Useful, PartOf, interval, CalcIntegral, SumOf, Added, Instead, Begins

LEMMA SumStep == IInv /\ SumInv /\ [Next]_vars => SumInv'
<1> SUFFICES ASSUME IInv, SumInv, [Next]_vars PROVE SumInv'
  OBVIOUS
<1>0. JoinInv
  BY DEF IInv
<1>1. n_threads' = n_threads
  BY DEF Next, Integrate, Refuse, Crash, Prepare, Create, CreateFails, Join, Free, Exit,
         Thread, Begin, End, vars
<1>2. /\ Useful' = Useful
      /\ \A i : PartOf(i)' = PartOf(i)
      /\ \A p : CalcIntegral(p)' = CalcIntegral(p)
      /\ \A n : SumOf(n)' = SumOf(n)
  BY <1>1, PartsStay
<1>3. ASSUME UNCHANGED <<thread, stored, infosp, core_ids, i_thread>>,
             main' \in {"free", "return", "exited"} /\ error' = "SUCCESS" =>
               n_threads # 0 /\ res' = SumOf(n_threads),
             main' \notin {"prepare", "create", "join"}
      PROVE  SumInv'
  BY <1>1, <1>2, <1>3 DEF SumInv
<1>4. CASE Refuse \/ Crash \/ CreateFails
  BY <1>3, <1>4 DEF Refuse, Return, Crash, CreateFails
<1>5. CASE Free \/ Exit
  BY <1>3, <1>5 DEF Free, Exit, SumInv
<1>6. CASE Prepare
  <2>1. /\ n_threads # 0 /\ main = "prepare" /\ main' = "create" /\ res' = res
        /\ infosp' = [i \in 0..n_thread_create - 1 |-> PartOf(i)]
        /\ thread' = [i \in 0..n_thread_create - 1 |-> "none"]
        /\ stored' = [i \in 0..n_thread_create - 1 |-> Nothing]
        /\ i_thread' = i_thread /\ core_ids' = core_ids
    BY <1>6 DEF Prepare
  <2>2. res' = Nothing
    BY <2>1 DEF SumInv
  <2>3. \A i \in (DOMAIN thread \cap Useful)' :
          /\ i \in DOMAIN stored' /\ infosp'[i] = PartOf(i)
          /\ thread'[i] # "ended"
    BY <2>1
  <2>4. QED
    BY <1>1, <1>2, <2>1, <2>2, <2>3 DEF SumInv
<1>7. CASE Create
  <2>1. /\ main = "create" /\ thread' = [thread EXCEPT ![i_thread] = "created"]
        /\ UNCHANGED <<core_ids, infosp, stored, res, error>>
        /\ \/ main' = "create" /\ i_thread' = i_thread + 1 /\ i_thread + 1 < n_thread_create
           \/ main' = "join" /\ i_thread' = 0
    BY <1>7 DEF Create
  <2>2. Divided /\ res = Nothing
    BY <2>1 DEF SumInv, Divided
  <2>3. main' = "join" => res' = SumOf(i_thread')
    BY <2>1, <2>2, SumNone
  <2>4. \A i \in (DOMAIN thread \cap Useful)' :
          /\ i \in DOMAIN thread \cap Useful
          /\ thread'[i] = "ended" => thread[i] = "ended"
    BY <1>2, <2>1
  <2>5. QED
    BY <1>1, <1>2, <2>1, <2>2, <2>3, <2>4 DEF SumInv
<1>8. CASE Join
  <2>1. /\ main = "join" /\ thread[i_thread] = "ended" /\ i_thread' = i_thread + 1
        /\ res' = [x \in Point |-> res[x] + stored[i_thread][x]]
        /\ main' = (IF i_thread + 1 < n_threads THEN "join" ELSE "free")
        /\ UNCHANGED <<core_ids, infosp, thread, stored, error>>
    BY <1>8 DEF Join
  <2>2. Divided /\ i_thread \in Useful \cap DOMAIN thread
    BY <1>0, <2>1 DEF SumInv, JoinInv, Divided, Useful
  <2>3. stored[i_thread] = CalcIntegral(PartOf(i_thread)) /\ res = SumOf(i_thread)
    BY <2>1, <2>2 DEF SumInv
  <2>4. \A x \in Point : res'[x] = SumOf(i_thread + 1)[x]
    BY <2>1, <2>2, <2>3, SumNext
  <2>5. res' = SumOf(i_thread + 1)
    BY <2>1, <2>4 DEF SumOf
  <2>6. main' = "free" => i_thread + 1 = n_threads
    BY <1>0, <2>1 DEF JoinInv
  <2>7. QED
    BY <1>1, <1>2, <2>1, <2>2, <2>5, <2>6 DEF SumInv
<1>9. ASSUME NEW i \in DOMAIN thread, Thread(i) PROVE SumInv'
  <2>1. UNCHANGED <<core_ids, main, i_thread, infosp, res, error>>
    BY <1>9 DEF Thread, Begin, End
  <2>2. \/ thread' = [thread EXCEPT ![i] = "running"] /\ stored' = stored
        \/ /\ thread' = [thread EXCEPT ![i] = "ended"]
           /\ stored' = [stored EXCEPT ![i] = CalcIntegral(infosp[i])]
    BY <1>9 DEF Thread, Begin, End
  <2>3. \A j \in DOMAIN thread \cap Useful :
          /\ j \in DOMAIN stored' /\ infosp[j] = PartOf(j)
          /\ thread'[j] = "ended" => stored'[j] = CalcIntegral(PartOf(j))
    BY <2>2 DEF SumInv
  <2>4. DOMAIN thread' = DOMAIN thread
    BY <2>2
  <2>5. QED
    BY <1>1, <1>2, <2>1, <2>3, <2>4 DEF SumInv
<1>10. CASE UNCHANGED vars
  <2>1. UNCHANGED <<core_ids, main, i_thread, infosp, res, error, thread, stored>>
    BY <1>10 DEF vars
  <2>2. QED
    BY <1>1, <1>2, <2>1 DEF SumInv
<1>11. QED
  BY <1>4, <1>5, <1>6, <1>7, <1>8, <1>9, <1>10 DEF Next, Integrate

(* What Integrate() returns with success is the sum of n_threads equal      *)
(* parts, each of them once, for steps of every length: of each part the    *)
(* trapezoids of all steps but the last, and f at the end of the first step *)
(* in its place.                                                            *)
THEOREM EveryPartIsAddedOnce == Spec => []EveryPartOnce
<1>1. SumInv => EveryPartOnce
  <2> SUFFICES ASSUME SumInv, Done, NEW x \in Point PROVE res[x] = Expected(x)
    BY DEF EveryPartOnce
  <2>1. n_threads # 0 /\ res = SumOf(n_threads) /\ n_threads \in 0..MaxThreads
    BY DEF SumInv, Done
  <2>2. Divided
    BY <2>1 DEF Divided
  <2>3. QED
    BY <2>1, <2>2, SumAll
<1>2. IInv /\ [Next]_vars => IInv'
  BY JoinStep, FreedStep DEF IInv
<1>3. QED
  BY <1>1, <1>2, InitInv, SumInit, SumStep, PTL DEF Spec

-----------------------------------------------------------------------------
(* The table of the processors. *)

(* A set of numbers that is not empty has a least one: induction on the     *)
(* number of processors looked at so far.                                   *)
LEMMA LeastNat ==
  ASSUME NEW T, T \subseteq Nat, T # {}
  PROVE  \E x \in T : \A y \in T : x <= y
<1>1. \E x \in T : \A y \in T : ~ (<<y, x>> \in OpToRel(<, Nat))
  BY NatLessThanWellFounded, WFMin
<1>2. PICK x \in T : \A y \in T : ~ (<<y, x>> \in OpToRel(<, Nat))
  BY <1>1
<1>3. \A y \in T : ~ (y < x)
  BY <1>2 DEF OpToRel
<1>4. \A y \in T : x <= y
  BY <1>3
<1>5. QED
  BY <1>4

(* f is the table after each of the first k processors. *)
Tables(f, k) ==
  f = [i \in 0..k |-> IF i = 0 THEN NoCPUs ELSE AddProcessor(f[i - 1], i - 1)]

LEMMA TablesExist == ASSUME NEW n \in Nat PROVE \E f : Tables(f, n)
<1> DEFINE Bad == {k \in Nat : ~ \E f : Tables(f, k)}
<1>1. SUFFICES ASSUME Bad # {} PROVE FALSE
  OBVIOUS
<1>2. PICK k \in Bad : \A y \in Bad : k <= y
  BY <1>1, LeastNat
<1>3. k \in Nat /\ ~ \E f : Tables(f, k)
  OBVIOUS
<1>4. CASE k = 0
  <2> DEFINE f == [i \in 0..0 |-> NoCPUs]
  <2>1. f = [i \in 0..0 |-> IF i = 0 THEN NoCPUs ELSE AddProcessor(f[i - 1], i - 1)]
    OBVIOUS
  <2>2. QED
    BY <1>3, <1>4, <2>1 DEF Tables
<1>5. CASE k # 0
  <2>1. k - 1 \in Nat /\ k - 1 \notin Bad
    BY <1>2, <1>3, <1>5
  <2>2. PICK g : Tables(g, k - 1)
    BY <2>1
  <2> DEFINE f == [i \in 0..k |-> IF i = k THEN AddProcessor(g[k - 1], k - 1) ELSE g[i]]
  <2>3. \A i \in 0..k - 1 : f[i] = g[i]
    BY <1>3
  <2>4. \A i \in 0..k - 1 : g[i] = IF i = 0 THEN NoCPUs ELSE AddProcessor(g[i - 1], i - 1)
    BY <2>2 DEF Tables
  <2>5. ASSUME NEW i \in 0..k
        PROVE  f[i] = IF i = 0 THEN NoCPUs ELSE AddProcessor(f[i - 1], i - 1)
    <3>1. CASE i = k
      <4>1. f[i] = AddProcessor(g[k - 1], k - 1) /\ k - 1 \in 0..k - 1
        BY <1>3, <1>5, <3>1
      <4>2. QED
        BY <1>5, <2>3, <3>1, <4>1
    <3>2. CASE i # k
      <4>1. i \in 0..k - 1 /\ (i # 0 => i - 1 \in 0..k - 1)
        BY <1>3, <3>2
      <4>2. QED
        BY <2>3, <2>4, <4>1
    <3>3. QED
      BY <3>1, <3>2
  <2>6. f = [i \in 0..k |-> f[i]]
    OBVIOUS
  <2> HIDE DEF f
  <2>7. Tables(f, k)
    BY <2>5, <2>6 DEF Tables
  <2>8. QED
    BY <1>3, <2>7
<1>6. QED
  BY <1>4, <1>5

LEMMA TableIs ==
  ASSUME n_core_ids \in Nat
  PROVE  \E f : Tables(f, n_core_ids) /\ get_mycpu_info = f[n_core_ids]
<1> DEFINE f == CHOOSE g : Tables(g, n_core_ids)
<1>1. Tables(f, n_core_ids)
  BY TablesExist
<1>2. get_mycpu_info = f[n_core_ids]
  BY DEF get_mycpu_info, Tables
<1>3. QED
  BY <1>1, <1>2

(* The processors before the i-th of core c, each once, are the list s. *)
Lists(s, c, i) ==
  /\ s \in Seq(0..n_core_ids - 1)
  /\ \A p \in 1..Len(s) : s[p] \in 0..i - 1 /\ core(s[p]) = c
  /\ \A p, q \in 1..Len(s) : s[p] = s[q] => p = q
  /\ \A j \in 0..i - 1 : core(j) = c => \E p \in 1..Len(s) : s[p] = j

(* The table after the first i processors: the cores have the ids 0, 1, ... *)
(* up to their number, and each has the list of its processors.             *)
Cores(n_cpu, i) ==
  /\ n_cpu \in 0..i
  /\ \A j \in 0..i - 1 : core(j) \in 0..n_cpu - 1
  /\ \A c \in 0..n_cpu - 1 : \E j \in 0..i - 1 : core(j) = c

CoreLists(cpus, n_cpu, i) ==
  /\ cpus = [c \in 0..n_core_ids - 1 |-> cpus[c]]
  /\ \A c \in 0..n_cpu - 1 : Lists(cpus[c], c, i)

TableInv(info, i) ==
  /\ info = [cpus |-> info.cpus, n_cpu |-> info.n_cpu]
  /\ Cores(info.n_cpu, i)
  /\ CoreLists(info.cpus, info.n_cpu, i)

LEMMA TableStart == ASSUME n_core_ids \in Nat PROVE TableInv(NoCPUs, 0)
BY DEF TableInv, Cores, CoreLists, NoCPUs

LEMMA ListsSame ==
  ASSUME NEW s, NEW c, NEW i \in Nat, i < n_core_ids, n_core_ids \in Nat, core(i) # c, Lists(s, c, i)
  PROVE  Lists(s, c, i + 1)
<1>1. \A j : j \in 0..(i + 1) - 1 <=> j \in 0..i - 1 \/ j = i
  OBVIOUS
<1>2. QED
  BY <1>1 DEF Lists

LEMMA ListsLonger ==
  ASSUME NEW s, NEW i \in Nat, i < n_core_ids, n_core_ids \in Nat, Lists(s, core(i), i)
  PROVE  Lists(Append(s, i), core(i), i + 1)
<1> DEFINE t == Append(s, i)
<1>1. \A j : j \in 0..(i + 1) - 1 <=> j \in 0..i - 1 \/ j = i
  OBVIOUS
<1>2. s \in Seq(0..n_core_ids - 1) /\ i \in 0..n_core_ids - 1 /\ Len(s) \in Nat
  BY DEF Lists
<1>3. /\ t \in Seq(0..n_core_ids - 1) /\ Len(t) = Len(s) + 1 /\ t[Len(s) + 1] = i
      /\ \A p \in 1..Len(s) : t[p] = s[p]
  BY <1>2
<1> HIDE DEF t
<1>4. \A p : p \in 1..Len(t) <=> p \in 1..Len(s) \/ p = Len(s) + 1
  BY <1>2, <1>3
<1>5. \A p \in 1..Len(s) : s[p] \in 0..i - 1 /\ s[p] # i /\ core(s[p]) = core(i)
  BY DEF Lists
<1>6. \A p \in 1..Len(t) : t[p] \in 0..(i + 1) - 1 /\ core(t[p]) = core(i)
  BY <1>1, <1>3, <1>4, <1>5
<1>7. \A p, q \in 1..Len(t) : t[p] = t[q] => p = q
  <2>1. \A p, q \in 1..Len(s) : s[p] = s[q] => p = q
    BY DEF Lists
  <2>2. QED
    BY <1>3, <1>4, <1>5, <2>1
<1>8. \A j \in 0..(i + 1) - 1 : core(j) = core(i) => \E p \in 1..Len(t) : t[p] = j
  <2>1. \A j \in 0..i - 1 : core(j) = core(i) => \E p \in 1..Len(s) : s[p] = j
    BY DEF Lists
  <2>2. QED
    BY <1>1, <1>3, <1>4, <2>1
<1>9. QED
  BY <1>3, <1>6, <1>7, <1>8 DEF Lists, t

LEMMA ListsFirst ==
  ASSUME NEW i \in Nat, i < n_core_ids, n_core_ids \in Nat, \A j \in 0..i - 1 : core(j) # core(i)
  PROVE  Lists(<<i>>, core(i), i + 1)
<1>1. <<i>> \in Seq(0..n_core_ids - 1) /\ Len(<<i>>) = 1 /\ <<i>>[1] = i
  OBVIOUS
<1>2. \A p : p \in 1..1 <=> p = 1
  OBVIOUS
<1>3. \A j : j \in 0..(i + 1) - 1 <=> j \in 0..i - 1 \/ j = i
  OBVIOUS
<1>4. QED
  BY <1>1, <1>2, <1>3 DEF Lists

LEMMA CountTo == ASSUME NEW m \in Nat PROVE IsFiniteSet(0..m - 1) /\ Cardinality(0..m - 1) = m
<1>1. 0 \in Int /\ m - 1 \in Int
  OBVIOUS
<1>2. /\ IsFiniteSet(0..m - 1)
      /\ Cardinality(0..m - 1) = IF 0 > m - 1 THEN 0 ELSE (m - 1) - 0 + 1
  BY <1>1, FS_Interval
<1>3. (IF 0 > m - 1 THEN 0 ELSE (m - 1) - 0 + 1) = m
  OBVIOUS
<1>4. QED
  BY <1>2, <1>3

(* What Dense says of a core that is new: its id is the number of cores. *)
LEMMA NewCore ==
  ASSUME NEW info, NEW i \in Nat, i < n_core_ids, n_core_ids \in Nat, Dense, TableInv(info, i),
         ~find_in_array(i)
  PROVE  core(i) = info.n_cpu
<1> DEFINE m == info.n_cpu
<1>1. m \in Nat
  BY DEF TableInv, Cores
<1>2. {core(j) : j \in 0..i - 1} = 0..m - 1
  BY DEF TableInv, Cores
<1>3. core(i) \notin {core(j) : j \in 0..i - 1}
  BY DEF find_in_array
<1>4. {core(j) : j \in 0..i - 1} \ {core(i)} = 0..m - 1
  BY <1>2, <1>3
<1>5. Cardinality(0..m - 1) = m
  BY <1>1, CountTo
<1>6. core(i) = Cardinality({core(j) : j \in 0..i - 1} \ {core(i)})
  BY DEF Dense, find_in_array
<1>7. QED
  BY <1>4, <1>5, <1>6

LEMMA TableStep ==
  ASSUME NEW info, NEW i \in Nat, i < n_core_ids, n_core_ids \in Nat, Dense, TableInv(info, i)
  PROVE  TableInv(AddProcessor(info, i), i + 1)
<1> DEFINE m == info.n_cpu
           new == AddProcessor(info, i)
<1>0. \A j : j \in 0..(i + 1) - 1 <=> j \in 0..i - 1 \/ j = i
  OBVIOUS
<1>1. /\ info = [cpus |-> info.cpus, n_cpu |-> info.n_cpu]
      /\ info.cpus = [c \in 0..n_core_ids - 1 |-> info.cpus[c]]
      /\ m \in Nat /\ m <= i
      /\ \A j \in 0..i - 1 : core(j) \in 0..m - 1
      /\ \A c \in 0..m - 1 : \E j \in 0..i - 1 : core(j) = c
      /\ \A c \in 0..m - 1 : Lists(info.cpus[c], c, i)
  <2>1. m \in 0..i
    BY DEF TableInv, Cores
  <2>2. m \in Nat /\ m <= i
    BY <2>1
  <2>3. QED
    BY <2>2, Zenon DEF TableInv, Cores, CoreLists
<1>2. CASE find_in_array(i)
  <2> DEFINE c == core(i)
  <2>1. c \in 0..m - 1 /\ c \in 0..n_core_ids - 1
    BY <1>1, <1>2 DEF find_in_array
  <2>2. /\ new.n_cpu = m
        /\ new.cpus = [info.cpus EXCEPT ![c] = Append(info.cpus[c], i)]
        /\ new = [cpus |-> new.cpus, n_cpu |-> new.n_cpu]
    BY <1>1, <1>2 DEF AddProcessor
  <2> HIDE DEF new
  <2>3. new.cpus[c] = Append(info.cpus[c], i)
    BY <1>1, <2>1, <2>2
  <2>4. \A d \in (0..m - 1) \ {c} : new.cpus[d] = info.cpus[d]
    BY <1>1, <2>1, <2>2
  <2>5. new.cpus = [d \in 0..n_core_ids - 1 |-> new.cpus[d]]
    BY <1>1, <2>2
  <2>6. Lists(new.cpus[c], c, i + 1)
    BY <1>1, <2>1, <2>3, ListsLonger
  <2>7. \A d \in (0..m - 1) \ {c} : Lists(new.cpus[d], d, i + 1)
    BY <1>1, <2>4, ListsSame
  <2>8. /\ \A j \in 0..(i + 1) - 1 : core(j) \in 0..m - 1
        /\ \A d \in 0..m - 1 : \E j \in 0..(i + 1) - 1 : core(j) = d
    BY <1>0, <1>1, <2>1
  <2>9. m \in 0..i + 1
    BY <1>1
  <2>10. \A d \in 0..m - 1 : Lists(new.cpus[d], d, i + 1)
    BY <2>6, <2>7
  <2>11. Cores(new.n_cpu, i + 1)
    <3>1. Cores(m, i + 1)
      BY <2>8, <2>9, Zenon DEF Cores
    <3>2. QED
      BY <2>2, <3>1
  <2>12. CoreLists(new.cpus, new.n_cpu, i + 1)
    <3>1. CoreLists(new.cpus, m, i + 1)
      BY <2>5, <2>10, Zenon DEF CoreLists
    <3>2. QED
      BY <2>2, <3>1
  <2>13. TableInv(new, i + 1)
    BY <2>2, <2>11, <2>12 DEF TableInv
  <2>14. QED
    BY <2>13 DEF new
<1>3. CASE ~ find_in_array(i)
  <2>1. core(i) = m
    BY <1>3, NewCore
  <2>2. /\ new.n_cpu = m + 1
        /\ new.cpus = [info.cpus EXCEPT ![m] = <<i>>]
        /\ new = [cpus |-> new.cpus, n_cpu |-> new.n_cpu]
    BY <1>3 DEF AddProcessor
  <2> HIDE DEF new
  <2>3. m \in 0..n_core_ids - 1 /\ new.cpus[m] = <<i>>
    BY <1>1, <2>2
  <2>4. \A d \in 0..m - 1 : new.cpus[d] = info.cpus[d]
    BY <1>1, <2>2
  <2>5. new.cpus = [d \in 0..n_core_ids - 1 |-> new.cpus[d]]
    BY <1>1, <2>2
  <2>6. Lists(new.cpus[m], m, i + 1)
    BY <1>3, <2>1, <2>3, ListsFirst DEF find_in_array
  <2>7. ASSUME NEW d \in 0..m - 1 PROVE Lists(new.cpus[d], d, i + 1)
    <3>1. core(i) # d
      BY <1>1, <2>1
    <3>2. Lists(info.cpus[d], d, i + 1)
      BY <1>1, <3>1, ListsSame
    <3>3. QED
      BY <2>4, <3>2
  <2>8. \A d : d \in 0..(m + 1) - 1 <=> d \in 0..m - 1 \/ d = m
    BY <1>1
  <2>9. /\ \A j \in 0..(i + 1) - 1 : core(j) \in 0..(m + 1) - 1
        /\ \A d \in 0..(m + 1) - 1 : \E j \in 0..(i + 1) - 1 : core(j) = d
    BY <1>0, <1>1, <2>1, <2>8
  <2>10. m + 1 \in 0..i + 1
    BY <1>1
  <2>11. \A d \in 0..(m + 1) - 1 : Lists(new.cpus[d], d, i + 1)
    BY <2>6, <2>7, <2>8
  <2>12. Cores(new.n_cpu, i + 1)
    <3>1. Cores(m + 1, i + 1)
      BY <2>9, <2>10, Zenon DEF Cores
    <3>2. QED
      BY <2>2, <3>1
  <2>13. CoreLists(new.cpus, new.n_cpu, i + 1)
    <3>1. CoreLists(new.cpus, m + 1, i + 1)
      BY <2>5, <2>11, Zenon DEF CoreLists
    <3>2. QED
      BY <2>2, <3>1
  <2>14. TableInv(new, i + 1)
    BY <2>2, <2>12, <2>13 DEF TableInv
  <2>15. QED
    BY <2>14 DEF new
<1>4. QED
  BY <1>2, <1>3

(* The whole table. *)
LEMMA TableHolds ==
  ASSUME n_core_ids \in Nat, Dense
  PROVE  TableInv(get_mycpu_info, n_core_ids)
<1> DEFINE n == n_core_ids
<1>1. PICK f : Tables(f, n) /\ get_mycpu_info = f[n]
  BY TableIs
<1>2. \A i \in 0..n : f[i] = IF i = 0 THEN NoCPUs ELSE AddProcessor(f[i - 1], i - 1)
  BY <1>1 DEF Tables
<1> DEFINE Bad == {k \in 0..n : ~ TableInv(f[k], k)}
<1>3. CASE Bad = {}
  <2>1. n \in 0..n
    OBVIOUS
  <2>2. QED
    BY <1>1, <1>3, <2>1
<1>4. CASE Bad # {}
  <2>1. PICK k \in Bad : \A y \in Bad : k <= y
    <3>1. Bad \subseteq Nat
      OBVIOUS
    <3>2. QED
      BY <1>4, <3>1, LeastNat
  <2>2. k \in 0..n /\ ~ TableInv(f[k], k)
    BY <2>1
  <2>3. k # 0
    <3>1. k = 0 => f[k] = NoCPUs
      BY <1>2, <2>2
    <3>2. QED
      BY <2>2, <3>1, TableStart
  <2>4. k - 1 \in 0..n /\ k - 1 \in Nat /\ k - 1 < n /\ ~ (k <= k - 1) /\ k - 1 + 1 = k
    BY <2>2, <2>3
  <2>5. TableInv(f[k - 1], k - 1)
    BY <2>1, <2>4
  <2>6. f[k] = AddProcessor(f[k - 1], k - 1)
    BY <1>2, <2>2, <2>3
  <2>7. TableInv(f[k], k)
    BY <2>4, <2>5, <2>6, TableStep
  <2>8. QED
    BY <2>2, <2>7
<1>5. QED
  BY <1>3, <1>4

(* The processors of core c. *)
Of(c) == {k \in 0..n_core_ids - 1 : core(k) = c}

LEMMA ListLength ==
  ASSUME NEW s, NEW c, n_core_ids \in Nat, Lists(s, c, n_core_ids)
  PROVE  Len(s) \in Nat /\ Len(s) = Cardinality(Of(c))
<1> DEFINE S == 1..Len(s)
           f == [p \in S |-> s[p]]
<1>1. Len(s) \in Nat
  BY DEF Lists
<1>2. \A p \in S : f[p] = s[p] /\ f[p] \in Of(c)
  BY DEF Lists, Of
<1>3. f \in [S -> Of(c)]
  BY <1>2
<1>4. \A p, q \in S : f[p] = f[q] => p = q
  BY DEF Lists
<1>5. \A k \in Of(c) : \E p \in S : f[p] = k
  BY DEF Lists, Of
<1> HIDE DEF f
<1>6. f \in Injection(S, Of(c)) /\ f \in Surjection(S, Of(c))
  BY <1>3, <1>4, <1>5 DEF Injection, IsInjective, Surjection
<1>7. IsFiniteSet(S) /\ Cardinality(S) = Len(s)
  <2>1. 1 \in Int /\ Len(s) \in Int
    BY <1>1
  <2>2. /\ IsFiniteSet(S)
        /\ Cardinality(S) = IF 1 > Len(s) THEN 0 ELSE Len(s) - 1 + 1
    BY <2>1, FS_Interval
  <2>3. (IF 1 > Len(s) THEN 0 ELSE Len(s) - 1 + 1) = Len(s)
    BY <1>1
  <2>4. QED
    BY <2>2, <2>3
<1>8. Cardinality(Of(c)) = Cardinality(S)
  BY <1>6, <1>7, FS_Surjection
<1>9. QED
  BY <1>1, <1>7, <1>8

Cpus == get_mycpu_info.cpus
NCpu == get_mycpu_info.n_cpu
PerCore == Len(Cpus[0])

(* On an even machine each core has PerCore processors. *)
LEMMA TableEven ==
  ASSUME n_core_ids \in Nat \ {0}, Dense, Even
  PROVE  /\ NCpu \in Nat \ {0} /\ PerCore \in Nat \ {0}
         /\ Cores(NCpu, n_core_ids)
         /\ \A c \in 0..NCpu - 1 : Lists(Cpus[c], c, n_core_ids) /\ Len(Cpus[c]) = PerCore
<1> DEFINE n == n_core_ids
<1>1. Cores(NCpu, n) /\ CoreLists(Cpus, NCpu, n)
  BY TableHolds DEF TableInv, Cpus, NCpu
<1>2. NCpu \in Nat /\ core(0) \in 0..NCpu - 1
  BY <1>1 DEF Cores
<1>3. NCpu \in Nat \ {0} /\ 0 \in 0..NCpu - 1
  BY <1>2
<1>4. \A c \in 0..NCpu - 1 : Lists(Cpus[c], c, n)
  BY <1>1 DEF CoreLists
<1>5. ASSUME NEW c \in 0..NCpu - 1, NEW d \in 0..NCpu - 1
      PROVE  Cardinality(Of(c)) = Cardinality(Of(d))
  <2>1. PICK i, j \in 0..n - 1 : core(i) = c /\ core(j) = d
    BY <1>1 DEF Cores
  <2>2. QED
    BY <2>1 DEF Even, Of
<1>6. \A c \in 0..NCpu - 1 : Len(Cpus[c]) \in Nat /\ Len(Cpus[c]) = Cardinality(Of(c))
  BY <1>4, ListLength
<1>7. \A c \in 0..NCpu - 1 : Len(Cpus[c]) = PerCore
  BY <1>3, <1>5, <1>6 DEF PerCore
<1>8. PerCore # 0
  <2>1. PICK j \in 0..n - 1 : core(j) = 0
    BY <1>1, <1>3 DEF Cores
  <2>2. \E p \in 1..Len(Cpus[0]) : Cpus[0][p] = j
    BY <1>3, <1>4, <2>1 DEF Lists
  <2>3. QED
    BY <2>2 DEF PerCore
<1>9. QED
  BY <1>1, <1>3, <1>4, <1>6, <1>7, <1>8 DEF PerCore

(* ... and there are as many processors as that makes, at least. *)
LEMMA AllCores ==
  ASSUME n_core_ids \in Nat \ {0}, Dense, Even
  PROVE  PerCore * NCpu <= n_core_ids
<1> DEFINE n == n_core_ids
           m == NCpu
           P == PerCore
           S == (1..P) \X (0..m - 1)
           f == [x \in S |-> Cpus[x[2]][x[1]]]
<1>1. /\ m \in Nat /\ P \in Nat
      /\ \A c \in 0..m - 1 : Lists(Cpus[c], c, n) /\ Len(Cpus[c]) = P
  BY TableEven
<1>2. ASSUME NEW x \in S
      PROVE  f[x] \in 0..n - 1 /\ core(f[x]) = x[2]
  BY <1>1 DEF Lists
<1>3. f \in [S -> 0..n - 1]
  BY <1>2
<1>4. ASSUME NEW x \in S, NEW y \in S, f[x] = f[y] PROVE x = y
  <2>1. x[2] = y[2]
    BY <1>2, <1>4
  <2>2. x[1] \in 1..P /\ y[1] \in 1..P /\ x[2] \in 0..m - 1 /\ Cpus[x[2]][x[1]] = Cpus[x[2]][y[1]]
    BY <1>4, <2>1
  <2>3. \A c \in 0..m - 1 : \A p, q \in 1..P : Cpus[c][p] = Cpus[c][q] => p = q
    BY <1>1 DEF Lists
  <2> HIDE DEF P, m
  <2>4. x[1] = y[1]
    BY <2>2, <2>3
  <2>5. x = <<x[1], x[2]>> /\ y = <<y[1], y[2]>>
    OBVIOUS
  <2>6. QED
    BY <2>1, <2>4, <2>5
<1> HIDE DEF f
<1>5. f \in Injection(S, 0..n - 1)
  BY <1>3, <1>4 DEF Injection, IsInjective
<1>6. IsFiniteSet(0..n - 1) /\ Cardinality(0..n - 1) = n
  BY CountTo
<1>7. Cardinality(S) <= n
  BY <1>5, <1>6, FS_Injection
<1>8. IsFiniteSet(0..m - 1) /\ Cardinality(0..m - 1) = m
  BY <1>1, CountTo
<1>9. IsFiniteSet(1..P) /\ Cardinality(1..P) = P
  <2>1. 1 \in Int /\ P \in Int
    BY <1>1
  <2>2. /\ IsFiniteSet(1..P)
        /\ Cardinality(1..P) = IF 1 > P THEN 0 ELSE P - 1 + 1
    BY <2>1, FS_Interval
  <2>3. (IF 1 > P THEN 0 ELSE P - 1 + 1) = P
    BY <1>1
  <2>4. QED
    BY <2>2, <2>3
<1>10. Cardinality(S) = P * m
  <2> DEFINE A == 1..P
             B == 0..m - 1
  <2>1. IsFiniteSet(A) /\ Cardinality(A) = P
    BY ONLY <1>9
  <2>2. IsFiniteSet(B) /\ Cardinality(B) = m
    BY ONLY <1>8
  <2>3. S = A \X B
    OBVIOUS
  <2> HIDE DEF A, B
  <2>4. Cardinality(A \X B) = Cardinality(A) * Cardinality(B)
    BY ONLY <2>1, <2>2, FS_Product
  <2> HIDE DEF S, P, m
  <2>5. QED
    BY ONLY <2>1, <2>2, <2>3, <2>4
<1> HIDE DEF S
<1>11. QED
  BY ONLY <1>7, <1>10, Zenon DEF P, m, n

LEMMA Quotient ==
  ASSUME NEW m \in Nat \ {0}, NEW a \in Nat, NEW c \in 0..m - 1
  PROVE  (a * m + c) % m = c /\ (a * m + c) \div m = a
OBVIOUS

(* Thread i goes to core i % m. *)
LEMMA Pinned ==
  ASSUME n_core_ids \in Nat \ {0}, Dense, Even, NEW i \in Nat
  PROVE  processor(i) \in 0..n_core_ids - 1 /\ core(processor(i)) = i % NCpu
<1> DEFINE c == i % NCpu
           p == ((i \div NCpu) % PerCore) + 1
<1>1. /\ NCpu \in Nat \ {0} /\ PerCore \in Nat \ {0}
      /\ \A d \in 0..NCpu - 1 : Lists(Cpus[d], d, n_core_ids) /\ Len(Cpus[d]) = PerCore
  BY TableEven
<1>2. c \in 0..NCpu - 1
  BY <1>1
<1>3. i \div NCpu \in Nat
  BY <1>1
<1>4. p \in 1..PerCore
  BY <1>1, <1>3
<1>5. Lists(Cpus[c], c, n_core_ids) /\ Len(Cpus[c]) = PerCore
  BY <1>1, <1>2
<1>6. processor(i) = Cpus[c][p]
  BY <1>5 DEF processor, num_cpu, Cpus, NCpu
<1> HIDE DEF c, p
<1>7. Cpus[c][p] \in 0..n_core_ids - 1 /\ core(Cpus[c][p]) = c
  BY <1>4, <1>5 DEF Lists
<1>8. QED
  BY <1>6, <1>7 DEF c

(* Every processor has a thread. *)
LEMMA NoneIdle ==
  ASSUME n_core_ids \in Nat \ {0}, Dense, Even, NEW q \in 0..n_core_ids - 1
  PROVE  \E i \in 0..n_core_ids - 1 : processor(i) = q
<1> DEFINE c == core(q)
<1>1. /\ NCpu \in Nat \ {0} /\ PerCore \in Nat \ {0}
      /\ \A d \in 0..NCpu - 1 : Lists(Cpus[d], d, n_core_ids) /\ Len(Cpus[d]) = PerCore
      /\ Cores(NCpu, n_core_ids)
  BY TableEven
<1>2. c \in 0..NCpu - 1
  BY <1>1 DEF Cores
<1>3. PICK p \in 1..PerCore : Cpus[c][p] = q
  BY <1>1, <1>2 DEF Lists
<1> DEFINE i == (p - 1) * NCpu + c
<1>4. p - 1 \in Nat /\ p - 1 < PerCore
  BY <1>1
<1>5. i % NCpu = c /\ i \div NCpu = p - 1
  BY <1>1, <1>2, <1>4, Quotient
<1>6. processor(i) = q
  <2>1. Len(Cpus[c]) = PerCore
    BY <1>1, <1>2
  <2>2. ((p - 1) % PerCore) + 1 = p
    BY <1>1, <1>4
  <2> HIDE DEF i, c
  <2>3. processor(i) = Cpus[c][p]
    BY <1>5, <2>1, <2>2 DEF processor, num_cpu, Cpus, NCpu
  <2>4. QED
    BY <1>3, <2>3
<1>7. i \in 0..n_core_ids - 1
  <2>1. PerCore * NCpu <= n_core_ids
    BY AllCores
  <2>2. PerCore - p \in Nat /\ (PerCore - p) * NCpu \in Nat
    BY <1>1
  <2>3. PerCore * NCpu = (p - 1) * NCpu + NCpu + (PerCore - p) * NCpu
    BY <1>1
  <2>4. (p - 1) * NCpu \in Nat
    BY <1>1, <1>4
  <2> DEFINE a == (p - 1) * NCpu
             b == (PerCore - p) * NCpu
             t == PerCore * NCpu
  <2>5. a \in Nat /\ b \in Nat /\ t = a + NCpu + b /\ t <= n_core_ids /\ i = a + c
    BY <2>1, <2>2, <2>3, <2>4
  <2> HIDE DEF a, b, t, i, c
  <2>6. QED
    BY <1>1, <1>2, <2>5
<1>8. QED
  BY <1>6, <1>7

(* The pinning that Prepare chooses spreads the threads. *)
LEMMA Pinning ==
  ASSUME n_core_ids \in Nat \ {0}, n_threads \in Nat, Dense, Even
  PROVE  /\ {processor(i) : i \in 0..n_thread_create - 1} = 0..n_core_ids - 1
         /\ \A i, j \in Useful : i # j /\ core(processor(i)) = core(processor(j)) =>
              n_threads > Cardinality({core(k) : k \in 0..n_core_ids - 1})
<1>1. n_thread_create \in Nat /\ n_thread_create >= n_core_ids
  BY DEF n_thread_create, get_nprocs
<1>2. \A i \in 0..n_thread_create - 1 : processor(i) \in 0..n_core_ids - 1
  BY <1>1, Pinned
<1>3. \A q \in 0..n_core_ids - 1 : \E i \in 0..n_thread_create - 1 : processor(i) = q
  BY <1>1, NoneIdle
<1>4. {processor(i) : i \in 0..n_thread_create - 1} = 0..n_core_ids - 1
  BY <1>2, <1>3
<1>5. NCpu \in Nat \ {0} /\ Cores(NCpu, n_core_ids)
  BY TableEven
<1>6. {core(k) : k \in 0..n_core_ids - 1} = 0..NCpu - 1
  BY <1>5 DEF Cores
<1>7. Cardinality(0..NCpu - 1) = NCpu
  BY <1>5, CountTo
<1>8. ASSUME NEW i \in Useful, NEW j \in Useful, i # j, core(processor(i)) = core(processor(j))
      PROVE  n_threads > NCpu
  <2>1. i \in Nat /\ j \in Nat /\ i < n_threads /\ j < n_threads
    BY DEF Useful
  <2>2. i % NCpu = j % NCpu
    BY <1>8, <2>1, Pinned
  <2>3. i < NCpu => i % NCpu = i
    BY <1>5, <2>1
  <2>4. j < NCpu => j % NCpu = j
    BY <1>5, <2>1
  <2>5. ~ (i < NCpu /\ j < NCpu)
    BY <1>8, <2>2, <2>3, <2>4
  <2>6. QED
    BY <1>5, <2>1, <2>5
<1>9. QED
  BY <1>4, <1>6, <1>7, <1>8

(* The argument and the machine. *)
MachineInv == n_threads \in Nat /\ n_core_ids \in Nat

LEMMA SpreadStep == MachineInv /\ Spread /\ [Next]_vars => (MachineInv /\ Spread)'
<1> SUFFICES ASSUME MachineInv, Spread, [Next]_vars PROVE (MachineInv /\ Spread)'
  OBVIOUS
<1>1. n_threads' = n_threads /\ core_ids' = core_ids
  BY DEF Next, vars, Integrate, Refuse, Crash, Prepare, Create, CreateFails, Join, Free, Exit,
         Thread, Begin, End
<1>2. n_core_ids' = n_core_ids /\ (\A k : core(k)' = core(k)) /\ Useful' = Useful
  BY <1>1 DEF n_core_ids, core, Useful
<1>3. MachineInv'
  BY <1>1, <1>2 DEF MachineInv
<1>4. Dense' <=> Dense
  BY <1>1 DEF Dense, n_core_ids, core
<1>5. Even' <=> Even
  BY <1>1 DEF Even, n_core_ids, core
<1>6. CASE Prepare
  <2> SUFFICES ASSUME Dense, Even
               PROVE  /\ {attr'[i] : i \in DOMAIN attr'} = 0..n_core_ids - 1
                      /\ \A i, j \in Useful : i # j /\ core(attr'[i]) = core(attr'[j]) =>
                           n_threads > Cardinality({core(k) : k \in 0..n_core_ids - 1})
    BY <1>1, <1>2, <1>3, <1>4, <1>5 DEF Spread, core
  <2>1. n_core_ids # 0 /\ attr' = [i \in 0..n_thread_create - 1 |-> processor(i)]
    BY <1>6 DEF Prepare
  <2>2. /\ {processor(i) : i \in 0..n_thread_create - 1} = 0..n_core_ids - 1
        /\ \A i, j \in Useful : i # j /\ core(processor(i)) = core(processor(j)) =>
             n_threads > Cardinality({core(k) : k \in 0..n_core_ids - 1})
    BY <2>1, Pinning DEF MachineInv
  <2>3. \A i \in Useful : i \in 0..n_thread_create - 1
    BY DEF Useful, n_thread_create, get_nprocs, MachineInv
  <2>4. QED
    BY <2>1, <2>2, <2>3
<1>7. CASE ~Prepare
  <2>1. (main' = "create" => main = "create") /\ attr' = attr
    BY <1>7 DEF Next, vars, Integrate, Refuse, Crash, Create, CreateFails, Join, Free, Exit,
                Thread, Begin, End, Return
  <2>2. SUFFICES ASSUME Dense, Even, main' = "create" PROVE Spread'
    BY <1>3, <1>4, <1>5 DEF Spread
  <2>3. /\ {attr[i] : i \in DOMAIN attr} = 0..n_core_ids - 1
        /\ \A i, j \in Useful : i # j /\ core(attr[i]) = core(attr[j]) =>
             n_threads > Cardinality({core(k) : k \in 0..n_core_ids - 1})
    BY <2>1, <2>2 DEF Spread
  <2>4. /\ {attr'[i] : i \in DOMAIN attr'} = 0..n_core_ids' - 1
        /\ \A i, j \in Useful' : i # j /\ core_ids'[attr'[i] + 1] = core_ids'[attr'[j] + 1] =>
             n_threads' > Cardinality({core_ids'[k + 1] : k \in 0..n_core_ids' - 1})
    BY <1>1, <1>2, <2>1, <2>3 DEF core
  <2>5. QED
    BY <2>4 DEF Spread, core
<1>8. QED
  BY <1>6, <1>7

(* Integrate() pins its threads so that, where the ids of the cores are 0,  *)
(* 1, 2, ... and the cores have as many processors each, no processor is    *)
(* left idle, and two threads that count share a core only when there are   *)
(* more of them than cores.                                                 *)
THEOREM SpreadHolds == Spec => []Spread
<1>1. Init => MachineInv /\ Spread
  BY CalcAssumption DEF Init, MachineInv, Spread, n_core_ids
<1>2. QED
  BY <1>1, SpreadStep, PTL DEF Spec

-----------------------------------------------------------------------------

(* On any machine, the table has processors in each of its elements.  *)
SlotsInv(info, i) ==
  /\ info.cpus \in [0..n_core_ids - 1 -> Seq(0..n_core_ids - 1)]
  /\ info.n_cpu \in 0..i
  /\ i > 0 => info.n_cpu > 0
  /\ \A c \in 0..info.n_cpu - 1 : info.cpus[c] # <<>>

LEMMA AppendFills ==
  ASSUME NEW S, NEW s \in Seq(S), NEW x \in S
  PROVE  Append(s, x) \in Seq(S) /\ Append(s, x) # <<>>
<1>1. Append(s, x) \in Seq(S) /\ Len(Append(s, x)) = Len(s) + 1 /\ Len(s) \in Nat
  OBVIOUS
<1>2. Len(<<>>) = 0
  OBVIOUS
<1>3. QED
  BY <1>1, <1>2

LEMMA SlotsStep ==
  ASSUME NEW info, NEW i \in Nat, i < n_core_ids, n_core_ids \in Nat, SlotsInv(info, i)
  PROVE  SlotsInv(AddProcessor(info, i), i + 1)
<1> DEFINE m == info.n_cpu
           new == AddProcessor(info, i)
           N == 0..n_core_ids - 1
<1>1. /\ info.cpus \in [N -> Seq(N)] /\ m \in Nat /\ m <= i /\ (i > 0 => m > 0)
      /\ \A c \in 0..m - 1 : info.cpus[c] # <<>>
      /\ i \in N
  BY DEF SlotsInv
<1>2. CASE find_in_array(i)
  <2> DEFINE c == core(i)
  <2>1. i > 0
    BY <1>2 DEF find_in_array
  <2>2. /\ new.n_cpu = m
        /\ new.cpus = [info.cpus EXCEPT ![c] = Append(info.cpus[c], i)]
    BY <1>2 DEF AddProcessor
  <2> HIDE DEF new
  <2>3. ASSUME NEW d \in N PROVE new.cpus[d] \in Seq(N) /\ (info.cpus[d] # <<>> => new.cpus[d] # <<>>)
    <3>1. info.cpus[d] \in Seq(N)
      BY <1>1
    <3>2. Append(info.cpus[d], i) \in Seq(N) /\ Append(info.cpus[d], i) # <<>>
      BY <1>1, <3>1, AppendFills
    <3>3. new.cpus[d] = IF d = c THEN Append(info.cpus[d], i) ELSE info.cpus[d]
      BY <1>1, <2>2
    <3>4. QED
      BY <3>1, <3>2, <3>3
  <2>4. new.cpus = [d \in N |-> new.cpus[d]]
    BY <1>1, <2>2
  <2>5. new.cpus \in [N -> Seq(N)]
    BY <2>3, <2>4
  <2>6. \A d \in 0..m - 1 : new.cpus[d] # <<>>
    BY <1>1, <2>3
  <2>7. new.n_cpu \in 0..i + 1 /\ new.n_cpu > 0
    BY <1>1, <2>1, <2>2
  <2>8. \A d \in 0..new.n_cpu - 1 : new.cpus[d] # <<>>
    BY <2>2, <2>6
  <2>9. SlotsInv(new, i + 1)
    BY <2>5, <2>7, <2>8 DEF SlotsInv
  <2>10. QED
    BY <2>9 DEF new
<1>3. CASE ~ find_in_array(i)
  <2>1. /\ new.n_cpu = m + 1
        /\ new.cpus = [info.cpus EXCEPT ![m] = <<i>>]
    BY <1>3 DEF AddProcessor
  <2> HIDE DEF new
  <2>2. <<i>> \in Seq(N) /\ <<i>> # <<>>
    BY <1>1
  <2>3. new.cpus \in [N -> Seq(N)]
    BY <1>1, <2>1, <2>2
  <2>4. ASSUME NEW d \in 0..(m + 1) - 1 PROVE new.cpus[d] # <<>>
    <3>1. m \in N /\ (d \in 0..m - 1 \/ d = m) /\ d \in N
      BY <1>1
    <3>2. new.cpus[d] = IF d = m THEN <<i>> ELSE info.cpus[d]
      BY <1>1, <2>1, <3>1
    <3>3. QED
      BY <1>1, <2>2, <3>1, <3>2
  <2>5. new.n_cpu \in 0..i + 1 /\ new.n_cpu > 0
    BY <1>1, <2>1
  <2>6. \A d \in 0..new.n_cpu - 1 : new.cpus[d] # <<>>
    BY <2>1, <2>4
  <2>7. SlotsInv(new, i + 1)
    BY <2>3, <2>5, <2>6 DEF SlotsInv
  <2>8. QED
    BY <2>7 DEF new
<1>4. QED
  BY <1>2, <1>3

LEMMA SlotsHold ==
  ASSUME n_core_ids \in Nat
  PROVE  SlotsInv(get_mycpu_info, n_core_ids)
<1> DEFINE n == n_core_ids
<1>1. PICK f : Tables(f, n) /\ get_mycpu_info = f[n]
  BY TableIs
<1>2. \A i \in 0..n : f[i] = IF i = 0 THEN NoCPUs ELSE AddProcessor(f[i - 1], i - 1)
  BY <1>1 DEF Tables
<1> DEFINE Bad == {k \in 0..n : ~ SlotsInv(f[k], k)}
<1>3. CASE Bad = {}
  <2>1. n \in 0..n
    OBVIOUS
  <2>2. QED
    BY <1>1, <1>3, <2>1
<1>4. CASE Bad # {}
  <2>1. PICK k \in Bad : \A y \in Bad : k <= y
    <3>1. Bad \subseteq Nat
      OBVIOUS
    <3>2. QED
      BY <1>4, <3>1, LeastNat
  <2>2. k \in 0..n /\ ~ SlotsInv(f[k], k)
    BY <2>1
  <2>3. SlotsInv(NoCPUs, 0)
    BY DEF SlotsInv, NoCPUs
  <2>4. k # 0
    <3>1. k = 0 => f[k] = NoCPUs
      BY <1>2, <2>2
    <3>2. QED
      BY <2>2, <2>3, <3>1
  <2>5. k - 1 \in 0..n /\ k - 1 \in Nat /\ k - 1 < n /\ ~ (k <= k - 1) /\ k - 1 + 1 = k
    BY <2>2, <2>4
  <2>6. SlotsInv(f[k - 1], k - 1)
    BY <2>1, <2>5
  <2>7. f[k] = AddProcessor(f[k - 1], k - 1)
    BY <1>2, <2>2, <2>4
  <2>8. SlotsInv(f[k], k)
    BY <2>5, <2>6, <2>7, SlotsStep
  <2>9. QED
    BY <2>2, <2>8
<1>5. QED
  BY <1>3, <1>4

LEMMA WholeQuotient == ASSUME NEW a \in Nat, NEW b \in Nat \ {0} PROVE a \div b \in Nat
OBVIOUS

(* Every thread is pinned to a processor that there is. *)
LEMMA PinnedSomewhere ==
  ASSUME n_core_ids \in Nat \ {0}, NEW i \in Nat
  PROVE  processor(i) \in 0..n_core_ids - 1
<1> DEFINE N == 0..n_core_ids - 1
           c == i % NCpu
           s == Cpus[c]
           p == ((i \div NCpu) % Len(s)) + 1
<1>1. /\ Cpus \in [N -> Seq(N)] /\ NCpu \in Nat /\ NCpu <= n_core_ids /\ NCpu > 0
      /\ \A d \in 0..NCpu - 1 : Cpus[d] # <<>>
  BY SlotsHold DEF SlotsInv, Cpus, NCpu
<1>2. c \in 0..NCpu - 1 /\ c \in N
  BY <1>1
<1>3. s \in Seq(N) /\ s # <<>>
  BY <1>1, <1>2
<1>4. i \div NCpu \in Nat
  <2>1. NCpu \in Nat \ {0}
    BY <1>1
  <2>2. QED
    BY <2>1, WholeQuotient
<1> HIDE DEF c
<1>5. Len(s) \in Nat \ {0}
  BY <1>3
<1>6. p \in 1..Len(s)
  BY <1>4, <1>5
<1>7. processor(i) = s[p]
  BY DEF processor, num_cpu, Cpus, NCpu, c
<1> HIDE DEF s, p
<1>8. QED
  BY <1>3, <1>6, <1>7

(* A sum has f at no point more than four times. *)
LEMMA SumIsSmall ==
  ASSUME Divided, NEW i \in Nat
  PROVE  CalcIntegral(PartOf(i)) \in [Point -> 0..4]
<1> DEFINE j == IF i < n_threads THEN i ELSE 0
           b == j * interval
<1>1. n_threads \in Nat \ {0} /\ interval \in Nat \ {0}
  BY Parts
<1>2. j \in Useful /\ PartOf(i) = PartOf(j)
  BY <1>1 DEF PartOf, Useful
<1>3. j \in Nat /\ b \in Nat
  BY <1>1, <1>2 DEF Useful
<1> HIDE DEF j
<1>4. ASSUME NEW x \in Point PROVE CalcIntegral(PartOf(j))[x] \in 0..4
  BY <1>2, PartSum DEF One
<1>5. CalcIntegral(PartOf(j)) = [x \in Point |-> CalcIntegral(PartOf(j))[x]]
  BY DEF CalcIntegral
<1>6. QED
  BY <1>2, <1>4, <1>5

LEMMA PartIsInside ==
  ASSUME Divided, NEW i \in Nat
  PROVE  PartOf(i).begin \in Point /\ PartOf(i).end \in Point
<1> DEFINE n == IF i < n_threads THEN i ELSE 0
<1>1. /\ n_threads \in Nat \ {0} /\ Length \in Nat /\ Step \in Nat
      /\ interval \in Nat \ {0} /\ n_threads * interval = Length
  BY Parts, CalcAssumption
<1>2. n \in Nat /\ n + 1 \in Nat /\ n <= n_threads /\ n + 1 <= n_threads
  BY <1>1
<1> HIDE DEF n
<1>3. n * interval \in Nat /\ n * interval <= Length
  BY <1>1, <1>2, TimesMonotone
<1>4. (n + 1) * interval \in Nat /\ (n + 1) * interval <= Length
  BY <1>1, <1>2, TimesMonotone
<1>5. PartOf(i).begin = n * interval /\ PartOf(i).end = (n + 1) * interval
  BY DEF PartOf, n
<1>6. QED
  BY <1>1, <1>3, <1>4, <1>5 DEF Point

(* The threads are there when main comes to them. *)
ThreadsInv ==
  /\ main = "prepare" => touched = {}
  /\ DOMAIN thread # {} => n_threads # 0 /\ main # "prepare"
  /\ \A i \in DOMAIN thread : infosp[i] = PartOf(i)
  /\ main = "create" => i_thread < n_thread_create /\ DOMAIN thread = 0..n_thread_create - 1

(* TypeOK, in two parts. *)
ArraysOK ==
  /\ DOMAIN thread \in {{}, 0..n_thread_create - 1}
  /\ DOMAIN infosp = DOMAIN thread /\ DOMAIN stored = DOMAIN thread /\ DOMAIN attr = DOMAIN thread
  /\ \A i \in DOMAIN thread :
       /\ thread[i] \in {"none", "created", "running", "ended"}
       /\ infosp[i].begin \in Point /\ infosp[i].end \in Point
       /\ stored[i] \in [Point -> 0..4]
       /\ attr[i] \in 0..n_core_ids - 1

ScalarsOK ==
  /\ main \in {"prepare", "create", "join", "free", "return", "exited", "crashed"}
  /\ i_thread \in 0..MaxThreads \cup 0..get_nprocs
  /\ memory \in {"none", "allocated", "freed"}
  /\ touched \subseteq DOMAIN thread
  /\ res \in [Point -> Nat]
  /\ error \in {"SUCCESS", "E_INVAL", "E_MEM", "E_THREAD"}

TypesInv == n_threads \in 0..MaxThreads /\ core_ids \in CPUInfos /\ ArraysOK /\ ScalarsOK /\ ThreadsInv

LEMMA TypesAreOK == TypesInv => TypeOK
BY DEF TypesInv, ArraysOK, ScalarsOK, TypeOK

LEMMA CountsFit ==
  ASSUME n_threads \in 0..MaxThreads, core_ids \in CPUInfos
  PROVE  /\ n_threads \in Nat /\ n_core_ids \in Nat /\ get_nprocs \in Nat /\ n_thread_create \in Nat
         /\ n_thread_create >= n_threads /\ n_thread_create >= get_nprocs
         /\ n_thread_create \in {n_threads, get_nprocs}
BY CalcAssumption DEF n_core_ids, get_nprocs, n_thread_create

LEMMA TypesInit == Init => TypesInv
<1> SUFFICES ASSUME Init PROVE TypesInv
  OBVIOUS
<1>1. /\ n_threads \in 0..MaxThreads /\ core_ids \in CPUInfos /\ n_threads \in Nat /\ get_nprocs \in Nat
      /\ MaxThreads \in Nat
  BY CountsFit, CalcAssumption DEF Init
<1>2. i_thread \in 0..MaxThreads \cup 0..get_nprocs
  BY <1>1 DEF Init
<1>3. res \in [Point -> Nat]
  BY DEF Init, Nothing
<1>4. /\ main = "prepare" /\ memory = "none" /\ error = "SUCCESS" /\ touched = {}
      /\ DOMAIN thread = {} /\ DOMAIN infosp = {} /\ DOMAIN stored = {} /\ DOMAIN attr = {}
  BY DEF Init
<1>5. ArraysOK
  BY <1>4 DEF ArraysOK
<1>6. ScalarsOK
  BY <1>2, <1>3, <1>4 DEF ScalarsOK
<1>7. ThreadsInv
  BY <1>4 DEF ThreadsInv
<1>8. QED
  BY <1>1, <1>5, <1>6, <1>7 DEF TypesInv

LEMMA TypesStep == IInv /\ TypesInv /\ [Next]_vars => TypesInv'
<1> SUFFICES ASSUME IInv, TypesInv, [Next]_vars PROVE TypesInv'
  OBVIOUS
<1>0. JoinInv /\ ArraysOK /\ ScalarsOK /\ ThreadsInv
  BY DEF IInv, TypesInv
<1>1. n_threads' = n_threads /\ core_ids' = core_ids
  BY DEF Next, Integrate, Refuse, Crash, Prepare, Create, CreateFails, Join, Free, Exit,
         Thread, Begin, End, vars
<1>2. n_core_ids' = n_core_ids /\ get_nprocs' = get_nprocs /\ n_thread_create' = n_thread_create
  BY <1>1 DEF n_core_ids, get_nprocs, n_thread_create
<1>3. \A i : PartOf(i)' = PartOf(i)
  BY <1>1, PartsStay
<1>4. n_threads \in 0..MaxThreads /\ core_ids \in CPUInfos /\ MaxThreads \in Nat
  BY CalcAssumption DEF TypesInv
<1>5. /\ n_threads \in Nat /\ n_core_ids \in Nat /\ get_nprocs \in Nat /\ n_thread_create \in Nat
      /\ n_thread_create >= n_threads /\ n_thread_create >= get_nprocs
      /\ n_thread_create \in {n_threads, get_nprocs}
  BY <1>4, CountsFit
<1>6. ASSUME UNCHANGED <<thread, infosp, stored, attr>> PROVE ArraysOK'
  BY <1>0, <1>2, <1>6 DEF ArraysOK
<1>7. ASSUME UNCHANGED <<thread, infosp, i_thread>>, main' \notin {"prepare", "create"} PROVE ThreadsInv'
  BY <1>0, <1>1, <1>3, <1>7 DEF ThreadsInv
<1>8. ASSUME ArraysOK', ScalarsOK', ThreadsInv' PROVE TypesInv'
  BY <1>1, <1>4, <1>8 DEF TypesInv
<1>9. CASE Refuse \/ Crash \/ CreateFails
  <2>1. /\ UNCHANGED <<thread, infosp, stored, attr, i_thread, memory, touched, res>>
        /\ main' \in {"return", "crashed", "free"}
        /\ error' \in {"E_INVAL", "E_MEM", "E_THREAD", error}
    BY <1>9 DEF Refuse, Return, Crash, CreateFails
  <2>2. ScalarsOK'
    BY <1>0, <1>2, <2>1 DEF ScalarsOK
  <2>3. QED
    BY <1>6, <1>7, <1>8, <2>1, <2>2
<1>10. CASE Free \/ Exit
  <2>1. /\ UNCHANGED <<thread, infosp, stored, attr, i_thread, touched, res, error>>
        /\ main' \in {"return", "exited"} /\ memory' \in {memory, "freed"}
    BY <1>10 DEF Free, Exit
  <2>2. ScalarsOK'
    BY <1>0, <1>2, <2>1 DEF ScalarsOK
  <2>3. QED
    BY <1>6, <1>7, <1>8, <2>1, <2>2
<1>11. CASE Prepare
  <2> DEFINE D == 0..n_thread_create - 1
  <2>1. /\ n_threads # 0 /\ n_core_ids # 0 /\ main = "prepare" /\ main' = "create"
        /\ infosp' = [i \in D |-> PartOf(i)]
        /\ attr' = [i \in D |-> processor(i)]
        /\ thread' = [i \in D |-> "none"]
        /\ stored' = [i \in D |-> Nothing]
        /\ memory' = "allocated"
        /\ UNCHANGED <<i_thread, touched, res, error>>
    BY <1>11 DEF Prepare
  <2>2. Divided
    BY <1>4, <1>5, <2>1 DEF Divided
  <2>3. ASSUME NEW i \in D
        PROVE  /\ PartOf(i).begin \in Point /\ PartOf(i).end \in Point
               /\ processor(i) \in 0..n_core_ids - 1
    BY <1>5, <2>1, <2>2, PartIsInside, PinnedSomewhere
  <2>4. Nothing \in [Point -> 0..4]
    BY DEF Nothing
  <2>5. ArraysOK'
    <3>1. \A i \in D : /\ infosp'[i].begin \in Point /\ infosp'[i].end \in Point
                       /\ attr'[i] \in 0..n_core_ids - 1
                       /\ thread'[i] = "none" /\ stored'[i] \in [Point -> 0..4]
      BY <2>1, <2>3, <2>4
    <3>2. DOMAIN thread' = D /\ DOMAIN infosp' = D /\ DOMAIN stored' = D /\ DOMAIN attr' = D
      BY <2>1
    <3> HIDE DEF D
    <3>3. QED
      BY <1>2, <3>1, <3>2 DEF ArraysOK, D
  <2>6. touched = {}
    BY <1>0, <2>1 DEF ThreadsInv
  <2>7. ScalarsOK'
    BY <1>0, <1>2, <2>1, <2>6 DEF ScalarsOK
  <2>8. ThreadsInv'
    BY <1>0, <1>1, <1>2, <1>3, <1>5, <2>1 DEF ThreadsInv, JoinInv
  <2>9. QED
    BY <1>8, <2>5, <2>7, <2>8
<1>12. CASE Create
  <2>1. /\ main = "create" /\ thread' = [thread EXCEPT ![i_thread] = "created"]
        /\ UNCHANGED <<infosp, memory, attr, stored, touched, res, error>>
        /\ \/ main' = "create" /\ i_thread' = i_thread + 1 /\ i_thread + 1 < n_thread_create
           \/ main' = "join" /\ i_thread' = 0
    BY <1>12 DEF Create
  <2>2. DOMAIN thread' = DOMAIN thread /\ i_thread \in Nat
    BY <1>0, <2>1 DEF JoinInv
  <2>3. \A i \in DOMAIN thread : thread'[i] \in {"none", "created", "running", "ended"}
    BY <1>0, <2>1 DEF ArraysOK
  <2>4. ArraysOK'
    BY <1>0, <1>2, <2>1, <2>2, <2>3 DEF ArraysOK
  <2>5. i_thread' \in 0..MaxThreads \cup 0..get_nprocs
    BY <1>4, <1>5, <2>1, <2>2
  <2>6. ScalarsOK'
    BY <1>0, <1>2, <2>1, <2>2, <2>5 DEF ScalarsOK
  <2>7. ThreadsInv'
    BY <1>0, <1>1, <1>2, <1>3, <2>1, <2>2 DEF ThreadsInv
  <2>8. QED
    BY <1>8, <2>4, <2>6, <2>7
<1>13. CASE Join
  <2>1. /\ main = "join" /\ i_thread' = i_thread + 1
        /\ res' = [x \in Point |-> res[x] + stored[i_thread][x]]
        /\ main' \in {"join", "free"}
        /\ UNCHANGED <<infosp, memory, attr, thread, stored, touched, error>>
    BY <1>13 DEF Join
  <2>2. i_thread \in Nat /\ i_thread < n_threads /\ i_thread \in DOMAIN thread
    BY <1>0, <1>5, <2>1 DEF JoinInv, Useful
  <2>3. res' \in [Point -> Nat]
    <3>1. stored[i_thread] \in [Point -> 0..4] /\ res \in [Point -> Nat]
      BY <1>0, <2>2 DEF ArraysOK, ScalarsOK
    <3>2. QED
      BY <2>1, <3>1
  <2>4. i_thread' \in 0..MaxThreads
    BY <1>4, <2>1, <2>2
  <2>5. ScalarsOK'
    BY <1>0, <1>2, <2>1, <2>3, <2>4 DEF ScalarsOK
  <2>6. ThreadsInv'
    BY <1>0, <1>1, <1>3, <2>1 DEF ThreadsInv
  <2>7. QED
    BY <1>6, <1>8, <2>1, <2>5, <2>6
<1>14. ASSUME NEW i \in DOMAIN thread, Thread(i) PROVE TypesInv'
  <2>1. /\ UNCHANGED <<main, i_thread, infosp, memory, attr, res, error>>
        /\ touched' \in {touched, touched \cup {i}}
    BY <1>14 DEF Thread, Begin, End, Touch
  <2>2. \/ thread' = [thread EXCEPT ![i] = "running"] /\ stored' = stored
        \/ /\ thread' = [thread EXCEPT ![i] = "ended"]
           /\ stored' = [stored EXCEPT ![i] = CalcIntegral(infosp[i])]
    BY <1>14 DEF Thread, Begin, End
  <2>3. DOMAIN thread' = DOMAIN thread /\ DOMAIN stored' = DOMAIN stored
    BY <2>2
  <2>4. CalcIntegral(infosp[i]) \in [Point -> 0..4]
    <3>1. n_threads # 0 /\ infosp[i] = PartOf(i)
      BY <1>0, <1>14 DEF ThreadsInv
    <3>2. Divided /\ i \in Nat
      BY <1>0, <1>4, <1>5, <1>14, <3>1 DEF Divided, ArraysOK
    <3>3. QED
      BY <3>1, <3>2, SumIsSmall
  <2>5. ASSUME NEW j \in DOMAIN thread
        PROVE  /\ thread'[j] \in {"none", "created", "running", "ended"}
               /\ stored'[j] \in [Point -> 0..4]
    <3>1. /\ thread[j] \in {"none", "created", "running", "ended"}
          /\ stored[j] \in [Point -> 0..4]
          /\ DOMAIN stored = DOMAIN thread
      BY <1>0 DEF ArraysOK
    <3>2. stored'[j] \in {stored[j], CalcIntegral(infosp[i])}
      BY <2>2, <3>1
    <3>3. thread'[j] \in {thread[j], "running", "ended"}
      BY <2>2
    <3>4. QED
      BY <2>4, <3>1, <3>2, <3>3
  <2>6. ArraysOK'
    BY <1>0, <1>2, <2>1, <2>3, <2>5 DEF ArraysOK
  <2>7. ScalarsOK'
    BY <1>0, <1>2, <1>14, <2>1, <2>3 DEF ScalarsOK
  <2>8. main # "prepare"
    BY <1>0, <1>14 DEF ThreadsInv
  <2>9. ThreadsInv'
    BY <1>0, <1>1, <1>2, <1>3, <2>1, <2>3, <2>8 DEF ThreadsInv
  <2>10. QED
    BY <1>8, <2>6, <2>7, <2>9
<1>15. CASE UNCHANGED vars
  <2>1. UNCHANGED <<thread, infosp, stored, attr, main, i_thread, memory, touched, res, error>>
    BY <1>15 DEF vars
  <2>2. ScalarsOK' /\ ThreadsInv'
    BY <1>0, <1>1, <1>2, <1>3, <2>1 DEF ScalarsOK, ThreadsInv
  <2>3. QED
    BY <1>6, <1>8, <2>1, <2>2
<1>16. QED
  BY <1>9, <1>10, <1>11, <1>12, <1>13, <1>14, <1>15 DEF Next, Integrate

(* All state keeps its type: on every machine whose table is not overrun a  *)
(* thread is pinned to a processor that there is, parts lie in the          *)
(* interval, and a thread's sum has f at no point more than four times.     *)
THEOREM TypeCorrect == Spec => []TypeOK
<1>1. IInv /\ [Next]_vars => IInv'
  BY JoinStep, FreedStep DEF IInv
<1>2. QED
  BY <1>1, InitInv, TypesInit, TypesStep, TypesAreOK, PTL DEF Spec
=============================================================================
