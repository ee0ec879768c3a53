--------------------- MODULE PipeCopyAndIntegralProofs ----------------------
(***************************************************************************)
(* The parent of 3_sem/Test_task/6_task prints the beginning of the file,  *)
(* and all that the child wrote if it succeeds, for every file, every size *)
(* of the pipe and any kills and errors.  The argument is that the output, *)
(* the parent's buffer and the pipe are together, in this order, the       *)
(* blocks that the child has written.                                      *)
(*                                                                         *)
(* In the second part: the SUM that 4_sem/Integral prints is one pass over *)
(* the interval, for every number of CPUs, as many threads or fewer, and   *)
(* every division of the interval.                                         *)
(***************************************************************************)
EXTENDS PipeCopy, Integral, FiniteSetTheorems, TLAPS

(* The blocks on the way: the one in the parent's buffer, and the pipe's. *)
Held == IF parent = "write" THEN 1 ELSE 0

StreamInv ==
  /\ \A k \in 1..Len(printed) : printed[k] = k
  /\ Len(printed) < next
  /\ parent # "done" =>
       /\ Len(printed) + Held + Len(pipe) = next - 1
       /\ parent = "write" => block = Len(printed) + 1
       /\ \A k \in 1..Len(pipe) : pipe[k] = Len(printed) + Held + k

(* Who has ended, and how; the parent takes nothing from the pipe before   *)
(* the child has ended.                                                    *)
EndInv ==
  /\ next <= file_len + 1 /\ next <= Capacity + 1
  /\ child = "write" => next <= file_len
  /\ child # "done" => status.child = "running"
  /\ status.child = "success" => next = file_len + 1
  /\ parent \in {"read", "write"} => child = "done"
  /\ parent \in {"pipe", "fork"} => child = "none"
  /\ parent \in {"pipe", "fork", "waitpid"} => Len(printed) = 0
  /\ parent # "done" => status.parent = "running"
  /\ status.parent = "success" => Len(printed) = next - 1 /\ child = "done"

IInv == TypeOK /\ StreamInv /\ EndInv

LEMMA InitInv == Init => IInv
<1> SUFFICES ASSUME Init PROVE IInv
  OBVIOUS
<1>1. TypeOK
  BY PipeCopyAssumption DEF Init, TypeOK
<1>2. StreamInv
  BY DEF Init, StreamInv, Held
<1>3. EndInv
  BY PipeCopyAssumption DEF Init, EndInv
<1>4. QED
  BY <1>1, <1>2, <1>3 DEF IInv

(* The facts about the types that the steps need. *)
LEMMA Types ==
  ASSUME TypeOK
  PROVE  /\ file_len \in Nat /\ next \in Nat \ {0} /\ Capacity \in Nat /\ MaxLen \in Nat
         /\ file_len <= MaxLen
         /\ pipe \in Seq(1..MaxLen) /\ printed \in Seq(1..MaxLen)
         /\ Len(pipe) \in Nat /\ Len(printed) \in Nat
         /\ MaxKills \in Nat /\ kills \in Nat
         /\ status = [parent |-> status.parent, child |-> status.child]
BY PipeCopyAssumption DEF TypeOK

LEMMA TypeStep == IInv /\ [Next]_vars => TypeOK'
<1> SUFFICES ASSUME IInv, [Next]_vars PROVE TypeOK'
  OBVIOUS
<1>0. TypeOK /\ EndInv /\ StreamInv
  BY DEF IInv
<1> USE <1>0 DEF TypeOK
<1>1. CASE Pipe \/ Fork \/ Wait
  BY <1>1 DEF Pipe, Fork, Wait
<1>2. CASE EndOfFile \/ ParentError
  BY <1>2 DEF EndOfFile, ParentError, ParentExit
<1>3. CASE Read
  <2>1. Head(pipe) \in 1..MaxLen /\ Tail(pipe) \in Seq(1..MaxLen) /\ Len(Tail(pipe)) <= Capacity
    BY <1>3, Types DEF Read
  <2>2. QED
    BY <1>3, <2>1 DEF Read
<1>4. CASE Write
  <2>1. block \in 1..MaxLen
    BY <1>4, Types DEF Write, StreamInv, EndInv, Held
  <2>2. printed' \in Seq(1..MaxLen)
    BY <1>4, <2>1 DEF Write
  <2>3. QED
    BY <1>4, <2>2 DEF Write
<1>5. CASE ChildOpen \/ ChildRead
  BY <1>5 DEF ChildOpen, ChildRead, ChildExit
<1>6. CASE ChildWrite
  <2>1. next \in 1..MaxLen /\ next' \in 1..MaxLen + 1
    BY <1>6, Types DEF ChildWrite, EndInv
  <2>2. pipe' \in Seq(1..MaxLen) /\ Len(pipe') <= Capacity
    BY <1>6, <2>1, Types DEF ChildWrite
  <2>3. QED
    BY <1>6, <2>1, <2>2 DEF ChildWrite
<1>7. CASE SigPipe \/ ChildError
  BY <1>7 DEF SigPipe, ChildError, ChildExit
<1>8. CASE KillParent \/ KillChild
  <2>1. kills' \in 0..MaxKills
    BY <1>8, Types DEF KillParent, KillChild
  <2>2. QED
    BY <1>8, <2>1 DEF KillParent, KillChild, ParentExit, ChildExit
<1>9. CASE UNCHANGED vars
  BY <1>9 DEF vars
<1>10. QED
  BY <1>1, <1>2, <1>3, <1>4, <1>5, <1>6, <1>7, <1>8, <1>9
  DEF Next, Parent, Child, Trouble

LEMMA StreamStep == IInv /\ [Next]_vars => StreamInv'
<1> SUFFICES ASSUME IInv, [Next]_vars PROVE StreamInv'
  OBVIOUS
<1>0. TypeOK /\ EndInv /\ StreamInv
  BY DEF IInv
<1>a. /\ next \in Nat /\ Len(pipe) \in Nat /\ Len(printed) \in Nat
      /\ pipe \in Seq(1..MaxLen) /\ printed \in Seq(1..MaxLen)
  BY <1>0, Types
<1>1. CASE Pipe \/ Fork \/ Wait
  BY <1>0, <1>1 DEF Pipe, Fork, Wait, StreamInv, Held
<1>2. CASE EndOfFile \/ ParentError \/ KillParent
  BY <1>0, <1>2 DEF EndOfFile, ParentError, KillParent, ParentExit, StreamInv
<1>3. CASE Read
  <2>1. /\ parent = "read" /\ parent' = "write" /\ Len(pipe) > 0
        /\ block' = pipe[1] /\ pipe' = Tail(pipe) /\ printed' = printed /\ next' = next
    BY <1>3, <1>a DEF Read
  <2>2. Len(pipe') = Len(pipe) - 1 /\ \A k \in 1..Len(pipe') : pipe'[k] = pipe[k + 1]
    BY <2>1, <1>a
  <2>3. /\ Len(printed) + Len(pipe) = next - 1
        /\ \A k \in 1..Len(pipe) : pipe[k] = Len(printed) + k
    BY <1>0, <2>1 DEF StreamInv, Held
  <2>4. \A k \in 1..Len(pipe') : pipe'[k] = Len(printed) + 1 + k
    BY <2>2, <2>3, <1>a
  <2>5. block' = Len(printed) + 1
    BY <2>1, <2>3, <1>a
  <2>6. Held' = 1
    BY <2>1 DEF Held
  <2>7. Len(printed') + Held' + Len(pipe') = next' - 1
    <3>1. Len(printed') = Len(printed) /\ next' = next /\ Len(pipe') = Len(pipe) - 1
      BY <2>1, <2>2
    <3>2. Len(printed) + Len(pipe) = next - 1
      BY <2>3
    <3>3. next \in Nat /\ Len(pipe) \in Nat /\ Len(printed) \in Nat
      BY <1>a
    <3>4. QED
      BY ONLY <2>6, <3>1, <3>2, <3>3
  <2>8. block' = Len(printed') + 1 /\ \A k \in 1..Len(pipe') : pipe'[k] = Len(printed') + Held' + k
    BY ONLY <1>a, <2>1, <2>4, <2>5, <2>6
  <2>9. /\ \A k \in 1..Len(printed') : printed'[k] = k
        /\ Len(printed') < next'
    BY <1>0, <2>1 DEF StreamInv
  <2>10. QED
    BY ONLY <2>7, <2>8, <2>9 DEF StreamInv
<1>4. CASE Write
  <2>1. /\ parent = "write" /\ parent' = "read" /\ pipe' = pipe /\ next' = next
        /\ printed' = Append(printed, block) /\ block = Len(printed) + 1
    BY <1>0, <1>4 DEF Write, StreamInv
  <2>2. Len(printed') = Len(printed) + 1 /\ \A k \in 1..Len(printed') : printed'[k] = k
    BY <1>0, <1>a, <2>1 DEF StreamInv
  <2>3. QED
    BY <1>0, <1>a, <2>1, <2>2 DEF StreamInv, Held
<1>5. CASE ChildOpen \/ ChildRead \/ SigPipe \/ ChildError \/ KillChild
  BY <1>0, <1>5 DEF ChildOpen, ChildRead, SigPipe, ChildError, KillChild, ChildExit, StreamInv, Held
<1>6. CASE ChildWrite
  <2>1. /\ parent # "done" /\ parent' = parent /\ block' = block /\ printed' = printed
        /\ pipe' = Append(pipe, next) /\ next' = next + 1
    BY <1>6 DEF ChildWrite
  <2>2. Held \in {0, 1} /\ Held' = Held
    BY <2>1 DEF Held
  <2>3. /\ Len(pipe') = Len(pipe) + 1 /\ pipe'[Len(pipe) + 1] = next
        /\ \A k \in 1..Len(pipe) : pipe'[k] = pipe[k]
    BY <1>a, <2>1
  <2>4. /\ Len(printed) + Held + Len(pipe) = next - 1
        /\ \A k \in 1..Len(pipe) : pipe[k] = Len(printed) + Held + k
    BY <1>0, <2>1 DEF StreamInv
  <2>5. \A k \in 1..Len(pipe') : pipe'[k] = Len(printed) + Held + k
    <3> SUFFICES ASSUME NEW k \in 1..Len(pipe')
                 PROVE  pipe'[k] = Len(printed) + Held + k
      OBVIOUS
    <3>1. Len(pipe) \in Nat /\ Len(printed) \in Nat /\ next \in Nat /\ Len(pipe') = Len(pipe) + 1
      BY <1>a, <2>3
    <3>2. CASE k \in 1..Len(pipe)
      BY <2>3, <2>4, <3>2
    <3>3. CASE k = Len(pipe) + 1
      <4>1. pipe'[k] = next /\ Len(printed) + Held + Len(pipe) = next - 1
        BY <2>3, <2>4, <3>3
      <4>2. QED
        BY ONLY <2>2, <3>1, <3>3, <4>1
    <3>4. k \in 1..Len(pipe) \/ k = Len(pipe) + 1
      BY ONLY <3>1, k \in 1..Len(pipe')
    <3>5. QED
      BY <3>2, <3>3, <3>4
  <2>6. Len(printed') + Held' + Len(pipe') = next' - 1
    BY ONLY <1>a, <2>1, <2>2, <2>3, <2>4
  <2>7. \A k \in 1..Len(pipe') : pipe'[k] = Len(printed') + Held' + k
    BY ONLY <2>1, <2>2, <2>5
  <2>8. /\ \A k \in 1..Len(printed') : printed'[k] = k
        /\ Len(printed') < next'
        /\ parent' = "write" => block' = Len(printed') + 1
    BY <1>0, <1>a, <2>1 DEF StreamInv
  <2>9. QED
    BY ONLY <2>6, <2>7, <2>8 DEF StreamInv
<1>7. CASE UNCHANGED vars
  BY <1>0, <1>7 DEF vars, StreamInv, Held
<1>8. QED
  BY <1>1, <1>2, <1>3, <1>4, <1>5, <1>6, <1>7 DEF Next, Parent, Child, Trouble

LEMMA EndStep == IInv /\ [Next]_vars => EndInv'
<1> SUFFICES ASSUME IInv, [Next]_vars PROVE EndInv'
  OBVIOUS
<1>0. TypeOK /\ EndInv /\ StreamInv
  BY DEF IInv
<1>a. /\ next \in Nat /\ Len(pipe) \in Nat /\ Len(printed) \in Nat /\ file_len \in Nat
      /\ Capacity \in Nat /\ printed \in Seq(1..MaxLen)
      /\ status = [parent |-> status.parent, child |-> status.child]
  BY <1>0, Types
<1> USE <1>0, <1>a DEF EndInv
<1>1. CASE Pipe \/ Fork \/ Wait
  BY <1>1 DEF Pipe, Fork, Wait
<1>2. CASE EndOfFile
  <2>1. Len(printed) = next - 1
    <3>1. Len(pipe) = 0 /\ parent = "read"
      BY <1>2 DEF EndOfFile
    <3>2. QED
      BY <3>1 DEF StreamInv, Held
  <2>2. QED
    BY <1>2, <2>1 DEF EndOfFile, ParentExit
<1>3. CASE ParentError \/ KillParent
  BY <1>3 DEF ParentError, KillParent, ParentExit
<1>4. CASE Read
  BY <1>4 DEF Read
<1>5. CASE Write
  BY <1>5 DEF Write
<1>6. CASE ChildOpen \/ ChildRead \/ SigPipe \/ ChildError \/ KillChild
  BY <1>6 DEF ChildOpen, ChildRead, SigPipe, ChildError, KillChild, ChildExit
<1>7. CASE ChildWrite
  <2>1. parent = "waitpid"
    BY <1>7 DEF ChildWrite, TypeOK
  <2>2. Len(pipe) = next - 1
    BY <2>1 DEF StreamInv, Held
  <2>3. QED
    BY <1>7, <2>1, <2>2 DEF ChildWrite
<1>8. CASE UNCHANGED vars
  BY <1>8 DEF vars
<1>9. QED
  BY <1>1, <1>2, <1>3, <1>4, <1>5, <1>6, <1>7, <1>8 DEF Next, Parent, Child, Trouble

LEMMA Inductive == Spec => []IInv
<1>1. IInv /\ [Next]_vars => IInv'
  BY TypeStep, StreamStep, EndStep DEF IInv
<1>2. QED
  BY <1>1, InitInv, PTL DEF Spec

-----------------------------------------------------------------------------
(* Every variable keeps its type; the pipe never has more than it takes.   *)
THEOREM TypeCorrect == Spec => []TypeOK
<1>1. IInv => TypeOK
  BY DEF IInv
<1>2. QED
  BY <1>1, Inductive, PTL

(* What is on the screen is the beginning of the file.                     *)
THEOREM OutputCorrect == Spec => []OutputIsPrefix
<1>1. IInv => OutputIsPrefix
  <2> SUFFICES ASSUME IInv PROVE OutputIsPrefix
    OBVIOUS
  <2>1. next \in Nat /\ file_len \in Nat /\ Len(printed) \in Nat
    BY Types DEF IInv
  <2>2. QED
    BY <2>1 DEF IInv, StreamInv, EndInv, OutputIsPrefix
<1>2. QED
  BY <1>1, Inductive, PTL

(* The parent succeeds only when all that the child wrote is printed, and  *)
(* with the whole file if the child read all of it.                        *)
THEOREM SuccessIsWhole == Spec => []SuccessMeansAllPrinted
<1>1. IInv => SuccessMeansAllPrinted
  <2> SUFFICES ASSUME IInv, status.parent = "success" PROVE
         Len(printed) = next - 1 /\ (status.child = "success" => printed = File)
    BY DEF SuccessMeansAllPrinted
  <2>1. next \in Nat /\ file_len \in Nat /\ Len(printed) \in Nat /\ printed \in Seq(1..MaxLen)
    BY Types DEF IInv
  <2>2. Len(printed) = next - 1
    BY DEF IInv, EndInv
  <2>3. ASSUME status.child = "success" PROVE printed = File
    <3>1. Len(printed) = file_len /\ \A k \in 1..Len(printed) : printed[k] = k
      BY <2>1, <2>2, <2>3 DEF IInv, EndInv, StreamInv
    <3>2. QED
      BY <2>1, <3>1 DEF File
  <2>4. QED
    BY <2>2, <2>3
<1>2. QED
  BY <1>1, Inductive, PTL

(* While the parent reads, the whole file of a child that ended well is in *)
(* the output, its buffer and the pipe, which was large enough for it.     *)
THEOREM ReadsTheWhole == Spec => []ReadsWhenAllIsThere
<1>1. IInv => ReadsWhenAllIsThere
  <2> SUFFICES ASSUME IInv, parent \in {"read", "write"}, status.child = "success"
      PROVE  /\ file_len <= Capacity
             /\ printed \o (IF parent = "write" THEN <<block>> ELSE <<>>) \o pipe = File
    BY DEF ReadsWhenAllIsThere
  <2> DEFINE held == IF parent = "write" THEN <<block>> ELSE <<>>
  <2>1. /\ next \in Nat /\ file_len \in Nat /\ Len(printed) \in Nat /\ Len(pipe) \in Nat
        /\ Capacity \in Nat /\ printed \in Seq(Nat) /\ pipe \in Seq(Nat)
    BY Types DEF IInv
  <2>2. /\ next = file_len + 1 /\ next <= Capacity + 1
        /\ Len(printed) + Held + Len(pipe) = next - 1
        /\ \A k \in 1..Len(printed) : printed[k] = k
        /\ parent = "write" => block = Len(printed) + 1
        /\ \A k \in 1..Len(pipe) : pipe[k] = Len(printed) + Held + k
    BY DEF IInv, EndInv, StreamInv
  <2>3. /\ held \in Seq(Nat) /\ Len(held) = Held /\ Held \in {0, 1}
        /\ \A k \in 1..Held : held[k] = Len(printed) + k
    BY <2>1, <2>2 DEF Held
  <2> DEFINE first == printed \o held
             all   == first \o pipe
  <2>4. /\ first \in Seq(Nat) /\ Len(first) = Len(printed) + Held
        /\ \A k \in 1..Len(first) : first[k] = k
    BY <2>1, <2>2, <2>3
  <2>5. all \in Seq(Nat) /\ Len(all) = file_len /\ \A k \in 1..Len(all) : all[k] = k
    <3> HIDE DEF first
    <3>1. Len(first) + Len(pipe) = file_len /\ \A k \in 1..Len(pipe) : pipe[k] = Len(first) + k
      BY <2>1, <2>2, <2>3, <2>4
    <3>2. all \in Seq(Nat) /\ Len(all) = file_len
      BY ONLY <2>1, <2>4, <3>1
    <3>3. ASSUME NEW k \in 1..file_len PROVE all[k] = k
      <4>1. CASE k \in 1..Len(first)
        BY <2>1, <2>4, <4>1
      <4>2. CASE k \in Len(first) + 1..Len(first) + Len(pipe)
        <5>1. k - Len(first) \in 1..Len(pipe) /\ all[k] = pipe[k - Len(first)]
          BY ONLY <2>1, <2>4, <4>2
        <5>2. pipe[k - Len(first)] = Len(first) + (k - Len(first))
          BY <3>1, <5>1
        <5>3. QED
          BY ONLY <2>1, <2>4, <4>2, <5>1, <5>2
      <4>3. k \in 1..Len(first) \/ k \in Len(first) + 1..Len(first) + Len(pipe)
        BY ONLY <2>1, <2>4, <3>1, k \in 1..file_len
      <4>4. QED
        BY <4>1, <4>2, <4>3
    <3>4. QED
      BY <3>2, <3>3
  <2>6. all = File
    <3> HIDE DEF all
    <3>1. QED
      BY <2>1, <2>5 DEF File
  <2>7. QED
    BY <2>1, <2>2, <2>6
<1>2. QED
  BY <1>1, Inductive, PTL

-----------------------------------------------------------------------------
(* 4_sem/Integral. *)

LEMMA SmallSets == Cardinality({}) = 0 /\ \A a : Cardinality({a}) = 1
BY FS_EmptySet, FS_Singleton

LEMMA PairSet == ASSUME NEW a, NEW b, a # b PROVE Cardinality({a, b}) = 2
<1>1. IsFiniteSet({a}) /\ Cardinality({a}) = 1
  BY FS_Singleton
<1>2. {a, b} = {a} \cup {b} /\ b \notin {a}
  OBVIOUS
<1>3. Cardinality({a} \cup {b}) = Cardinality({a}) + 1
  BY <1>1, <1>2, FS_AddElement
<1>4. Cardinality({a, b}) = Cardinality({a}) + 1
  BY <1>2, <1>3
<1>5. QED
  BY <1>1, <1>4

LEMMA Remainder ==
  ASSUME NEW n \in Nat \ {0}, NEW a \in Nat, NEW r \in 0..n - 1
  PROVE  (a * n + r) % n = r
OBVIOUS

LEMMA Divides ==
  ASSUME NEW l \in Nat \ {0}, NEW n \in Nat \ {0}, l % n = 0
  PROVE  l \div n \in Nat \ {0} /\ n * (l \div n) = l
<1>1. l \div n \in Nat /\ l = (l \div n) * n + (l % n)
  OBVIOUS
<1>2. l = (l \div n) * n
  BY <1>1
<1>3. l \div n # 0
  BY <1>2
<1>4. QED
  BY <1>1, <1>2, <1>3

LEMMA TimesMonotone ==
  ASSUME NEW n \in Nat, NEW x \in Nat, NEW y \in Nat, x <= y
  PROVE  x * n <= y * n /\ x * n \in Nat /\ y * n \in Nat
<1>1. y - x \in Nat
  OBVIOUS
<1>2. (y - x) * n >= 0
  BY <1>1
<1>3. y * n = x * n + (y - x) * n
  BY <1>1
<1>4. x * n \in Nat /\ y * n \in Nat
  OBVIOUS
<1>5. QED
  BY <1>1, <1>2, <1>3, <1>4

-----------------------------------------------------------------------------
(* The arguments. *)
Asked == input_threads \in 1..MaxThreads /\ online_threads \in 1..MaxThreads

(* The parts that count. *)
UsefulParts == online_threads - empty_threads

(* What is assumed of the constants, for a number of parts. *)
LEMMA Constants ==
  ASSUME NEW n \in 1..MaxThreads
  PROVE  /\ Length \in Nat /\ Length % n = 0 /\ n \in Nat \ {0}
         /\ Step \in Nat \ {0} /\ Step <= Length \div n
<1>1. /\ Length \in Nat /\ Length % n = 0
      /\ Step \in Nat \ {0} /\ Step <= Length \div n
  BY IntegralAssumption, Zenon
<1>2. n \in Nat \ {0}
  <2>1. MaxThreads \in Nat
    BY IntegralAssumption
  <2>2. QED
    BY <2>1
<1>3. QED
  BY <1>1, <1>2

LEMMA Division ==
  ASSUME Asked
  PROVE  /\ UsefulParts \in 1..MaxThreads /\ empty_threads \in Nat
         /\ online_threads = empty_threads + UsefulParts
         /\ max_threads \in Nat \ {0} /\ online_threads <= max_threads
         /\ Length \in Nat \ {0}
         /\ delta_x \in Nat \ {0} /\ UsefulParts * delta_x = Length
         /\ Step \in Nat \ {0} /\ Step <= delta_x
<1>1. /\ input_threads \in Nat \ {0} /\ online_threads \in Nat \ {0} /\ MaxThreads \in Nat
      /\ input_threads <= MaxThreads /\ online_threads <= MaxThreads
  BY IntegralAssumption DEF Asked
<1>2. /\ UsefulParts \in 1..MaxThreads /\ empty_threads \in Nat
      /\ online_threads = empty_threads + UsefulParts
      /\ max_threads \in Nat \ {0} /\ online_threads <= max_threads
  BY <1>1 DEF UsefulParts, empty_threads, max_threads
<1>3. (IF max_threads > online_threads THEN online_threads ELSE input_threads) = UsefulParts
  BY <1>1 DEF UsefulParts, empty_threads, max_threads
<1>4. delta_x = Length \div UsefulParts
  BY <1>3 DEF delta_x
<1>5. /\ Length \in Nat /\ Length % UsefulParts = 0 /\ UsefulParts \in Nat \ {0}
      /\ Step \in Nat \ {0} /\ Step <= Length \div UsefulParts
  BY <1>2, Constants
<1>6. Length # 0
  <2>1. SUFFICES ASSUME Length = 0 PROVE FALSE
    OBVIOUS
  <2>2. 0 \div UsefulParts = 0
    BY <1>5
  <2>3. QED
    BY <1>5, <2>1, <2>2
<1>7. Length \in Nat \ {0}
  BY <1>5, <1>6
<1>8. delta_x \in Nat \ {0} /\ UsefulParts * delta_x = Length
  BY <1>4, <1>5, <1>7, Divides
<1>9. QED
  BY <1>2, <1>4, <1>5, <1>7, <1>8

One(b) == IF b THEN 1 ELSE 0

(* What integral() stores for thread i. *)
Stored(i) ==
  [x \in X |-> One(InfoOf(i).x1 <= x /\ x < InfoOf(i).x2 /\ (x - InfoOf(i).x1) % Step = 0)]

(* A rectangle starts at x, in the division of the interval into parts. *)
Start(x) == (x % delta_x) % Step = 0

(* The sum of the threads before k: of the parts of u of them, and s spare *)
(* rectangles.                                                             *)
Joined(k) == IF k <= empty_threads THEN 0
             ELSE IF k <= online_threads THEN k - empty_threads ELSE UsefulParts
SpareJoined(k) == IF k <= online_threads THEN 0 ELSE k - online_threads

SumTo(k) ==
  [x \in X |-> One(x < Joined(k) * delta_x /\ Start(x)) + (IF x = 0 THEN SpareJoined(k) ELSE 0)]

LEMMA InDivision ==
  ASSUME NEW d \in Nat \ {0}, NEW q \in Nat, NEW x \in Nat, q * d <= x, x < (q + 1) * d
  PROVE  x % d = x - q * d
<1>1. q * d \in Nat /\ (q + 1) * d = q * d + d
  OBVIOUS
<1>2. x - q * d \in 0..d - 1
  BY <1>1
<1>3. (q * d + (x - q * d)) % d = x - q * d
  BY <1>2, Remainder
<1>4. q * d + (x - q * d) = x
  BY <1>1
<1>5. QED
  BY <1>3, <1>4

(* A thread that is joined adds its part, and nothing else. *)
LEMMA IntegralSumNext ==
  ASSUME Asked, NEW k \in 0..max_threads - 1, NEW x \in X
  PROVE  SumTo(k + 1)[x] = IF k >= empty_threads THEN SumTo(k)[x] + Stored(k)[x] ELSE SumTo(k)[x]
<1>1. /\ UsefulParts \in Nat \ {0} /\ empty_threads \in Nat /\ online_threads = empty_threads + UsefulParts
      /\ max_threads \in Nat \ {0} /\ online_threads <= max_threads
      /\ delta_x \in Nat \ {0} /\ UsefulParts * delta_x = Length
      /\ Step \in Nat \ {0} /\ Step <= delta_x
      /\ k \in Nat /\ x \in Nat /\ x < Length
  BY Division DEF X
<1>2. SumTo(k)[x] = One(x < Joined(k) * delta_x /\ Start(x)) + (IF x = 0 THEN SpareJoined(k) ELSE 0)
  BY DEF SumTo
<1>3. SumTo(k + 1)[x] = One(x < Joined(k + 1) * delta_x /\ Start(x))
                        + (IF x = 0 THEN SpareJoined(k + 1) ELSE 0)
  BY DEF SumTo
<1>4. Stored(k)[x] = One(InfoOf(k).x1 <= x /\ x < InfoOf(k).x2 /\ (x - InfoOf(k).x1) % Step = 0)
  BY DEF Stored
<1>5. CASE k < empty_threads
  <2>1. Joined(k) = 0 /\ Joined(k + 1) = 0 /\ SpareJoined(k) = 0 /\ SpareJoined(k + 1) = 0
    BY <1>1, <1>5 DEF Joined, SpareJoined
  <2>2. QED
    BY <1>1, <1>2, <1>3, <1>5, <2>1
<1>6. CASE empty_threads <= k /\ k < online_threads
  <2> DEFINE q == k - empty_threads
  <2>1. /\ q \in Nat /\ Joined(k) = q /\ Joined(k + 1) = q + 1
        /\ SpareJoined(k) = 0 /\ SpareJoined(k + 1) = 0
    BY <1>1, <1>6 DEF Joined, SpareJoined
  <2>2. InfoOf(k).x1 = q * delta_x /\ InfoOf(k).x2 = (q + 1) * delta_x
    BY <1>1, <1>6 DEF InfoOf, UsefulPart, Part
  <2> HIDE DEF q
  <2>3. q * delta_x \in Nat /\ (q + 1) * delta_x = q * delta_x + delta_x
    BY <1>1, <2>1
  <2>4. q * delta_x <= x /\ x < (q + 1) * delta_x => x % delta_x = x - q * delta_x
    BY <1>1, <2>1, InDivision
  <2>5. One(x < (q + 1) * delta_x /\ Start(x)) =
          One(x < q * delta_x /\ Start(x))
          + One(q * delta_x <= x /\ x < (q + 1) * delta_x /\ (x - q * delta_x) % Step = 0)
    <3>1. PICK b : b = q * delta_x
      OBVIOUS
    <3>2. CASE x < b
      BY <1>1, <2>3, <3>1, <3>2 DEF One
    <3>3. CASE b <= x /\ x < b + delta_x
      <4>1. Start(x) <=> (x - b) % Step = 0
        BY <2>3, <2>4, <3>1, <3>3 DEF Start
      <4>2. ~(x < b)
        BY <1>1, <2>3, <3>1, <3>3
      <4>3. QED
        BY <2>3, <3>1, <3>3, <4>1, <4>2 DEF One
    <3>4. CASE b + delta_x <= x
      BY <1>1, <2>3, <3>1, <3>4 DEF One
    <3>5. QED
      BY <1>1, <2>3, <3>1, <3>2, <3>3, <3>4
  <2>6. One(x < q * delta_x /\ Start(x)) \in Nat /\ Stored(k)[x] \in Nat
    BY <1>4 DEF One
  <2>7. k >= empty_threads
    BY <1>1, <1>6
  <2>8. QED
    BY <1>2, <1>3, <1>4, <2>1, <2>2, <2>5, <2>6, <2>7
<1>7. CASE online_threads <= k
  <2>1. /\ Joined(k) = UsefulParts /\ Joined(k + 1) = UsefulParts
        /\ SpareJoined(k) \in Nat /\ SpareJoined(k + 1) = SpareJoined(k) + 1
    BY <1>1, <1>7 DEF Joined, SpareJoined
  <2>2. InfoOf(k).x1 = 0 /\ InfoOf(k).x2 = Step
    BY <1>1, <1>7 DEF InfoOf, SparePart, Part
  <2>3. x < Step => x % Step = x
    BY <1>1
  <2>4. Stored(k)[x] = One(x = 0)
    <3>1. x - 0 = x /\ 0 <= x
      BY <1>1
    <3>2. 0 < Step /\ 0 % Step = 0
      BY <1>1
    <3>3. QED
      BY <1>1, <1>4, <2>2, <2>3, <3>1, <3>2 DEF One
  <2>5. One(x < UsefulParts * delta_x /\ Start(x)) \in Nat
    BY DEF One
  <2>6. k >= empty_threads
    BY <1>1, <1>7
  <2>7. QED
    BY <1>2, <1>3, <2>1, <2>4, <2>5, <2>6 DEF One
<1>8. QED
  BY <1>1, <1>5, <1>6, <1>7

-----------------------------------------------------------------------------
(* The division does not change; each stored sum is that of the thread's   *)
(* part; main has added those it has joined.                               *)
DividedInv ==
  /\ Asked
  /\ info = [i \in 0..(max_threads - 1) |-> InfoOf(i)]

IntegralThreads ==
  /\ thread \in [0..(max_threads - 1) -> {"none", "running", "ended", "joined"}]
  /\ thrsum \in [0..(max_threads - 1) -> [X -> 0..1]]
  /\ \A i \in 0..(max_threads - 1) : thread[i] = "ended" => thrsum[i] = Stored(i)

IntegralMain ==
  /\ main \in {"create", "join", "done", "failed"}
  /\ i_thread \in 0..(max_threads - 1)
  /\ main \in {"create", "failed"} => sum = SumTo(0)
  /\ main = "join" => sum = SumTo(i_thread)
  /\ main = "done" => sum = SumTo(max_threads)

IntegralInv == DividedInv /\ IntegralThreads /\ IntegralMain

LEMMA IntegralSumNone == ASSUME Asked PROVE SumTo(0) = Nothing
<1>1. 0 <= empty_threads /\ 0 <= online_threads /\ delta_x \in Nat
  BY Division
<1>2. Joined(0) = 0 /\ SpareJoined(0) = 0
  BY <1>1 DEF Joined, SpareJoined
<1>3. \A x \in X : ~ (x < 0 * delta_x)
  BY <1>1 DEF X
<1>4. QED
  BY <1>2, <1>3 DEF SumTo, Nothing, One

LEMMA IntegralInitInv == ASSUME IntegralInit PROVE IntegralInv
<1>1. DividedInv
  BY DEF IntegralInit, DividedInv, Asked
<1>2. Nothing \in [X -> 0..1]
  BY DEF Nothing
<1>3. IntegralThreads
  BY <1>2 DEF IntegralInit, IntegralThreads
<1>4. IntegralMain
  <2>1. Asked /\ 0 \in 0..(max_threads - 1)
    BY <1>1, Division DEF DividedInv
  <2>2. QED
    BY <2>1, IntegralSumNone DEF IntegralInit, IntegralMain
<1>5. QED
  BY <1>1, <1>3, <1>4 DEF IntegralInv

LEMMA DividedStep ==
  ASSUME DividedInv, [IntegralNext]_integral_vars
  PROVE  /\ DividedInv'
         /\ max_threads' = max_threads
         /\ \A i : Stored(i)' = Stored(i) /\ SumTo(i)' = SumTo(i)
<1>1. UNCHANGED <<input_threads, online_threads, info>>
  BY DEF IntegralNext, integral_vars, Create, CreateFails, Join, integral
<1>2. QED
  BY <1>1 DEF DividedInv, Asked, max_threads, Stored, SumTo, InfoOf, EmptyPart, UsefulPart,
              SparePart, Part, empty_threads, delta_x, Joined, SpareJoined, UsefulParts, Start

LEMMA IntegralThreadsStep ==
  ASSUME IntegralInv, [IntegralNext]_integral_vars
  PROVE  IntegralThreads'
<1>1. /\ DividedInv /\ IntegralThreads /\ IntegralMain /\ Asked
      /\ max_threads' = max_threads /\ \A i : Stored(i)' = Stored(i)
  BY DividedStep DEF IntegralInv, DividedInv
<1>2. CASE Create
  BY <1>1, <1>2 DEF Create, IntegralThreads
<1>3. CASE CreateFails
  BY <1>1, <1>3 DEF CreateFails, IntegralThreads
<1>4. CASE Join
  BY <1>1, <1>4 DEF Join, IntegralThreads
<1>5. ASSUME NEW i \in DOMAIN info, integral(i) PROVE IntegralThreads'
  <2>1. i \in 0..(max_threads - 1) /\ info[i] = InfoOf(i)
    BY <1>1 DEF DividedInv
  <2>2. thread' = [thread EXCEPT ![i] = "ended"] /\ thrsum' = [thrsum EXCEPT ![i] = Stored(i)]
    BY <1>5, <2>1 DEF integral, Stored, One
  <2>3. Stored(i) \in [X -> 0..1]
    BY DEF Stored, One
  <2>4. QED
    BY <1>1, <2>1, <2>2, <2>3 DEF IntegralThreads
<1>6. CASE UNCHANGED integral_vars
  BY <1>1, <1>6 DEF integral_vars, IntegralThreads
<1>7. QED
  BY <1>2, <1>3, <1>4, <1>5, <1>6 DEF IntegralNext

LEMMA IntegralMainStep ==
  ASSUME IntegralInv, [IntegralNext]_integral_vars
  PROVE  IntegralMain'
<1>1. /\ DividedInv /\ IntegralThreads /\ IntegralMain /\ Asked
      /\ max_threads' = max_threads /\ \A i : SumTo(i)' = SumTo(i)
      /\ max_threads \in Nat \ {0}
  BY DividedStep, Division DEF IntegralInv, DividedInv
<1>2. CASE Create
  <2>1. sum' = SumTo(0) /\ main = "create" /\ i_thread \in 0..(max_threads - 1)
    BY <1>1, <1>2 DEF Create, IntegralMain
  <2>2. CASE i_thread + 1 = max_threads
    BY <1>1, <1>2, <2>1, <2>2 DEF Create, Next_i, IntegralMain
  <2>3. CASE i_thread + 1 # max_threads
    BY <1>1, <1>2, <2>1, <2>3 DEF Create, Next_i, IntegralMain
  <2>4. QED
    BY <2>2, <2>3
<1>3. CASE CreateFails
  BY <1>1, <1>3 DEF CreateFails, IntegralMain
<1>4. CASE Join
  <2>1. /\ i_thread \in 0..(max_threads - 1) /\ main = "join" /\ sum = SumTo(i_thread)
        /\ thrsum[i_thread] = Stored(i_thread)
    BY <1>1, <1>4 DEF Join, IntegralMain, IntegralThreads
  <2>2. sum' = SumTo(i_thread + 1)
    <3>1. sum' = [x \in X |-> SumTo(i_thread + 1)[x]]
      <4>1. CASE i_thread >= empty_threads
        <5>1. sum' = [x \in X |-> SumTo(i_thread)[x] + Stored(i_thread)[x]]
          BY <1>4, <2>1, <4>1 DEF Join, Rectangles
        <5>2. QED
          BY <1>1, <2>1, <4>1, <5>1, IntegralSumNext
      <4>2. CASE ~ (i_thread >= empty_threads)
        <5>1. sum' = SumTo(i_thread) /\ sum' = [x \in X |-> SumTo(i_thread)[x]]
          BY <1>4, <2>1, <4>2 DEF Join, SumTo
        <5>2. QED
          BY <1>1, <2>1, <4>2, <5>1, IntegralSumNext
      <4>3. QED
        BY <4>1, <4>2
    <3>2. SumTo(i_thread + 1) = [x \in X |-> SumTo(i_thread + 1)[x]]
      BY DEF SumTo
    <3>3. QED
      BY <3>1, <3>2
  <2>3. CASE i_thread + 1 = max_threads
    BY <1>1, <1>4, <2>1, <2>2, <2>3 DEF Join, Next_i, IntegralMain
  <2>4. CASE i_thread + 1 # max_threads
    BY <1>1, <1>4, <2>1, <2>2, <2>4 DEF Join, Next_i, IntegralMain
  <2>5. QED
    BY <2>3, <2>4
<1>5. ASSUME NEW i \in DOMAIN info, integral(i) PROVE IntegralMain'
  BY <1>1, <1>5 DEF integral, IntegralMain
<1>6. CASE UNCHANGED integral_vars
  BY <1>1, <1>6 DEF integral_vars, IntegralMain
<1>7. QED
  BY <1>2, <1>3, <1>4, <1>5, <1>6 DEF IntegralNext

LEMMA IntegralInductive == IntegralSpec => []IntegralInv
<1>0. IntegralInit => IntegralInv
  BY IntegralInitInv
<1>1. IntegralInv /\ [IntegralNext]_integral_vars => IntegralInv'
  BY DividedStep, IntegralThreadsStep, IntegralMainStep DEF IntegralInv
<1>2. QED
  BY <1>0, <1>1, PTL DEF IntegralSpec

-----------------------------------------------------------------------------
(* Geometry of one pass. *)

(* The multiple of s at or below r, and the only one that is within s.     *)
IsLastMultiple(m, s, r) ==
  /\ m \in 0..r /\ m % s = 0 /\ r < m + s
  /\ \A a \in Nat : a % s = 0 /\ a <= r /\ r < a + s => a = m

LEMMA LastMultiple ==
  ASSUME NEW s \in Nat \ {0}, NEW r \in Nat
  PROVE  IsLastMultiple(r - (r % s), s, r)
<1>1. /\ r % s \in 0..s - 1 /\ r \div s \in Nat /\ r = (r \div s) * s + (r % s)
  OBVIOUS
<1>2. (r \div s) * s \in Nat /\ r - (r % s) = (r \div s) * s
  BY <1>1
<1>3. ((r \div s) * s + 0) % s = 0
  <2>1. 0 \in 0..s - 1
    OBVIOUS
  <2>2. QED
    BY <1>1, <2>1, Remainder
<1>4. ASSUME NEW a \in Nat, a % s = 0, a <= r, r < a + s PROVE a = r - (r % s)
  <2>1. a \div s \in Nat /\ a = (a \div s) * s
    BY <1>4
  <2>2. r - a \in 0..s - 1
    BY <1>4
  <2>3. ((a \div s) * s + (r - a)) % s = r - a
    BY <2>1, <2>2, Remainder
  <2>4. (a \div s) * s + (r - a) = r
    BY <2>1
  <2>5. QED
    BY <2>3, <2>4
<1>5. QED
  BY <1>1, <1>2, <1>3, <1>4 DEF IsLastMultiple

(* Own(x) is the start of the rectangle over x that is in the part of x.   *)
Own(x) == x - ((x % delta_x) % Step)

Starts(x) == {y \in X : Start(y) /\ y <= x /\ x < y + Step}

LEMMA StartsOver ==
  ASSUME Asked, NEW x \in X
  PROVE  \/ Starts(x) = {Own(x)}
         \/ x % delta_x < Step - 1 /\ \E b \in X : b # Own(x) /\ Starts(x) = {Own(x), b}
<1> DEFINE d == delta_x
           r == x % d
           q == x \div d
           b == (q * d - 1) - ((d - 1) % Step)
<1>1. d \in Nat \ {0} /\ Step \in Nat \ {0} /\ Step <= d /\ x \in Nat /\ x < Length
  BY Division DEF X
<1>2. q \in Nat /\ r \in 0..d - 1 /\ x = q * d + r /\ q * d \in Nat
  BY <1>1
<1> HIDE DEF d, r, q
<1>3. /\ r - (r % Step) \in 0..r /\ (r - (r % Step)) % Step = 0 /\ r < (r - (r % Step)) + Step
      /\ \A a \in Nat : a % Step = 0 /\ a <= r /\ r < a + Step => a = r - (r % Step)
  <2>1. Step \in Nat \ {0} /\ r \in Nat
    BY <1>1, <1>2
  <2>2. IsLastMultiple(r - (r % Step), Step, r)
    BY <2>1, LastMultiple
  <2>3. QED
    BY <2>2 DEF IsLastMultiple
<1>4. Own(x) = q * d + (r - (r % Step))
  BY <1>1, <1>2, <1>3 DEF Own, d, r
<1>5. Own(x) \in Starts(x)
  <2>1. PICK a : a = r - (r % Step)
    OBVIOUS
  <2>6. a \in 0..r /\ r < a + Step /\ a % Step = 0
    BY ONLY <1>3, <2>1
  <2>2. a \in 0..d - 1 /\ a <= r /\ r < a + Step /\ a % Step = 0
    BY ONLY <1>1, <1>2, <2>6
  <2>3. (q * d + a) % d = a
    BY <1>1, <1>2, <2>2, Remainder
  <2>4. q * d + a \in X /\ q * d + a <= x /\ x < (q * d + a) + Step
    <3>1. PICK m : m = q * d
      OBVIOUS
    <3>2. m \in Nat /\ x = m + r
      BY ONLY <1>2, <3>1
    <3>3. m + a \in 0..(Length - 1) /\ m + a <= x /\ x < (m + a) + Step
      <4>1. Length \in Int
        BY Division
      <4>2. QED
        BY ONLY <1>1, <1>2, <2>2, <3>2, <4>1
    <3>4. QED
      BY <3>1, <3>3 DEF X
  <2>5. QED
    BY <1>4, <2>1, <2>2, <2>3, <2>4 DEF Starts, Start, d
(* A start of another part is the last one of the part before. *)
<1>6. ASSUME NEW y \in Starts(x), y # Own(x)
      PROVE  y = b /\ r < Step - 1 /\ y \in X
  <2> DEFINE p == y \div d
             e == y % d
  <2>1. y \in X /\ e % Step = 0 /\ y <= x /\ x < y + Step /\ y \in Nat
    BY DEF Starts, Start, X, d
  <2>2. p \in Nat /\ e \in 0..d - 1 /\ y = p * d + e /\ p * d \in Nat
    BY <1>1, <2>1
  <2> HIDE DEF p, e
  <2>3. p <= q
    <3>1. SUFFICES ASSUME q + 1 <= p PROVE FALSE
      BY <1>2, <2>2
    <3>2. (q + 1) * d <= p * d
      BY <1>1, <1>2, <2>2, <3>1, TimesMonotone
    <3>3. (q + 1) * d = q * d + d
      BY <1>1, <1>2
    <3>4. QED
      BY <1>1, <1>2, <2>1, <2>2, <3>2, <3>3
  <2>4. p # q
    <3>1. SUFFICES ASSUME p = q PROVE FALSE
      OBVIOUS
    <3>2. e <= r /\ r < e + Step
      BY <1>1, <1>2, <2>1, <2>2, <3>1
    <3>3. e = r - (r % Step)
      BY <1>3, <2>1, <2>2, <3>2
    <3>4. QED
      BY <1>4, <1>6, <2>2, <3>1, <3>3
  <2>5. q - 1 <= p
    <3>1. SUFFICES ASSUME p + 2 <= q PROVE FALSE
      BY <1>2, <2>2
    <3>2. (p + 2) * d <= q * d
      BY <1>1, <1>2, <2>2, <3>1, TimesMonotone
    <3>3. (p + 2) * d = p * d + 2 * d
      BY <1>1, <2>2
    <3>4. QED
      BY <1>1, <1>2, <2>1, <2>2, <3>2, <3>3
  <2>6. p + 1 = q /\ q * d = p * d + d
    <3>1. p + 1 = q
      BY <1>2, <2>2, <2>3, <2>4, <2>5
    <3>2. (p + 1) * d = p * d + d
      BY <1>1, <2>2
    <3>3. QED
      BY <3>1, <3>2
  <2>7. d + r < e + Step
    BY <1>1, <1>2, <2>1, <2>2, <2>6
  <2>8. d - 1 \in Nat /\ e <= d - 1 /\ d - 1 < e + Step /\ r < Step - 1
    BY <1>1, <1>2, <2>2, <2>7
  <2>9. e = (d - 1) - ((d - 1) % Step)
    <3>1. PICK c : c = d - 1
      OBVIOUS
    <3>2. c \in Nat /\ e \in Nat /\ e % Step = 0 /\ e <= c /\ c < e + Step
      BY <2>1, <2>2, <2>8, <3>1
    <3>3. e = c - (c % Step)
      BY <1>1, <3>2, LastMultiple DEF IsLastMultiple
    <3>4. QED
      BY ONLY <3>1, <3>3
  <2>10. (d - 1) % Step \in Nat
    BY <1>1, <2>8
  <2>11. y = b
    BY <1>1, <1>2, <2>2, <2>6, <2>9, <2>10
  <2>12. QED
    BY <2>1, <2>8, <2>11
<1> HIDE DEF b
<1>7. CASE b \in Starts(x) /\ b # Own(x)
  <2>1. Starts(x) = {Own(x), b} /\ r < Step - 1 /\ b \in X
    BY <1>5, <1>6, <1>7
  <2>2. QED
    BY <1>7, <2>1 DEF r, d
<1>8. CASE ~ (b \in Starts(x) /\ b # Own(x))
  <2>1. Starts(x) = {Own(x)}
    BY <1>5, <1>6, <1>8
  <2>2. QED
    BY <2>1
<1>9. QED
  BY <1>7, <1>8

LEMMA IntegralSumAll ==
  ASSUME Asked, input_threads <= online_threads, sum = SumTo(max_threads)
  PROVE  sum = [x \in X |-> One(Start(x))]
<1>1. Joined(max_threads) * delta_x = Length /\ SpareJoined(max_threads) = 0
  <2>1. max_threads = online_threads
    BY IntegralAssumption DEF max_threads, Asked
  <2>2. QED
    BY <2>1, Division DEF Joined, SpareJoined
<1>2. ASSUME NEW x \in X PROVE SumTo(max_threads)[x] = One(Start(x))
  <2>1. x < Length
    BY Division DEF X
  <2>2. SumTo(max_threads)[x] = One(x < Joined(max_threads) * delta_x /\ Start(x)) + 0
    BY <1>1 DEF SumTo
  <2>3. x < Joined(max_threads) * delta_x /\ Start(x) <=> Start(x)
    BY <1>1, <2>1
  <2>4. QED
    BY <2>2, <2>3 DEF One
<1>3. SumTo(max_threads) = [x \in X |-> SumTo(max_threads)[x]]
  BY DEF SumTo
<1>4. QED
  BY <1>2, <1>3

LEMMA AllIsOnePass ==
  ASSUME Asked, input_threads <= online_threads, sum = SumTo(max_threads)
  PROVE  OnePass
<1> SUFFICES ASSUME NEW x \in X
             PROVE  /\ Cardinality(Over(x)) \in {1, 2}
                    /\ Cardinality(Over(x)) = 2 => x % delta_x < Step - 1
  BY DEF OnePass
<1>1. 1 \in 1..max_threads
  BY Division
<1>2. Over(x) = {<<y, 1>> : y \in Starts(x)}
  <2>1. \A y \in X, n \in 1..max_threads : n <= sum[y] <=> n = 1 /\ Start(y)
    BY IntegralSumAll, Division DEF One
  <2>2. QED
    BY <1>1, <2>1 DEF Over, Starts
<1>3. CASE Starts(x) = {Own(x)}
  <2>1. Over(x) = {<<Own(x), 1>>}
    BY <1>2, <1>3
  <2>2. Cardinality(Over(x)) = 1
    BY <2>1, SmallSets
  <2>3. QED
    BY <2>2
<1>4. ASSUME NEW b \in X, b # Own(x), Starts(x) = {Own(x), b}, x % delta_x < Step - 1
      PROVE  Cardinality(Over(x)) = 2
  <2>1. Over(x) = {<<Own(x), 1>>, <<b, 1>>} /\ <<Own(x), 1>> # <<b, 1>>
    BY <1>2, <1>4
  <2>2. QED
    BY <2>1, PairSet
<1>5. QED
  BY <1>3, <1>4, StartsOver

-----------------------------------------------------------------------------
(* The SUM that 4_sem/Integral prints is one pass over the interval, for      *)
(* every number of CPUs, as many threads or fewer and every step that is no  *)
(* longer than a part, in whatever order the threads run.                    *)
THEOREM IntegralSumIsWhole == IntegralSpec => []SumIsOnePassOnItsCPUs
<1>1. IntegralInv => SumIsOnePassOnItsCPUs
  BY AllIsOnePass DEF IntegralInv, DividedInv, IntegralMain, SumIsOnePassOnItsCPUs
<1>2. QED
  BY <1>1, IntegralInductive, PTL

(* All state keeps its type: parts lie in the interval, there is a CPU for   *)
(* each thread, and no rectangle is added more often than there are threads. *)
THEOREM IntegralTypeCorrect == IntegralSpec => []IntegralTypeOK
<1>1. IntegralInv => IntegralTypeOK
  <2> SUFFICES ASSUME IntegralInv PROVE IntegralTypeOK
    OBVIOUS
  <2>1. DividedInv /\ IntegralThreads /\ IntegralMain /\ Asked
    BY DEF IntegralInv, DividedInv
  <2>2. /\ DOMAIN info = 0..(max_threads - 1)
        /\ \A i \in DOMAIN info : info[i] = InfoOf(i)
    BY <2>1 DEF DividedInv
  <2>3. ASSUME NEW i \in 0..(max_threads - 1)
        PROVE  /\ InfoOf(i).x1 \in X /\ InfoOf(i).x2 \in 1..Length
               /\ InfoOf(i).num_thread \in 0..(online_threads - 1)
    <3>1. /\ UsefulParts \in Nat \ {0} /\ empty_threads \in Nat /\ online_threads = empty_threads + UsefulParts
          /\ max_threads \in Nat \ {0} /\ online_threads \in Nat \ {0}
          /\ delta_x \in Nat \ {0} /\ UsefulParts * delta_x = Length /\ Length \in Nat \ {0}
          /\ Step \in Nat \ {0} /\ Step <= delta_x /\ i \in Nat
      BY <2>1, Division
    <3>2. delta_x <= Length
      <4>1. 1 * delta_x <= UsefulParts * delta_x
        BY <3>1, TimesMonotone
      <4>2. QED
        BY <3>1, <4>1
    <3>3. CASE i < empty_threads
      BY <3>1, <3>2, <3>3 DEF InfoOf, EmptyPart, Part, X
    <3>4. CASE empty_threads <= i /\ i < online_threads
      <4> DEFINE q == i - empty_threads
      <4>1. q \in Nat /\ q + 1 <= UsefulParts
        BY <3>1, <3>4
      <4>2. /\ InfoOf(i).x1 = q * delta_x /\ InfoOf(i).x2 = (q + 1) * delta_x
            /\ InfoOf(i).num_thread = i
        BY <3>1, <3>4 DEF InfoOf, UsefulPart, Part
      <4> HIDE DEF q
      <4>3. (q + 1) * delta_x <= Length /\ (q + 1) * delta_x = q * delta_x + delta_x
            /\ q * delta_x \in Nat
        BY <3>1, <4>1, TimesMonotone
      <4>4. QED
        BY <3>1, <3>4, <4>2, <4>3 DEF X
    <3>5. CASE online_threads <= i
      BY <3>1, <3>2, <3>5 DEF InfoOf, SparePart, Part, X
    <3>6. QED
      BY <3>1, <3>3, <3>4, <3>5
  <2>4. ASSUME NEW k \in 0..max_threads PROVE SumTo(k) \in [X -> 0..max_threads]
    <3>1. /\ SpareJoined(k) \in Nat /\ SpareJoined(k) + 1 <= max_threads /\ max_threads \in Nat
      BY <2>1, Division DEF SpareJoined
    <3>2. \A b : One(b) \in {0, 1}
      BY DEF One
    <3>3. QED
      BY <3>1, <3>2 DEF SumTo
  <2>5. sum \in [X -> 0..max_threads]
    <3>1. max_threads \in Nat
      BY <2>1, Division
    <3>2. QED
      BY <2>1, <2>4, <3>1 DEF IntegralMain
  <2>6. QED
    BY <2>1, <2>2, <2>3, <2>5 DEF IntegralTypeOK, Asked, IntegralThreads, IntegralMain
<1>2. QED
  BY <1>1, IntegralInductive, PTL
=============================================================================
