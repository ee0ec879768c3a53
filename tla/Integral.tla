------------------------------ MODULE Integral -------------------------------
(***************************************************************************)
(* 4_sem/Integral: threads add up rectangles under a function.             *)
(* integral_info_construct divides the interval between as many useful     *)
(* threads as were asked for, and gives every other CPU an empty thread    *)
(* that is busy with a copy of the first part, so that all CPUs run at the *)
(* same frequency; main creates the threads, joins them and adds their     *)
(* sums.                                                                   *)
(*                                                                         *)
(* Arithmetic is exact, on the grid 0..Length that contains the borders of *)
(* all parts.  A rectangle is the x it starts from, a sum tells how often  *)
(* it contains each rectangle.                                             *)
(***************************************************************************)
EXTENDS Integers, FiniteSets

CONSTANTS MaxThreads,     \* most threads asked for, and most CPUs
          Length,         \* x2 - x1; x1 is the origin
          Step,           \* the width of a rectangle
          CreateMayFail   \* whether pthread_create() may fail

(* The borders of all parts are on the grid, and a part is no shorter than *)
(* a step: X2 - X1 is 17, and STEP_X is 10^-7.                             *)
ASSUME IntegralAssumption ==
  /\ MaxThreads \in Nat \ {0}
  /\ Length \in Nat /\ \A n \in 1..MaxThreads : Length % n = 0
  /\ Step \in Nat \ {0} /\ \A n \in 1..MaxThreads : Step <= Length \div n
  /\ CreateMayFail \in BOOLEAN

VARIABLES
  input_threads,   \* the argument
  online_threads,  \* CPUs
  info,            \* buf_info_thread: the part of each thread and its CPU
  thread,          \* "none", "running", "ended" or "joined"
  thrsum,          \* the sum each thread has stored in its thread_info
  i_thread,        \* the loops of main
  main,            \* "create", "join", "done", or "failed"
  sum

integral_vars == <<input_threads, online_threads, info, thread, thrsum, i_thread, main, sum>>

X == 0..(Length - 1)
Nothing == [x \in X |-> 0]

-----------------------------------------------------------------------------
(* integral_info_construct *)

empty_threads ==
  IF input_threads >= online_threads THEN 0 ELSE online_threads - input_threads

max_threads ==
  IF input_threads >= online_threads THEN input_threads ELSE online_threads

delta_x ==
  Length \div (IF max_threads > online_threads THEN online_threads ELSE input_threads)

Part(from, to, cpu) == [x1 |-> from, x2 |-> to, num_thread |-> cpu]

EmptyPart(i) == Part(0, delta_x, i)

UsefulPart(i) ==
  LET i_onl == i - empty_threads
  IN  Part(i_onl * delta_x, (i_onl + 1) * delta_x, i)

(* More threads than CPUs: one rectangle for each that is too many. *)
SparePart(i) == Part(0, Step, i % online_threads)

InfoOf(i) ==
  IF i < empty_threads THEN EmptyPart(i)
  ELSE IF i < online_threads THEN UsefulPart(i)
  ELSE SparePart(i)

IntegralInit ==
  /\ input_threads \in 1..MaxThreads
  /\ online_threads \in 1..MaxThreads
  /\ info = [i \in 0..(max_threads - 1) |-> InfoOf(i)]
  /\ thread = [i \in 0..(max_threads - 1) |-> "none"]
  /\ thrsum = [i \in 0..(max_threads - 1) |-> Nothing]
  /\ i_thread = 0
  /\ main = "create"
  /\ sum = Nothing

-----------------------------------------------------------------------------
(* main *)

Next_i(n, next) ==
  /\ i_thread' = IF i_thread + 1 = n THEN 0 ELSE i_thread + 1
  /\ main' = IF i_thread + 1 = n THEN next ELSE main

Create ==
  /\ main = "create"
  /\ thread' = [thread EXCEPT ![i_thread] = "running"]
  /\ Next_i(max_threads, "join")
  /\ UNCHANGED <<input_threads, online_threads, info, thrsum, sum>>

CreateFails ==
  /\ CreateMayFail
  /\ main = "create"
  /\ main' = "failed"
  /\ UNCHANGED <<input_threads, online_threads, info, thread, thrsum, i_thread, sum>>

Rectangles(s, i) == [x \in X |-> s[x] + thrsum[i][x]]

(* Mutant: the sum is read before its thread is joined. *)
JoinLate ==
  /\ main = "join"
  /\ thread' = [thread EXCEPT ![i_thread] = "joined"]
  /\ sum' = IF i_thread >= empty_threads THEN Rectangles(sum, i_thread) ELSE sum
  /\ Next_i(max_threads, "done")
  /\ UNCHANGED <<input_threads, online_threads, info, thrsum>>

Join ==
  /\ main = "join"
  /\ thread[i_thread] = "ended"
  /\ thread' = [thread EXCEPT ![i_thread] = "joined"]
  /\ sum' = IF i_thread >= empty_threads THEN Rectangles(sum, i_thread) ELSE sum
  /\ Next_i(max_threads, "done")
  /\ UNCHANGED <<input_threads, online_threads, info, thrsum>>

(* integral(): the last rectangle may stick out of the part. *)
integral(i) ==
  /\ main # "failed"
  /\ thread[i] = "running"
  /\ thread' = [thread EXCEPT ![i] = "ended"]
  /\ thrsum' = [thrsum EXCEPT ![i] =
       [x \in X |-> IF /\ info[i].x1 <= x /\ x < info[i].x2
                       /\ (x - info[i].x1) % Step = 0 THEN 1 ELSE 0]]
  /\ UNCHANGED <<input_threads, online_threads, info, i_thread, main, sum>>

IntegralNext ==
  \/ Create \/ CreateFails \/ Join
  \/ \E i \in DOMAIN info : integral(i)

IntegralSpec == IntegralInit /\ [][IntegralNext]_integral_vars

-----------------------------------------------------------------------------
(* Properties. *)

IntegralTypeOK ==
  /\ input_threads \in 1..MaxThreads
  /\ online_threads \in 1..MaxThreads
  /\ DOMAIN info = 0..(max_threads - 1)
  /\ \A i \in DOMAIN info :
       /\ info[i].x1 \in X /\ info[i].x2 \in 1..Length
       /\ info[i].num_thread \in 0..(online_threads - 1)
  /\ thread \in [DOMAIN info -> {"none", "running", "ended", "joined"}]
  /\ thrsum \in [DOMAIN info -> [X -> 0..1]]
  /\ i_thread \in 0..(max_threads - 1)
  /\ main \in {"create", "join", "done", "failed"}
  /\ sum \in [X -> 0..max_threads]

(* The sum's rectangles over the unit of the grid from x, told apart by a  *)
(* number.                                                                 *)
Over(x) == {r \in X \X (1..max_threads) :
              r[2] <= sum[r[1]] /\ r[1] <= x /\ x < r[1] + Step}

(* The whole interval is under rectangles, and none of it under two but at *)
(* the ends of the parts, where the last rectangle of a part may stick out *)
(* into the next one.                                                      *)
OnePass ==
  \A x \in X : /\ Cardinality(Over(x)) \in {1, 2}
               /\ Cardinality(Over(x)) = 2 => x % delta_x < Step - 1

(* The printed SUM is one pass over the interval, however many threads are *)
(* asked for: "include empty, but do not take into account their amount".  *)
(* It is not when they are more than the CPUs: pthread.c calls the threads *)
(* behind the CPUs empty too, but main() adds the rectangle of each.       *)
SumIsOnePass == main = "done" => OnePass

(* With no more threads than CPUs the printed SUM is one pass, however the *)
(* threads run: the parts that the empty threads work on in the meantime   *)
(* are not added, and every useful thread's sum is there when it is added. *)
SumIsOnePassOnItsCPUs == main = "done" /\ input_threads <= online_threads => OnePass
=============================================================================
