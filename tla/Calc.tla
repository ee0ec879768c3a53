-------------------------------- MODULE Calc --------------------------------
(***************************************************************************)
(* 4_sem/Network, calc.c and pthread.c: how a worker computes its task.    *)
(* Integrate() divides the interval between n_threads threads, creates     *)
(* more of them when there are more processors, so that none is idle, pins *)
(* each to a processor, joins the first n_threads and adds their results.  *)
(* It frees what all of them use and returns; the worker then sends the    *)
(* result and exits, which ends the threads that nobody joined.            *)
(*                                                                         *)
(* Numbers are exact.  The unit of length is one that divides each         *)
(* thread's part; a step of the rule has Step of them, which need not      *)
(* divide a part.  A result tells how often f was added at each point, in  *)
(* halves of a step.                                                       *)
(***************************************************************************)
EXTENDS Naturals, Sequences, FiniteSets, FiniteSetsExt

CONSTANTS MaxThreads,  \* most threads that are asked for
          CPUInfos,    \* the sequences of core ids that /proc/cpuinfo may have
          Length,      \* the units from begin to end
          Step,        \* the units of a step
          Faulty       \* whether calls may fail

ASSUME CalcAssumption ==
  /\ MaxThreads \in Nat
  /\ CPUInfos \subseteq Seq(Nat)
  /\ Length \in Nat \ {0} /\ \A n \in 1..MaxThreads : Length % n = 0
  /\ Step \in Nat \ {0}
  /\ Faulty \in BOOLEAN

VARIABLES
  n_threads,  \* the argument
  core_ids,   \* the core of each processor, in their order
  main,       \* the next step of Integrate()
  i_thread,   \* its loops over the threads
  infosp,     \* the part of each thread
  memory,     \* whether infosp is "none", "allocated" or "freed"
  attr,       \* the processor each thread is pinned to
  thread,     \* "none", "created", "running", "ended"
  stored,     \* the res in infosp of each thread
  touched,    \* the threads that have used infosp after it was freed
  res,        \* the sum of the results
  error       \* what Integrate() returns

vars == <<n_threads, core_ids, main, i_thread, infosp, memory, attr, thread,
          stored, touched, res, error>>

(* A step that begins before the end may end behind it. *)
Point == 0..Length + Step
Nothing == [x \in Point |-> 0]

-----------------------------------------------------------------------------
(* CalcIntegral().  Its loop has a turn for every x = begin + k * step      *)
(* before the end.  f1 and f2 are the points of turn k: the first two are   *)
(* begin and begin + step; then f1 takes the old f2, and f2 is taken at x,  *)
(* not at x + step.                                                         *)

Turns(part) == (part.end - part.begin + Step - 1) \div Step
f2(part, k) == part.begin + (IF k = 0 THEN 1 ELSE k) * Step
f1(part, k) == IF k = 0 THEN part.begin ELSE f2(part, k - 1)

CalcIntegral(part) ==
  [x \in Point |-> Cardinality({k \in 0..Turns(part) - 1 : f1(part, k) = x})
                   + Cardinality({k \in 0..Turns(part) - 1 : f2(part, k) = x})]

-----------------------------------------------------------------------------
(* get_mycpu_info(): the cpus, each with its processors, and their number.  *)
(* get_nprocs() counts the same processors; where /proc/cpuinfo names no    *)
(* cores it still counts one.                                               *)

n_core_ids == Len(core_ids)
get_nprocs == IF n_core_ids = 0 THEN 1 ELSE n_core_ids
core(i) == core_ids[i + 1]

(* Whether core_ids[i] is among those before it. *)
find_in_array(i) == \E j \in 0..i - 1 : core(j) = core(i)

NoCPUs == [cpus |-> [c \in 0..n_core_ids - 1 |-> <<>>], n_cpu |-> 0]

(* A core that is new gets the next element; a processor of a core that is  *)
(* not is added to the element that has the core's id for its index.        *)
AddProcessor(info, i) ==
  IF find_in_array(i)
    THEN [info EXCEPT !.cpus[core(i)] = Append(@, i)]
    ELSE [cpus  |-> [info.cpus EXCEPT ![info.n_cpu] = <<i>>],
          n_cpu |-> info.n_cpu + 1]

get_mycpu_info ==
  LET upto[i \in 0..n_core_ids] ==
        IF i = 0 THEN NoCPUs ELSE AddProcessor(upto[i - 1], i - 1)
  IN  upto[n_core_ids]

(* An element behind the end of cpus is written. *)
TableOverrun == \E i \in 0..n_core_ids - 1 : find_in_array(i) /\ core(i) >= n_core_ids

(* set_attrs() *)
num_cpu(i) == i % get_mycpu_info.n_cpu

(* Mutant: the cores are filled one after the other. *)
PinnedInOrder(i) ==
  LET processors == get_mycpu_info.cpus[num_cpu(i)]
  IN  processors[(i % Len(processors)) + 1]

processor(i) ==
  LET processors == get_mycpu_info.cpus[num_cpu(i)]
  IN  processors[((i \div get_mycpu_info.n_cpu) % Len(processors)) + 1]

-----------------------------------------------------------------------------
(* fill_thread_info() *)

n_thread_create == IF n_threads > get_nprocs THEN n_threads ELSE get_nprocs
interval == Length \div n_threads

(* Mutant: the threads that work not for the result come first. *)
SpareFirst(i) ==
  LET n == IF i < n_thread_create - n_threads THEN 0 ELSE i - (n_thread_create - n_threads)
  IN  [begin |-> n * interval, end |-> (n + 1) * interval]

(* Threads from n_threads on do the first part again. *)
PartOf(i) ==
  LET n == IF i < n_threads THEN i ELSE 0
  IN  [begin |-> n * interval, end |-> (n + 1) * interval]

Useful == 0..n_threads - 1

-----------------------------------------------------------------------------
Init ==
  /\ n_threads \in 0..MaxThreads
  /\ core_ids \in CPUInfos
  /\ main = "prepare"
  /\ i_thread = 0
  /\ infosp = [i \in {} |-> 0]
  /\ memory = "none"
  /\ attr = [i \in {} |-> 0]
  /\ thread = [i \in {} |-> "none"]
  /\ stored = [i \in {} |-> Nothing]
  /\ touched = {}
  /\ res = Nothing
  /\ error = "SUCCESS"

Return(how) ==
  /\ main' = "return"
  /\ error' = how

(* n_threads is 0, or an allocation or an attribute fails. *)
Refuse ==
  /\ main = "prepare"
  /\ \/ n_threads = 0 /\ Return("E_INVAL")
     \/ n_threads # 0 /\ Faulty /\ Return("E_MEM")
     \/ n_threads # 0 /\ Faulty /\ ~TableOverrun /\ Return("E_THREAD")
  /\ UNCHANGED <<n_threads, core_ids, i_thread, infosp, memory, attr, thread, stored, touched, res>>

(* A write behind the table, or i % 0 in set_attrs(). *)
Crash ==
  /\ main = "prepare"
  /\ n_threads # 0
  /\ TableOverrun \/ n_core_ids = 0
  /\ main' = "crashed"
  /\ UNCHANGED <<n_threads, core_ids, i_thread, infosp, memory, attr, thread, stored, touched, res, error>>

(* Everything before the first pthread_create(). *)
Prepare ==
  /\ main = "prepare"
  /\ n_threads # 0
  /\ ~TableOverrun /\ n_core_ids # 0
  /\ infosp' = [i \in 0..n_thread_create - 1 |-> PartOf(i)]
  /\ memory' = "allocated"
  /\ attr' = [i \in 0..n_thread_create - 1 |-> processor(i)]
  /\ thread' = [i \in 0..n_thread_create - 1 |-> "none"]
  /\ stored' = [i \in 0..n_thread_create - 1 |-> Nothing]
  /\ main' = "create"
  /\ UNCHANGED <<n_threads, core_ids, i_thread, touched, res, error>>

Create ==
  /\ main = "create"
  /\ thread' = [thread EXCEPT ![i_thread] = "created"]
  /\ IF i_thread + 1 < n_thread_create
       THEN i_thread' = i_thread + 1 /\ UNCHANGED main
       ELSE i_thread' = 0 /\ main' = "join"
  /\ UNCHANGED <<n_threads, core_ids, infosp, memory, attr, stored, touched, res, error>>

(* pthread_create() fails: the threads created before are left alone. *)
CreateFails ==
  /\ Faulty
  /\ main = "create"
  /\ main' = "free"
  /\ error' = "E_THREAD"
  /\ UNCHANGED <<n_threads, core_ids, i_thread, infosp, memory, attr, thread, stored, touched, res>>

(* Mutant: the last of the n_threads is not waited for. *)
JoinButLast ==
  /\ main = "join"
  /\ thread[i_thread] = "ended" \/ i_thread + 1 = n_threads
  /\ res' = [x \in Point |-> res[x] + stored[i_thread][x]]
  /\ i_thread' = i_thread + 1
  /\ main' = IF i_thread + 1 < n_threads THEN "join" ELSE "free"
  /\ UNCHANGED <<n_threads, core_ids, infosp, memory, attr, thread, stored, touched, error>>

(* pthread_join() and the addition of what the thread has stored. *)
Join ==
  /\ main = "join"
  /\ thread[i_thread] = "ended"
  /\ res' = [x \in Point |-> res[x] + stored[i_thread][x]]
  /\ i_thread' = i_thread + 1
  /\ main' = IF i_thread + 1 < n_threads THEN "join" ELSE "free"
  /\ UNCHANGED <<n_threads, core_ids, infosp, memory, attr, thread, stored, touched, error>>

(* exit_all and the labels after it. *)
Free ==
  /\ main = "free"
  /\ memory' = "freed"
  /\ main' = "return"
  /\ UNCHANGED <<n_threads, core_ids, i_thread, infosp, attr, thread, stored, touched, res, error>>

(* do_computation() sends res or an error, and the process ends. *)
Exit ==
  /\ main = "return"
  /\ main' = "exited"
  /\ UNCHANGED <<n_threads, core_ids, i_thread, infosp, memory, attr, thread, stored, touched, res, error>>

-----------------------------------------------------------------------------
(* start_routine() *)

Running == main \notin {"exited", "crashed"}

Touch(i) == touched' = IF memory = "freed" THEN touched \cup {i} ELSE touched

(* It reads its part ... *)
Begin(i) ==
  /\ Running
  /\ thread[i] = "created"
  /\ thread' = [thread EXCEPT ![i] = "running"]
  /\ Touch(i)
  /\ UNCHANGED <<n_threads, core_ids, main, i_thread, infosp, memory, attr, stored, res, error>>

(* ... and stores what it has computed from it. *)
End(i) ==
  /\ Running
  /\ thread[i] = "running"
  /\ thread' = [thread EXCEPT ![i] = "ended"]
  /\ stored' = [stored EXCEPT ![i] = CalcIntegral(infosp[i])]
  /\ Touch(i)
  /\ UNCHANGED <<n_threads, core_ids, main, i_thread, infosp, memory, attr, res, error>>

Integrate == Refuse \/ Crash \/ Prepare \/ Create \/ CreateFails \/ Join \/ Free \/ Exit

Thread(i) == Begin(i) \/ End(i)

Next == Integrate \/ \E i \in DOMAIN thread : Thread(i)

Spec == Init /\ [][Next]_vars

-----------------------------------------------------------------------------
(* Properties. *)

TypeOK ==
  /\ n_threads \in 0..MaxThreads
  /\ core_ids \in CPUInfos
  /\ main \in {"prepare", "create", "join", "free", "return", "exited", "crashed"}
  /\ i_thread \in 0..MaxThreads \cup 0..get_nprocs
  /\ memory \in {"none", "allocated", "freed"}
  /\ DOMAIN thread \in {{}, 0..n_thread_create - 1}
  /\ DOMAIN infosp = DOMAIN thread /\ DOMAIN stored = DOMAIN thread /\ DOMAIN attr = DOMAIN thread
  /\ \A i \in DOMAIN thread :
       /\ thread[i] \in {"none", "created", "running", "ended"}
       /\ infosp[i].begin \in Point /\ infosp[i].end \in Point
       /\ stored[i] \in [Point -> 0..4]
       /\ attr[i] \in 0..n_core_ids - 1
  /\ touched \subseteq DOMAIN thread
  /\ res \in [Point -> Nat]
  /\ error \in {"SUCCESS", "E_INVAL", "E_MEM", "E_THREAD"}

Done == main \in {"return", "exited"} /\ error = "SUCCESS"

(* Where the steps of part i begin, and those of them that are added with   *)
(* both their ends: all but the last, or the only one.                      *)
Begins(i) == {x \in i * interval..(i + 1) * interval - 1 : (x - i * interval) % Step = 0}
Added(i) == {x \in Begins(i) : x = i * interval \/ x + Step \in Begins(i)}

(* A part of more steps has, in the place of its last one, f at the end of  *)
(* its first step twice.                                                    *)
Instead(i) == Begins(i) \cap {i * interval + Step}

(* What every part that counts makes, each of them once. *)
Expected(x) ==
  Cardinality({i \in Useful : x \in Added(i)})
  + Cardinality({i \in Useful : x - Step \in Added(i)})
  + 2 * Cardinality({i \in Useful : x \in Instead(i)})

(* What Integrate() returns with success is the sum of n_threads equal      *)
(* parts, each of them once, whatever the number of threads, of processors  *)
(* and of spare threads and however they run.  In a part it is not the      *)
(* trapezoid rule: the last step is left out, and f at the end of the first *)
(* one is added instead (calc.c:25 takes f2 at x, one step too early), for  *)
(* a whole step even where the last one ends behind the part.               *)
EveryPartOnce == Done => \A x \in Point : res[x] = Expected(x)

(* Memory that was freed is used only by threads whose results do not count *)
(* or after a failed pthread_create(): a thread that counts has stored its  *)
(* res before.                                                              *)
FreedOnlyUnderSpare == error = "SUCCESS" => touched \cap Useful = {}

(* The ids of the cores are 0, 1, 2, ... in the order they first appear. *)
Dense == \A i \in 0..n_core_ids - 1 :
           core(i) = Cardinality({core(j) : j \in 0..i - 1} \ {core(i)})
                     \/ \E j \in 0..i - 1 : core(j) = core(i)

(* All cores have as many processors. *)
Even == \A i, j \in 0..n_core_ids - 1 :
          Cardinality({k \in 0..n_core_ids - 1 : core(k) = core(i)})
            = Cardinality({k \in 0..n_core_ids - 1 : core(k) = core(j)})

(* Where the cores have the ids 0, 1, 2, ... and the same number of         *)
(* processors, no processor is idle, and the threads that count are spread  *)
(* over the cores before two of them share one.                             *)
Spread ==
  main = "create" /\ Dense /\ Even =>
    /\ {attr[i] : i \in DOMAIN attr} = 0..n_core_ids - 1
    /\ \A i, j \in Useful : i # j /\ core(attr[i]) = core(attr[j]) =>
                              n_threads > Cardinality({core(k) : k \in 0..n_core_ids - 1})
=============================================================================
