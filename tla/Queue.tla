------------------------------- MODULE Queue --------------------------------
(***************************************************************************)
(* 3_sem/Queue: a process forks num_proc children, and each of them prints *)
(* the number it was created with.  The parent hands out the turn through  *)
(* a System V message queue: it sends a message of type i, on which child  *)
(* i waits, and waits for a message of type num_proc + 1.                  *)
(*                                                                         *)
(* The queue is found through a key made from the current directory, so it *)
(* outlives a run that is interrupted, and the next run started there      *)
(* finds it.  A queue is named by the run whose msgget() created it.  The  *)
(* messages are empty: only how many there are of each type matters.       *)
(* Each run has the num_proc of its own command line, so the type on which *)
(* one run waits for its answers may be the type of a turn of another.     *)
(***************************************************************************)
EXTENDS Naturals, Sequences, FiniteSets

CONSTANTS Runs,     \* the times the program is started
          MaxProc,  \* the largest num_proc of a run
          Faulty,   \* the runs in which fork() may fail
          MaxKills, \* at most this many signals end a process or a run
          NoId      \* "no identifier"

ASSUME QueueAssumption == /\ MaxProc \in Nat \ {0}
                          /\ NoId \notin Runs
                          /\ Faulty \subseteq Runs
                          /\ MaxKills \in Nat

VARIABLES
  num_proc, \* argv[1] of each run
  qKey,     \* the queue the key leads to, NoId when there is none
  msgs,     \* how many messages of each type that queue holds
  id,       \* what msgget() returned to each run; fork() copies it
  pc,       \* what the parent of each run does next
  i_proc,   \* its loop counter in create_procs()
  i,        \* its loop counter in main()
  child,    \* what each child of each run does next
  status,   \* "running", or how the parent ended
  printed,  \* what has been written to the stdout of each run
  kills     \* how many signals have been sent

vars == <<num_proc, qKey, msgs, id, pc, i_proc, i, child, status, printed, kills>>

Child(r) == 1..num_proc[r]
Ack(r)   == num_proc[r] + 1    \* the type of the children's answer
Type     == 1..MaxProc + 1

Init ==
  /\ num_proc \in [Runs -> 1..MaxProc]
  /\ qKey = NoId
  /\ msgs = [t \in Type |-> 0]
  /\ id = [r \in Runs |-> NoId]
  /\ pc = [r \in Runs |-> "create_msg"]
  /\ i_proc = [r \in Runs |-> 1]
  /\ i = [r \in Runs |-> 1]
  /\ child = [r \in Runs |-> [c \in 1..MaxProc |-> "none"]]
  /\ status = [r \in Runs |-> "running"]
  /\ printed = [r \in Runs |-> <<>>]
  /\ kills = 0

(* The queue r knows is still there. *)
Live(r) == id[r] # NoId /\ id[r] = qKey

End(r, how) ==
  /\ pc' = [pc EXCEPT ![r] = "done"]
  /\ status' = [status EXCEPT ![r] = how]

-----------------------------------------------------------------------------
(* The parent. *)

create_msg(r) ==
  /\ pc[r] = "create_msg"
  /\ IF qKey = NoId
       THEN /\ qKey' = r
            /\ msgs' = [t \in Type |-> 0]
            /\ id' = [id EXCEPT ![r] = r]
       ELSE /\ id' = [id EXCEPT ![r] = qKey]
            /\ UNCHANGED <<qKey, msgs>>
  /\ pc' = [pc EXCEPT ![r] = "fork"]
  /\ UNCHANGED <<num_proc, i_proc, i, child, status, printed, kills>>

(* One turn of create_procs(); after the last one main() begins to send.   *)
Fork(r) ==
  /\ pc[r] = "fork"
  /\ child' = [child EXCEPT ![r][i_proc[r]] = "msgrcv"]
  /\ i_proc' = [i_proc EXCEPT ![r] = @ + 1]
  /\ pc' = [pc EXCEPT ![r] = IF i_proc[r] < num_proc[r] THEN "fork" ELSE "msgsnd"]
  /\ UNCHANGED <<num_proc, qKey, msgs, id, i, status, printed, kills>>

(* create_procs() exits without removing the queue. *)
ForkError(r) ==
  /\ r \in Faulty
  /\ pc[r] = "fork"
  /\ End(r, "failure")
  /\ UNCHANGED <<num_proc, qKey, msgs, id, i_proc, i, child, printed, kills>>

(* A call on a queue that is gone: delete_msg() fails too and exits. *)
QueueGone(r) ==
  /\ pc[r] \in {"msgsnd", "msgrcv", "delete_msg"}
  /\ ~Live(r)
  /\ End(r, "failure")
  /\ UNCHANGED <<num_proc, qKey, msgs, id, i_proc, i, child, printed, kills>>

(* Mutant: the turn goes to everybody at once. *)
SendAll(r) ==
  /\ pc[r] = "msgsnd"
  /\ Live(r)
  /\ msgs' = [t \in Type |-> IF t \in Child(r) THEN msgs[t] + 1 ELSE msgs[t]]
  /\ pc' = [pc EXCEPT ![r] = "msgrcv"]
  /\ UNCHANGED <<num_proc, qKey, id, i_proc, i, child, status, printed, kills>>

Send(r) ==
  /\ pc[r] = "msgsnd"
  /\ Live(r)
  /\ msgs' = [msgs EXCEPT ![i[r]] = @ + 1]
  /\ pc' = [pc EXCEPT ![r] = "msgrcv"]
  /\ UNCHANGED <<num_proc, qKey, id, i_proc, i, child, status, printed, kills>>

(* Mutant: IPC_NOWAIT with its result ignored. *)
ReceiveNoWait(r) ==
  /\ pc[r] = "msgrcv"
  /\ Live(r)
  /\ msgs' = [msgs EXCEPT ![Ack(r)] = IF @ > 0 THEN @ - 1 ELSE 0]
  /\ i' = [i EXCEPT ![r] = @ + 1]
  /\ pc' = [pc EXCEPT ![r] = IF i[r] = num_proc[r] THEN "delete_msg" ELSE "msgsnd"]
  /\ UNCHANGED <<num_proc, qKey, id, i_proc, child, status, printed, kills>>

Receive(r) ==
  /\ pc[r] = "msgrcv"
  /\ Live(r)
  /\ msgs[Ack(r)] > 0
  /\ msgs' = [msgs EXCEPT ![Ack(r)] = @ - 1]
  /\ i' = [i EXCEPT ![r] = @ + 1]
  /\ pc' = [pc EXCEPT ![r] = IF i[r] = num_proc[r] THEN "delete_msg" ELSE "msgsnd"]
  /\ UNCHANGED <<num_proc, qKey, id, i_proc, child, status, printed, kills>>

delete_msg(r) ==
  /\ pc[r] = "delete_msg"
  /\ Live(r)
  /\ qKey' = NoId
  /\ End(r, "success")
  /\ UNCHANGED <<num_proc, msgs, id, i_proc, i, child, printed, kills>>

-----------------------------------------------------------------------------
(* The children. *)

ChildGoes(r, c, to) == child' = [child EXCEPT ![r][c] = to]

ChildReceive(r, c) ==
  /\ child[r][c] = "msgrcv"
  /\ Live(r)
  /\ msgs[c] > 0
  /\ msgs' = [msgs EXCEPT ![c] = @ - 1]
  /\ ChildGoes(r, c, "printf")
  /\ UNCHANGED <<num_proc, qKey, id, pc, i_proc, i, status, printed, kills>>

ChildPrint(r, c) ==
  /\ child[r][c] = "printf"
  /\ printed' = [printed EXCEPT ![r] = Append(@, c)]
  /\ ChildGoes(r, c, "msgsnd")
  /\ UNCHANGED <<num_proc, qKey, msgs, id, pc, i_proc, i, status, kills>>

(* Mutant: the answer is never sent. *)
ChildSendNothing(r, c) ==
  /\ child[r][c] = "msgsnd"
  /\ Live(r)
  /\ ChildGoes(r, c, "done")
  /\ UNCHANGED <<num_proc, qKey, msgs, id, pc, i_proc, i, status, printed, kills>>

ChildSend(r, c) ==
  /\ child[r][c] = "msgsnd"
  /\ Live(r)
  /\ msgs' = [msgs EXCEPT ![Ack(r)] = @ + 1]
  /\ ChildGoes(r, c, "done")
  /\ UNCHANGED <<num_proc, qKey, id, pc, i_proc, i, status, printed, kills>>

ChildQueueGone(r, c) ==
  /\ child[r][c] \in {"msgrcv", "msgsnd"}
  /\ ~Live(r)
  /\ ChildGoes(r, c, "done")
  /\ UNCHANGED <<num_proc, qKey, msgs, id, pc, i_proc, i, status, printed, kills>>

-----------------------------------------------------------------------------
(* Signals from outside. *)

KillParent(r) ==
  /\ kills < MaxKills
  /\ pc[r] \notin {"create_msg", "done"}
  /\ End(r, "killed")
  /\ kills' = kills + 1
  /\ UNCHANGED <<num_proc, qKey, msgs, id, i_proc, i, child, printed>>

KillChild(r, c) ==
  /\ kills < MaxKills
  /\ child[r][c] \notin {"none", "done"}
  /\ ChildGoes(r, c, "done")
  /\ kills' = kills + 1
  /\ UNCHANGED <<num_proc, qKey, msgs, id, pc, i_proc, i, status, printed>>

(* SIGINT from the terminal reaches the parent and all its children. *)
Interrupt(r) ==
  /\ kills < MaxKills
  /\ pc[r] \notin {"create_msg", "done"}
  /\ End(r, "killed")
  /\ child' = [child EXCEPT ![r] =
                 [c \in 1..MaxProc |-> IF @[c] = "none" THEN "none" ELSE "done"]]
  /\ kills' = kills + 1
  /\ UNCHANGED <<num_proc, qKey, msgs, id, i_proc, i, printed>>

-----------------------------------------------------------------------------
Parent(r) ==
  \/ create_msg(r) \/ Fork(r) \/ ForkError(r) \/ Send(r) \/ Receive(r)
  \/ delete_msg(r) \/ QueueGone(r)

ChildStep(r, c) ==
  ChildReceive(r, c) \/ ChildPrint(r, c) \/ ChildSend(r, c) \/ ChildQueueGone(r, c)

Signal(r) ==
  KillParent(r) \/ Interrupt(r) \/ \E c \in Child(r) : KillChild(r, c)

Next ==
  \E r \in Runs : Parent(r) \/ Signal(r) \/ \E c \in Child(r) : ChildStep(r, c)

Spec == Init /\ [][Next]_vars

(* The system runs every process that is not asleep in msgrcv(); nobody    *)
(* has to start the program.                                               *)
FairSpec ==
  /\ Spec
  /\ \A r \in Runs : WF_vars(pc[r] # "create_msg" /\ Parent(r))
  /\ \A r \in Runs, c \in 1..MaxProc : WF_vars(c \in Child(r) /\ ChildStep(r, c))

-----------------------------------------------------------------------------
(* Properties. *)

TypeOK ==
  /\ num_proc \in [Runs -> 1..MaxProc]
  /\ qKey \in Runs \cup {NoId}
  /\ msgs \in [Type -> Nat]
  /\ id \in [Runs -> Runs \cup {NoId}]
  /\ pc \in [Runs -> {"create_msg", "fork", "msgsnd", "msgrcv", "delete_msg", "done"}]
  /\ i_proc \in [Runs -> 1..MaxProc + 1]
  /\ i \in [Runs -> 1..MaxProc + 1]
  /\ child \in [Runs -> [1..MaxProc -> {"none", "msgrcv", "printf", "msgsnd", "done"}]]
  /\ status \in [Runs -> {"running", "success", "failure", "killed"}]
  /\ printed \in [Runs -> Seq(1..MaxProc)]
  /\ kills \in 0..MaxKills

(* No other run has been started in the directory. *)
Alone(r) == \A s \in Runs \ {r} : pc[s] = "create_msg"

(* README.md 3-4: the numbers appear in the order of creation, without a   *)
(* gap or a repetition, whichever process is killed, as long as the run    *)
(* has the queue to itself.                                                *)
PrintedInOrder ==
  \A r \in Runs : Alone(r) => \A k \in 1..Len(printed[r]) : printed[r][k] = k

(* A run that had the queue to itself and exits with 0 has printed every   *)
(* number.                                                                 *)
SuccessMeansAllPrinted ==
  \A r \in Runs :
    Alone(r) /\ status[r] = "success" => printed[r] = [c \in Child(r) |-> c]

HasPrinted(r, c) == \E k \in DOMAIN printed[r] : printed[r][k] = c

(* The messages of a type that have left the queue: the answers the        *)
(* parents have taken, and the turns the children have taken.              *)
Answers(t) == {a \in Runs \X (1..MaxProc) : Ack(a[1]) = t /\ a[2] < i[a[1]]}
Turns(t) == {r \in Runs : t \in Child(r) /\ (child[r][t] = "printf" \/ HasPrinted(r, t))}
Queued(t) == IF qKey = NoId THEN 0 ELSE msgs[t]

(* What such a message can come from: the children that have printed and   *)
(* answer with this type, and the parents that have come past the          *)
(* msgsnd() of this turn, or ended in it.                                  *)
Printed(t) == {a \in Runs \X (1..MaxProc) : Ack(a[1]) = t /\ HasPrinted(a[1], a[2])}
Given(t) ==
  {r \in Runs : /\ t \in Child(r)
                /\ t <= i[r]
                /\ t = i[r] => pc[r] \notin {"create_msg", "fork", "msgsnd"}}

(* Even when several runs share one queue and signals leave messages in    *)
(* it, nobody goes on for nothing: of each type, the answers and the turns *)
(* taken and the messages still queued never outnumber the lines printed   *)
(* by the children that answer with that type and the turns of that type   *)
(* given.  The types of two runs with different num_proc overlap           *)
(* (main.c:7, 33, 55): a parent may then take a turn of a longer run for   *)
(* the answer of its own child, which the law allows.                      *)
AnswersBacked ==
  \A t \in Type :
    Cardinality(Answers(t)) + Cardinality(Turns(t)) + Queued(t)
      <= Cardinality(Printed(t)) + Cardinality(Given(t))

(* A run, once started, in which nothing is killed and no fork() fails     *)
(* prints everything, removes its queue, returns 0 and leaves no child     *)
(* behind, unless another is started beside it.                            *)
Completes ==
  \A r \in Runs :
    pc[r] = "fork" ~> \/ /\ status[r] = "success"
                         /\ \A c \in Child(r) : child[r][c] = "done"
                         /\ qKey = NoId
                      \/ kills > 0 \/ status[r] = "failure" \/ ~ Alone(r)
=============================================================================
