---------------------------- MODULE QueueProofs -----------------------------
(***************************************************************************)
(* A run that has the queue to itself prints in order and succeeds only    *)
(* when everything is printed, for every number of children, wherever it   *)
(* is killed or fork() fails, and whatever number of runs may follow it.   *)
(* Runs that share the queue advance only on answers that were given.      *)
(***************************************************************************)
EXTENDS Queue, FiniteSetTheorems, TLAPS

(* The loop counters stay below their bounds while the loops go on. *)
TypeInv ==
  /\ TypeOK
  /\ \A r \in Runs :
       /\ pc[r] \in {"create_msg", "fork"} => i_proc[r] \in Child(r)
       /\ pc[r] \in {"create_msg", "fork", "msgsnd", "msgrcv"} => i[r] \in Child(r)

LEMMA TypeInit == Init => TypeInv
BY QueueAssumption DEF Init, TypeInv, TypeOK, Child, Type, Ack

LEMMA Bounds ==
  ASSUME num_proc \in [Runs -> 1..MaxProc]
  PROVE  /\ MaxKills \in Nat /\ 1..MaxProc \subseteq Type
         /\ 1..MaxProc \subseteq 1..MaxProc + 1 /\ 1..MaxProc \subseteq Nat
         /\ \A r \in Runs :
              /\ Child(r) \subseteq 1..MaxProc
              /\ Ack(r) \in Type /\ Ack(r) \notin Child(r)
              /\ \A c \in Child(r) : /\ c + 1 \in 1..MaxProc + 1
                                     /\ c # num_proc[r] => c + 1 \in Child(r)
                                     /\ ~ (c < num_proc[r]) => c = num_proc[r]
              /\ 1 \in Child(r) /\ num_proc[r] \in Child(r)
              /\ num_proc[r] + 1 \notin Child(r)
<1>1. MaxKills \in Nat /\ 1..MaxProc \subseteq Type
      /\ 1..MaxProc \subseteq 1..MaxProc + 1 /\ 1..MaxProc \subseteq Nat
  BY QueueAssumption DEF Type
<1>2. ASSUME NEW r \in Runs
      PROVE  /\ Child(r) \subseteq 1..MaxProc
             /\ Ack(r) \in Type /\ Ack(r) \notin Child(r)
             /\ \A c \in Child(r) : /\ c + 1 \in 1..MaxProc + 1
                                    /\ c # num_proc[r] => c + 1 \in Child(r)
                                    /\ ~ (c < num_proc[r]) => c = num_proc[r]
             /\ 1 \in Child(r) /\ num_proc[r] \in Child(r)
             /\ num_proc[r] + 1 \notin Child(r)
  BY QueueAssumption DEF Child, Ack, Type
<1>3. QED
  BY <1>1, <1>2

(* The command line of a run is its own for as long as it lasts. *)
LEMMA Fixed ==
  ASSUME [Next]_vars
  PROVE  /\ num_proc' = num_proc
         /\ \A r \in Runs : Child(r)' = Child(r) /\ Ack(r)' = Ack(r)
<1>1. num_proc' = num_proc
  BY DEF Next, vars, Parent, Signal, ChildStep, create_msg, Fork, ForkError, QueueGone,
     Send, Receive, delete_msg, ChildReceive, ChildPrint, ChildSend, ChildQueueGone,
     KillParent, KillChild, Interrupt
<1>2. QED
  BY <1>1 DEF Child, Ack

LEMMA TypeStep == TypeInv /\ [Next]_vars => TypeInv'
<1> SUFFICES ASSUME TypeInv, [Next]_vars PROVE TypeInv'
    OBVIOUS
<1>0. /\ num_proc' = num_proc /\ num_proc \in [Runs -> 1..MaxProc]
      /\ \A r \in Runs : Child(r)' = Child(r) /\ Ack(r)' = Ack(r)
  BY Fixed DEF TypeInv, TypeOK
<1> DEFINE Counting(r) ==
      /\ pc[r] \in {"create_msg", "fork"} => i_proc[r] \in Child(r)
      /\ pc[r] \in {"create_msg", "fork", "msgsnd", "msgrcv"} => i[r] \in Child(r)
(* A run keeps counting when its counters stay and it goes on from one of  *)
(* these places to another, or ends.                                       *)
<1>00. /\ pc \in [Runs -> {"create_msg", "fork", "msgsnd", "msgrcv", "delete_msg", "done"}]
       /\ \A s \in Runs : Counting(s)
  BY DEF TypeInv, TypeOK
<1>c. ASSUME NEW s \in Runs, i_proc'[s] = i_proc[s], i'[s] = i[s],
             \/ pc'[s] = pc[s] \/ pc'[s] \in {"delete_msg", "done"}
             \/ (pc[s] = "create_msg" /\ pc'[s] = "fork")
      PROVE  Counting(s)'
  <2>1. Counting(s) /\ Child(s)' = Child(s)
    BY <1>0, <1>00
  <2>2. QED
    BY ONLY <1>c, <2>1
<1> USE <1>0, Bounds DEF TypeInv, TypeOK
<1>1. ASSUME NEW r \in Runs, create_msg(r) PROVE TypeInv'
  <2>1. msgs' \in [Type -> Nat]
    BY <1>1 DEF create_msg
  <2>2. id' \in [Runs -> Runs \cup {NoId}]
    BY <1>1 DEF create_msg
  <2>3. pc' \in [Runs -> {"create_msg", "fork", "msgsnd", "msgrcv", "delete_msg", "done"}]
    BY <1>1 DEF create_msg
  <2>4. ASSUME NEW s \in Runs PROVE Counting(s)'
    <3>1. /\ i_proc'[s] = i_proc[s] /\ i'[s] = i[s]
          /\ pc'[s] = pc[s] \/ (pc[s] = "create_msg" /\ pc'[s] = "fork")
      <4>1. /\ i_proc' = i_proc /\ i' = i /\ pc[r] = "create_msg"
            /\ pc' = [pc EXCEPT ![r] = "fork"]
        BY <1>1 DEF create_msg
      <4>2. QED
        BY ONLY <1>00, <2>4, <4>1
    <3>2. QED
      BY ONLY <1>c, <2>4, <3>1
  <2>5. QED
    BY <1>1, <2>1, <2>2, <2>3, <2>4 DEF create_msg
<1>2. ASSUME NEW r \in Runs, Fork(r) PROVE TypeInv'
  <2>1. child' \in [Runs -> [1..MaxProc -> {"none", "msgrcv", "printf", "msgsnd", "done"}]]
    BY <1>2 DEF Fork
  <2>2. pc' \in [Runs -> {"create_msg", "fork", "msgsnd", "msgrcv", "delete_msg", "done"}]
    BY <1>2 DEF Fork
  <2>3. i_proc[r] \in Child(r) /\ i[r] \in Child(r) /\ i_proc[r] + 1 \in 1..MaxProc + 1
    BY <1>2 DEF Fork
  <2>4. i_proc' = [i_proc EXCEPT ![r] = i_proc[r] + 1] /\ i' = i
    BY <1>2 DEF Fork
  <2>5. i_proc' \in [Runs -> 1..MaxProc + 1]
    BY <2>3, <2>4
  <2>6. Counting(r)'
    <3>1. CASE i_proc[r] < num_proc[r]
      BY <1>2, <2>3, <2>4, <3>1 DEF Fork, Child
    <3>2. CASE ~ (i_proc[r] < num_proc[r])
      BY <1>2, <2>3, <2>4, <3>2 DEF Fork
    <3>3. QED
      BY <3>1, <3>2
  <2>7. ASSUME NEW s \in Runs \ {r} PROVE Counting(s)'
    <3>1. i_proc'[s] = i_proc[s] /\ i'[s] = i[s] /\ pc'[s] = pc[s]
      BY <1>00, <1>2, <2>4 DEF Fork
    <3>2. QED
      BY ONLY <1>c, <2>7, <3>1
  <2>8. QED
    BY <1>2, <2>1, <2>2, <2>5, <2>6, <2>7 DEF Fork
<1>3. ASSUME NEW r \in Runs, ForkError(r) \/ QueueGone(r) PROVE TypeInv'
  <2>1. pc' \in [Runs -> {"create_msg", "fork", "msgsnd", "msgrcv", "delete_msg", "done"}]
    BY <1>3 DEF ForkError, QueueGone, End
  <2>2. status' \in [Runs -> {"running", "success", "failure", "killed"}]
    BY <1>3 DEF ForkError, QueueGone, End
  <2>3. ASSUME NEW s \in Runs PROVE Counting(s)'
    <3>1. /\ i_proc'[s] = i_proc[s] /\ i'[s] = i[s]
          /\ pc'[s] = pc[s] \/ pc'[s] = "done"
      BY <1>00, <1>3 DEF ForkError, QueueGone, End
    <3>2. QED
      BY ONLY <1>c, <2>3, <3>1
  <2>4. QED
    BY <1>3, <2>1, <2>2, <2>3 DEF ForkError, QueueGone, End
<1>4. ASSUME NEW r \in Runs, Send(r) PROVE TypeInv'
  <2>1. msgs' \in [Type -> Nat]
    <3>1. pc[r] = "msgsnd" /\ msgs' = [msgs EXCEPT ![i[r]] = msgs[i[r]] + 1]
      BY <1>4 DEF Send
    <3>2. i[r] \in Type /\ msgs \in [Type -> Nat]
      BY <3>1
    <3>3. QED
      BY ONLY <3>1, <3>2
  <2>2. pc' \in [Runs -> {"create_msg", "fork", "msgsnd", "msgrcv", "delete_msg", "done"}]
    BY <1>4 DEF Send
  <2>3. \A s \in Runs : Counting(s)'
    BY <1>4 DEF Send
  <2>4. QED
    BY <1>4, <2>1, <2>2, <2>3 DEF Send
<1>5. ASSUME NEW r \in Runs, Receive(r) PROVE TypeInv'
  <2>1. msgs' \in [Type -> Nat]
    <3>1. Ack(r) \in Type /\ msgs \in [Type -> Nat] /\ msgs[Ack(r)] > 0
      BY <1>5 DEF Receive
    <3>2. msgs' = [msgs EXCEPT ![Ack(r)] = msgs[Ack(r)] - 1]
      BY <1>5 DEF Receive
    <3>3. QED
      BY ONLY <3>1, <3>2
  <2>2. pc' \in [Runs -> {"create_msg", "fork", "msgsnd", "msgrcv", "delete_msg", "done"}]
    BY <1>5 DEF Receive
  <2>3. pc[r] = "msgrcv"
    BY <1>5 DEF Receive
  <2>4. i[r] \in Child(r)
    BY <2>3
  <2>5. \A c \in Child(r) : c + 1 \in 1..MaxProc + 1 /\ (c # num_proc[r] => c + 1 \in Child(r))
    BY ONLY <1>0, Bounds, r \in Runs
  <2>6. i[r] \in Child(r) /\ i[r] + 1 \in 1..MaxProc + 1 /\ (i[r] # num_proc[r] => i[r] + 1 \in Child(r))
    BY ONLY <2>4, <2>5
  <2>7. i' = [i EXCEPT ![r] = i[r] + 1] /\ i_proc' = i_proc
    BY <1>5 DEF Receive
  <2>8. i' \in [Runs -> 1..MaxProc + 1]
    BY <2>6, <2>7
  <2>9. Counting(r)'
    BY <1>5, <2>6, <2>7 DEF Receive
  <2>10. ASSUME NEW s \in Runs \ {r} PROVE Counting(s)'
    <3>1. i_proc'[s] = i_proc[s] /\ i'[s] = i[s] /\ pc'[s] = pc[s]
      BY <1>00, <1>5, <2>7 DEF Receive
    <3>2. QED
      BY ONLY <1>c, <2>10, <3>1
  <2>11. QED
    BY <1>5, <2>1, <2>2, <2>8, <2>9, <2>10 DEF Receive
<1>6. ASSUME NEW r \in Runs, delete_msg(r) PROVE TypeInv'
  <2>1. pc' \in [Runs -> {"create_msg", "fork", "msgsnd", "msgrcv", "delete_msg", "done"}]
    BY <1>6 DEF delete_msg, End
  <2>2. status' \in [Runs -> {"running", "success", "failure", "killed"}]
    BY <1>6 DEF delete_msg, End
  <2>3. \A s \in Runs : Counting(s)'
    BY <1>6 DEF delete_msg, End
  <2>4. QED
    BY <1>6, <2>1, <2>2, <2>3 DEF delete_msg, End
<1>7. ASSUME NEW r \in Runs, NEW c \in Child(r), ChildReceive(r, c) PROVE TypeInv'
  <2>1. msgs' \in [Type -> Nat]
    <3>1. c \in Type /\ msgs \in [Type -> Nat] /\ msgs[c] > 0
      BY <1>7 DEF ChildReceive
    <3>2. msgs' = [msgs EXCEPT ![c] = msgs[c] - 1]
      BY <1>7 DEF ChildReceive
    <3>3. QED
      BY ONLY <3>1, <3>2
  <2>2. child' \in [Runs -> [1..MaxProc -> {"none", "msgrcv", "printf", "msgsnd", "done"}]]
    BY <1>7 DEF ChildReceive, ChildGoes
  <2>3. \A s \in Runs : Counting(s)'
    BY <1>7 DEF ChildReceive, ChildGoes
  <2>4. QED
    BY <1>7, <2>1, <2>2, <2>3 DEF ChildReceive, ChildGoes
<1>8. ASSUME NEW r \in Runs, NEW c \in Child(r), ChildPrint(r, c) PROVE TypeInv'
  <2>1. printed' \in [Runs -> Seq(1..MaxProc)]
    BY <1>8 DEF ChildPrint, ChildGoes
  <2>2. child' \in [Runs -> [1..MaxProc -> {"none", "msgrcv", "printf", "msgsnd", "done"}]]
    BY <1>8 DEF ChildPrint, ChildGoes
  <2>3. \A s \in Runs : Counting(s)'
    BY <1>8 DEF ChildPrint, ChildGoes
  <2>4. QED
    BY <1>8, <2>1, <2>2, <2>3 DEF ChildPrint, ChildGoes
<1>9. ASSUME NEW r \in Runs, NEW c \in Child(r), ChildSend(r, c) PROVE TypeInv'
  <2>1. msgs' \in [Type -> Nat]
    <3>1. Ack(r) \in Type /\ msgs \in [Type -> Nat]
      OBVIOUS
    <3>2. msgs' = [msgs EXCEPT ![Ack(r)] = msgs[Ack(r)] + 1]
      BY <1>9 DEF ChildSend
    <3>3. QED
      BY ONLY <3>1, <3>2
  <2>2. child' \in [Runs -> [1..MaxProc -> {"none", "msgrcv", "printf", "msgsnd", "done"}]]
    BY <1>9 DEF ChildSend, ChildGoes
  <2>3. \A s \in Runs : Counting(s)'
    BY <1>9 DEF ChildSend, ChildGoes
  <2>4. QED
    BY <1>9, <2>1, <2>2, <2>3 DEF ChildSend, ChildGoes
<1>10. ASSUME NEW r \in Runs, NEW c \in Child(r), ChildQueueGone(r, c) PROVE TypeInv'
  <2>1. child' \in [Runs -> [1..MaxProc -> {"none", "msgrcv", "printf", "msgsnd", "done"}]]
    BY <1>10 DEF ChildQueueGone, ChildGoes
  <2>2. \A s \in Runs : Counting(s)'
    BY <1>10 DEF ChildQueueGone, ChildGoes
  <2>3. QED
    BY <1>10, <2>1, <2>2 DEF ChildQueueGone, ChildGoes
<1>11. ASSUME NEW r \in Runs, KillParent(r) PROVE TypeInv'
  <2>1. pc' \in [Runs -> {"create_msg", "fork", "msgsnd", "msgrcv", "delete_msg", "done"}]
    BY <1>11 DEF KillParent, End
  <2>2. status' \in [Runs -> {"running", "success", "failure", "killed"}]
    BY <1>11 DEF KillParent, End
  <2>3. kills' \in 0..MaxKills
    BY <1>11 DEF KillParent, End
  <2>4. \A s \in Runs : Counting(s)'
    BY <1>11 DEF KillParent, End
  <2>5. QED
    BY <1>11, <2>1, <2>2, <2>3, <2>4 DEF KillParent, End
<1>12. ASSUME NEW r \in Runs, NEW c \in Child(r), KillChild(r, c) PROVE TypeInv'
  <2>1. child' \in [Runs -> [1..MaxProc -> {"none", "msgrcv", "printf", "msgsnd", "done"}]]
    BY <1>12 DEF KillChild, ChildGoes
  <2>2. kills' \in 0..MaxKills
    BY <1>12 DEF KillChild, ChildGoes
  <2>3. \A s \in Runs : Counting(s)'
    BY <1>12 DEF KillChild, ChildGoes
  <2>4. QED
    BY <1>12, <2>1, <2>2, <2>3 DEF KillChild, ChildGoes
<1>13. ASSUME NEW r \in Runs, Interrupt(r) PROVE TypeInv'
  <2>1. pc' \in [Runs -> {"create_msg", "fork", "msgsnd", "msgrcv", "delete_msg", "done"}]
    BY <1>13 DEF Interrupt, End
  <2>2. status' \in [Runs -> {"running", "success", "failure", "killed"}]
    BY <1>13 DEF Interrupt, End
  <2>3. child' \in [Runs -> [1..MaxProc -> {"none", "msgrcv", "printf", "msgsnd", "done"}]]
    BY <1>13 DEF Interrupt, End
  <2>4. kills' \in 0..MaxKills
    BY <1>13 DEF Interrupt, End
  <2>5. \A s \in Runs : Counting(s)'
    BY <1>13 DEF Interrupt, End
  <2>6. QED
    BY <1>13, <2>1, <2>2, <2>3, <2>4, <2>5 DEF Interrupt, End
<1>14. CASE UNCHANGED vars
  BY <1>14 DEF vars
<1>15. QED
  BY <1>1, <1>2, <1>3, <1>4, <1>5, <1>6, <1>7, <1>8, <1>9, <1>10, <1>11,
     <1>12, <1>13, <1>14
  DEF Next, Parent, Signal, ChildStep

(* Every variable keeps its type, whatever the runs share and whichever of *)
(* their processes are killed.                                             *)
THEOREM TypeCorrect == Spec => []TypeOK
<1>1. TypeInv => TypeOK
  BY DEF TypeInv
<1>2. QED
  BY <1>1, TypeInit, TypeStep, PTL DEF Spec

-----------------------------------------------------------------------------
(* A run alone with the queue. *)

(* A child that has not been forked yet does nothing. *)
NotStarted ==
  \A r \in Runs : \A c \in 1..MaxProc :
    pc[r] = "create_msg" \/ (pc[r] = "fork" /\ c >= i_proc[r]) => child[r][c] = "none"

LEMMA NotStartedStep == TypeInv /\ NotStarted /\ [Next]_vars => NotStarted'
<1> SUFFICES ASSUME TypeInv, NotStarted, [Next]_vars PROVE NotStarted'
    OBVIOUS
<1> USE DEF NotStarted
<1>0. /\ child \in [Runs -> [1..MaxProc -> {"none", "msgrcv", "printf", "msgsnd", "done"}]]
      /\ pc \in [Runs -> {"create_msg", "fork", "msgsnd", "msgrcv", "delete_msg", "done"}]
  BY DEF TypeInv, TypeOK
<1>1. ASSUME NEW r \in Runs, create_msg(r) PROVE NotStarted'
  BY <1>0, <1>1 DEF create_msg
<1>2. ASSUME NEW r \in Runs, Fork(r) PROVE NotStarted'
  <2>1. /\ i_proc[r] \in 1..MaxProc + 1 /\ i_proc[r] \in Nat /\ pc[r] = "fork"
        /\ i_proc' = [i_proc EXCEPT ![r] = i_proc[r] + 1]
        /\ child' = [child EXCEPT ![r][i_proc[r]] = "msgrcv"]
    BY <1>2 DEF Fork, TypeInv, TypeOK
  <2>2. \A c \in 1..MaxProc : c >= i_proc[r] + 1 => c # i_proc[r] /\ c >= i_proc[r]
    BY <2>1
  <2>3. \A c \in 1..MaxProc : c >= i_proc'[r] => child'[r][c] = "none"
    BY <1>0, <2>1, <2>2 DEF TypeInv, TypeOK
  <2>4. pc'[r] # "create_msg" /\ \A s \in Runs \ {r} : pc'[s] = pc[s]
    BY <1>0, <1>2 DEF Fork
  <2>5. \A s \in Runs \ {r} : child'[s] = child[s] /\ i_proc'[s] = i_proc[s]
    BY <1>0, <2>1 DEF TypeInv, TypeOK
  <2>6. QED
    BY <2>3, <2>4, <2>5
<1>3. ASSUME NEW r \in Runs,
             \/ ForkError(r) \/ QueueGone(r) \/ Send(r) \/ Receive(r)
             \/ delete_msg(r) \/ KillParent(r)
      PROVE  NotStarted'
  BY <1>0, <1>3 DEF ForkError, QueueGone, Send, Receive, delete_msg, KillParent, End
<1>4. ASSUME NEW r \in Runs, Interrupt(r) PROVE NotStarted'
  BY <1>0, <1>4 DEF Interrupt, End
<1>5. ASSUME NEW r \in Runs, NEW c \in Child(r), NEW to, ChildGoes(r, c, to),
             child[r][c] # "none", UNCHANGED <<pc, i_proc>>
      PROVE  NotStarted'
  <2>1. c \in 1..MaxProc
    BY Bounds DEF TypeInv, TypeOK
  <2>2. \A s \in Runs : \A d \in 1..MaxProc : child[s][d] = "none" => child'[s][d] = "none"
    BY <1>0, <1>5, <2>1 DEF ChildGoes
  <2>3. QED
    BY <1>5, <2>2
<1>6. ASSUME NEW r \in Runs, NEW c \in Child(r), ChildStep(r, c) \/ KillChild(r, c)
      PROVE  NotStarted'
  BY <1>5, <1>6
  DEF ChildStep, ChildReceive, ChildPrint, ChildSend, ChildQueueGone, KillChild
<1>7. CASE UNCHANGED vars
  BY <1>7 DEF vars
<1>8. QED
  BY <1>1, <1>2, <1>3, <1>4, <1>6, <1>7 DEF Next, Parent, Signal

(* A step after which r is alone is r's own. *)
LEMMA AloneStep ==
  ASSUME TypeInv, NotStarted, Next, NEW r \in Runs, Alone(r)'
  PROVE  /\ Alone(r)
         /\ Parent(r) \/ Signal(r) \/ \E c \in Child(r) : ChildStep(r, c)
<1>1. PICK s \in Runs : Parent(s) \/ Signal(s) \/ \E c \in Child(s) : ChildStep(s, c)
  BY DEF Next
<1>2. pc \in [Runs -> {"create_msg", "fork", "msgsnd", "msgrcv", "delete_msg", "done"}]
  BY DEF TypeInv, TypeOK
<1>3. ASSUME Parent(s)
      PROVE  /\ pc'[s] # "create_msg"
             /\ \A q \in Runs \ {s} : pc'[q] = pc[q]
  BY <1>2, <1>3
  DEF Parent, create_msg, Fork, ForkError, QueueGone, Send, Receive, delete_msg, End
<1>4. ASSUME Signal(s)
      PROVE  /\ pc[s] = "create_msg" => pc'[s] = pc[s] /\ \E c \in Child(s) : child[s][c] # "none"
             /\ \A q \in Runs \ {s} : pc'[q] = pc[q]
             /\ pc'[s] = "create_msg" => pc[s] = "create_msg"
  BY <1>2, <1>4 DEF Signal, KillParent, Interrupt, KillChild, End
<1>5. ASSUME NEW c \in Child(s), ChildStep(s, c)
      PROVE  pc' = pc /\ child[s][c] # "none"
  BY <1>5 DEF ChildStep, ChildReceive, ChildPrint, ChildSend, ChildQueueGone
<1>9. \A q \in Runs : pc[q] = "create_msg" => \A c \in Child(q) : child[q][c] = "none"
  BY Bounds DEF NotStarted, TypeInv, TypeOK
<1>6. s = r
  BY <1>1, <1>3, <1>4, <1>5, <1>9 DEF Alone
<1>7. \A q \in Runs \ {r} : pc'[q] = pc[q]
  BY <1>1, <1>3, <1>4, <1>5, <1>6
<1>8. QED
  BY <1>1, <1>6, <1>7 DEF Alone


Busy(r, c) == child[r][c] \in {"printf", "msgsnd"}

NobodyBusy(r) == \A c \in Child(r) : ~ Busy(r, c)

OnlyBusy(r, what) ==
  /\ child[r][i[r]] = what
  /\ \A c \in Child(r) \ {i[r]} : ~ Busy(r, c)

NoMessage == \A t \in Type : msgs[t] = 0

OneMessage(t) == msgs[t] = 1 /\ \A u \in Type \ {t} : msgs[u] = 0

(* Where the turn is that the parent has handed out to child i: in the     *)
(* queue, with the child before or after it prints, in the queue as the    *)
(* answer, or lost with a child that was killed.                           *)
Sent(r)      == Len(printed[r]) = i[r] - 1 /\ NobodyBusy(r) /\ OneMessage(i[r])
Printing(r)  == Len(printed[r]) = i[r] - 1 /\ OnlyBusy(r, "printf") /\ NoMessage
Answering(r) == Len(printed[r]) = i[r] /\ OnlyBusy(r, "msgsnd") /\ NoMessage
Answered(r)  == Len(printed[r]) = i[r] /\ NobodyBusy(r) /\ OneMessage(Ack(r))
Lost(r) == Len(printed[r]) \in {i[r] - 1, i[r]} /\ NobodyBusy(r) /\ NoMessage

Turn(r) == Sent(r) \/ Printing(r) \/ Answering(r) \/ Answered(r) \/ Lost(r)

BetweenTurns(r) ==
  /\ pc[r] \in {"create_msg", "fork", "msgsnd"} /\ status[r] # "success"
  /\ i[r] \in Child(r) /\ Len(printed[r]) = i[r] - 1 /\ NobodyBusy(r) /\ NoMessage

Finished(r) ==
  /\ pc[r] \in {"delete_msg", "done"}
  /\ status[r] = "success" => pc[r] = "done"
  /\ i[r] = num_proc[r] + 1 /\ Len(printed[r]) = num_proc[r] /\ NobodyBusy(r) /\ NoMessage

InTurn(r) ==
  /\ pc[r] \in {"msgrcv", "done"} /\ status[r] # "success"
  /\ i[r] \in Child(r) /\ Turn(r)

Ordered(r) == \A k \in 1..Len(printed[r]) : printed[r][k] = k

OrderInv ==
  \A r \in Runs :
    Alone(r) => Ordered(r) /\ (BetweenTurns(r) \/ Finished(r) \/ InTurn(r))

LEMMA OrderInit == Init => OrderInv
<1> SUFFICES ASSUME Init, NEW r \in Runs PROVE Ordered(r) /\ BetweenTurns(r)
  BY DEF OrderInv
<1>1. printed[r] = <<>> /\ i[r] = 1 /\ 1 \in Child(r)
  BY Bounds DEF Init
<1>2. NobodyBusy(r) /\ NoMessage
  <2>1. \A c \in Child(r) : child[r][c] = "none"
    BY Bounds DEF Init
  <2>2. QED
    BY <2>1 DEF Init, NobodyBusy, Busy, NoMessage
<1>3. pc[r] = "create_msg" /\ status[r] = "running"
  BY DEF Init
<1>4. QED
  BY <1>1, <1>2, <1>3 DEF Ordered, BetweenTurns

(* What a step of one child leaves of the others. *)
LEMMA ChildChanges ==
  ASSUME TypeInv, NEW r \in Runs, NEW c \in Child(r), NEW to, ChildGoes(r, c, to)
  PROVE  /\ child'[r][c] = to
         /\ \A d \in Child(r) \ {c} : child'[r][d] = child[r][d]
BY Bounds DEF TypeInv, TypeOK, ChildGoes

(* A step that touches neither the messages, the children nor what is      *)
(* printed, as the parent dies or ends with an error.                      *)
LEMMA ParentEnds ==
  ASSUME TypeInv, OrderInv, NEW r \in Runs, Alone(r), NEW how \in {"failure", "killed"},
         End(r, how), UNCHANGED <<msgs, i, printed>>,
         \A c \in Child(r) : Busy(r, c)' => child'[r][c] = child[r][c],
         [Next]_vars
  PROVE  Ordered(r)' /\ (Finished(r)' \/ InTurn(r)')
<1>0. /\ num_proc' = num_proc /\ Child(r)' = Child(r) /\ Ack(r)' = Ack(r)
      /\ Child(r) \subseteq 1..MaxProc /\ 1..MaxProc \subseteq Type
      /\ Ack(r) \in Type
  BY Fixed, Bounds DEF TypeInv, TypeOK
<1> USE <1>0
<1>1. Ordered(r)'
  BY DEF OrderInv, Ordered
<1>2. pc'[r] = "done" /\ status'[r] = how /\ how # "success"
  BY DEF End, TypeInv, TypeOK
<1>3. i[r] \in 1..MaxProc + 1 /\ Len(printed[r]) \in Nat
  BY DEF TypeInv, TypeOK
<1>4. NoMessage => NoMessage'
  BY DEF NoMessage
<1>5. \A t \in Type : OneMessage(t) => OneMessage(t)'
  BY DEF OneMessage
<1>6. NobodyBusy(r) => NobodyBusy(r)'
  BY DEF NobodyBusy, Busy
<1>7. CASE BetweenTurns(r)
  <2>1. Lost(r)'
    BY <1>4, <1>6, <1>7 DEF BetweenTurns, Lost
  <2>2. QED
    BY <1>1, <1>2, <1>7, <2>1 DEF BetweenTurns, InTurn, Turn
<1>8. CASE Finished(r)
  BY <1>1, <1>2, <1>4, <1>6, <1>8 DEF Finished
<1>9. CASE InTurn(r)
  <2>1. i[r] \in Child(r) /\ i'[r] = i[r] /\ printed' = printed
    BY <1>9 DEF InTurn
  <2>2. ASSUME NEW what, OnlyBusy(r, what)
        PROVE  OnlyBusy(r, what)' \/ NobodyBusy(r)'
    BY <2>1, <2>2 DEF OnlyBusy, NobodyBusy, Busy
  <2>3. Turn(r)'
    <3>1. CASE Sent(r) \/ Answered(r)
      BY <1>5, <1>6, <2>1, <3>1, Bounds DEF Turn, Sent, Answered
    <3>2. CASE Printing(r)
      BY <1>4, <2>1, <2>2, <3>2 DEF Turn, Printing, Lost
    <3>3. CASE Answering(r)
      BY <1>4, <2>1, <2>2, <3>3 DEF Turn, Answering, Lost
    <3>4. CASE Lost(r)
      BY <1>4, <1>6, <2>1, <3>4 DEF Turn, Lost
    <3>5. QED
      BY <1>9, <3>1, <3>2, <3>3, <3>4 DEF InTurn, Turn
  <2>4. QED
    BY <1>1, <1>2, <2>1, <2>3 DEF InTurn
<1>10. QED
  BY <1>7, <1>8, <1>9 DEF OrderInv

(* A message arrives in an empty queue, or the only one leaves it. *)
LEMMA MessageMoves ==
  ASSUME TypeInv, NEW t \in Type
  PROVE  /\ NoMessage /\ msgs' = [msgs EXCEPT ![t] = @ + 1] => OneMessage(t)'
         /\ OneMessage(t) /\ msgs' = [msgs EXCEPT ![t] = @ - 1] => NoMessage'
<1>1. msgs \in [Type -> Nat]
  BY DEF TypeInv, TypeOK
<1>2. ASSUME NoMessage, msgs' = [msgs EXCEPT ![t] = msgs[t] + 1]
      PROVE  OneMessage(t)'
  BY <1>1, <1>2 DEF NoMessage, OneMessage
<1>3. ASSUME OneMessage(t), msgs' = [msgs EXCEPT ![t] = msgs[t] - 1]
      PROVE  NoMessage'
  BY <1>1, <1>3 DEF NoMessage, OneMessage
<1>4. QED
  BY <1>2, <1>3

LEMMA OrderStep ==
  ASSUME TypeInv, NotStarted, OrderInv, [Next]_vars
  PROVE  OrderInv'
<1> SUFFICES ASSUME NEW r \in Runs, Alone(r)'
             PROVE  Ordered(r)' /\ (BetweenTurns(r)' \/ Finished(r)' \/ InTurn(r)')
  BY DEF OrderInv
<1>0. UNCHANGED vars => Alone(r)
  BY DEF vars, Alone
<1>f. /\ num_proc' = num_proc /\ Child(r)' = Child(r) /\ Ack(r)' = Ack(r)
      /\ Child(r) \subseteq 1..MaxProc /\ 1..MaxProc \subseteq Type
      /\ num_proc[r] \in Child(r) /\ num_proc[r] + 1 \notin Child(r)
      /\ Ack(r) \in Type /\ Ack(r) \notin Child(r) /\ 1..MaxProc \subseteq Nat
  BY Fixed, Bounds DEF TypeInv, TypeOK
<1> USE <1>f
<1>1. Alone(r)
  BY <1>0, AloneStep
<1>2. Ordered(r) /\ (BetweenTurns(r) \/ Finished(r) \/ InTurn(r))
  BY <1>1 DEF OrderInv
<1>3. UNCHANGED printed => Ordered(r)'
  BY <1>2 DEF Ordered
<1>4. /\ Len(printed[r]) \in Nat /\ pc \in [Runs -> {"create_msg", "fork",
            "msgsnd", "msgrcv", "delete_msg", "done"}]
      /\ i \in [Runs -> 1..MaxProc + 1] /\ printed \in [Runs -> Seq(1..MaxProc)]
      /\ i_proc[r] \in 1..MaxProc + 1 /\ num_proc[r] \in Child(r)
      /\ status \in [Runs -> {"running", "success", "failure", "killed"}]
  BY DEF TypeInv, TypeOK
<1>5. CASE create_msg(r)
  <2>1. BetweenTurns(r) /\ UNCHANGED <<i, child, status, printed>> /\ pc'[r] = "fork"
    BY <1>1, <1>2, <1>4, <1>5 DEF create_msg, Finished, InTurn
  <2>2. NoMessage'
    BY <2>1, <1>5 DEF create_msg, BetweenTurns, NoMessage
  <2>3. NobodyBusy(r)'
    BY <2>1 DEF BetweenTurns, NobodyBusy, Busy
  <2>4. QED
    BY <1>3, <2>1, <2>2, <2>3 DEF BetweenTurns
<1>6. CASE Fork(r)
  <2>1. BetweenTurns(r) /\ UNCHANGED <<msgs, i, status, printed>>
    BY <1>2, <1>6 DEF Fork, Finished, InTurn
  <2>2. pc'[r] \in {"fork", "msgsnd"}
    BY <1>1, <1>4, <1>6 DEF Fork
  <2>3. \A c \in Child(r) : Busy(r, c)' => Busy(r, c)
    BY <1>1, <1>6 DEF Fork, Busy, TypeInv, TypeOK
  <2>4. NobodyBusy(r)' /\ NoMessage'
    BY <2>1, <2>3 DEF BetweenTurns, NobodyBusy, NoMessage
  <2>5. QED
    BY <1>3, <2>1, <2>2, <2>4 DEF BetweenTurns
<1>7. CASE ForkError(r) \/ QueueGone(r)
  <2>1. End(r, "failure") /\ UNCHANGED <<msgs, i, printed, child>>
    BY <1>7 DEF ForkError, QueueGone
  <2>2. QED
    BY <1>1, <2>1, ParentEnds
<1>8. CASE Send(r)
  <2>1. BetweenTurns(r) /\ UNCHANGED <<i, child, status, printed>>
    BY <1>2, <1>8 DEF Send, Finished, InTurn
  <2>2. pc'[r] = "msgrcv" /\ i[r] \in Type
    BY <1>1, <1>4, <1>8, <2>1, Bounds DEF Send, BetweenTurns
  <2>3. OneMessage(i[r])'
    BY <1>8, <2>1, <2>2, MessageMoves DEF Send, BetweenTurns
  <2>4. Sent(r)'
    BY <2>1, <2>3 DEF BetweenTurns, Sent, NobodyBusy, Busy, OneMessage
  <2>5. QED
    BY <1>3, <2>1, <2>2, <2>4 DEF BetweenTurns, InTurn, Turn
<1>9. CASE Receive(r)
  <2>1. InTurn(r) /\ UNCHANGED <<child, status, printed>>
    BY <1>2, <1>9 DEF Receive, Finished, BetweenTurns
  <2>2. Ack(r) \in Type /\ Ack(r) \notin Child(r) /\ msgs[Ack(r)] > 0
    BY <1>9, Bounds DEF Receive
  <2>3. Answered(r)
    <3>1. ~ NoMessage
      BY <2>2 DEF NoMessage
    <3>2. ~ Sent(r)
      BY <2>1, <2>2 DEF Sent, OneMessage, InTurn
    <3>3. QED
      BY <2>1, <3>1, <3>2 DEF InTurn, Turn, Printing, Answering, Lost
  <2>4. NoMessage'
    BY <1>9, <2>2, <2>3, MessageMoves DEF Receive, Answered
  <2>5. NobodyBusy(r)'
    BY <2>1, <2>3 DEF Answered, NobodyBusy, Busy
  <2>6. i'[r] = i[r] + 1 /\ i[r] \in Child(r)
    BY <1>1, <1>4, <1>9, <2>1 DEF Receive, InTurn
  <2>7. Len(printed'[r]) = i'[r] - 1
    BY <2>1, <2>3, <2>6, Bounds DEF Answered
  <2>8. CASE i[r] = num_proc[r]
    <3>1. pc'[r] = "delete_msg"
      BY <1>1, <1>4, <1>9, <2>8 DEF Receive
    <3>2. QED
      BY <1>3, <2>1, <2>3, <2>4, <2>5, <2>6, <2>8, <3>1
      DEF Finished, InTurn, Answered
  <2>9. CASE i[r] # num_proc[r]
    <3>1. pc'[r] = "msgsnd"
      BY <1>1, <1>4, <1>9, <2>9 DEF Receive
    <3>2. i'[r] \in Child(r)
      BY <2>6, <2>9, QueueAssumption DEF Child
    <3>3. QED
      BY <1>3, <2>1, <2>4, <2>5, <2>7, <3>1, <3>2 DEF BetweenTurns, InTurn
  <2>10. QED
    BY <2>8, <2>9
<1>10. CASE delete_msg(r)
  <2>1. Finished(r) /\ UNCHANGED <<msgs, i, child, printed>> /\ pc'[r] = "done"
    BY <1>1, <1>2, <1>4, <1>10 DEF delete_msg, End, BetweenTurns, InTurn
  <2>2. QED
    BY <1>3, <2>1 DEF Finished, NobodyBusy, Busy, NoMessage
<1>11. CASE \E c \in Child(r) : ChildReceive(r, c)
  <2>1. PICK c \in Child(r) : ChildReceive(r, c)
    BY <1>11
  <2>2. UNCHANGED <<pc, i, status, printed>> /\ msgs[c] > 0 /\ ChildGoes(r, c, "printf")
    BY <2>1 DEF ChildReceive
  <2>3. c \in Type /\ c # Ack(r)
    BY Bounds
  <2>4. InTurn(r) /\ Sent(r) /\ c = i[r]
    <3>1. ~ NoMessage
      BY <2>2, <2>3 DEF NoMessage
    <3>2. ~ Answered(r)
      BY <2>2, <2>3 DEF Answered, OneMessage
    <3>3. Sent(r) => c = i[r]
      BY <2>2, <2>3 DEF Sent, OneMessage
    <3>4. QED
      BY <1>2, <3>1, <3>2, <3>3
      DEF InTurn, Turn, Printing, Answering, Lost, BetweenTurns, Finished
  <2>5. NoMessage'
    BY <2>1, <2>3, <2>4, MessageMoves DEF ChildReceive, Sent
  <2>6. OnlyBusy(r, "printf")'
    BY <1>1, <2>2, <2>4, ChildChanges DEF OnlyBusy, Sent, NobodyBusy, Busy
  <2>7. Printing(r)'
    BY <2>2, <2>4, <2>5, <2>6 DEF Sent, Printing
  <2>8. QED
    BY <1>3, <2>2, <2>4, <2>7 DEF InTurn, Turn
<1>12. CASE \E c \in Child(r) : ChildPrint(r, c)
  <2>1. PICK c \in Child(r) : ChildPrint(r, c)
    BY <1>12
  <2>2. /\ UNCHANGED <<pc, i, status, msgs>> /\ child[r][c] = "printf"
        /\ ChildGoes(r, c, "msgsnd") /\ printed'[r] = Append(printed[r], c)
    BY <1>1, <1>4, <2>1 DEF ChildPrint
  <2>3. Busy(r, c)
    BY <2>2 DEF Busy
  <2>4. InTurn(r) /\ Printing(r) /\ c = i[r]
    <3>1. ~ NobodyBusy(r)
      BY <2>3 DEF NobodyBusy
    <3>2. InTurn(r)
      BY <1>2, <3>1 DEF BetweenTurns, Finished
    <3>3. \A what : OnlyBusy(r, what) => c = i[r] /\ what = "printf"
      BY <2>2, <2>3 DEF OnlyBusy
    <3>4. ~ Answering(r)
      BY <3>3 DEF Answering
    <3>5. QED
      BY <3>1, <3>2, <3>3, <3>4 DEF InTurn, Turn, Sent, Answered, Lost, Printing
  <2>5. printed[r] \in Seq(1..MaxProc) /\ Len(printed[r]) = c - 1 /\ c \in Nat
    BY <1>1, <1>4, <2>4, Bounds DEF Printing
  <2>6. Len(printed'[r]) = c
    BY <2>2, <2>5
  <2>7. Ordered(r)'
    BY <1>2, <2>2, <2>5, <2>6 DEF Ordered
  <2>8. OnlyBusy(r, "msgsnd")'
    BY <1>1, <2>2, <2>4, ChildChanges DEF OnlyBusy, Printing, Busy
  <2>9. Answering(r)'
    BY <2>2, <2>4, <2>6, <2>8 DEF Answering, Printing, NoMessage
  <2>10. QED
    BY <2>2, <2>4, <2>7, <2>9 DEF InTurn, Turn
<1>13. CASE \E c \in Child(r) : ChildSend(r, c)
  <2>1. PICK c \in Child(r) : ChildSend(r, c)
    BY <1>13
  <2>2. /\ UNCHANGED <<pc, i, status, printed>> /\ child[r][c] = "msgsnd"
        /\ ChildGoes(r, c, "done")
    BY <2>1 DEF ChildSend
  <2>3. Busy(r, c)
    BY <2>2 DEF Busy
  <2>4. InTurn(r) /\ Answering(r) /\ c = i[r]
    <3>1. ~ NobodyBusy(r)
      BY <2>3 DEF NobodyBusy
    <3>2. InTurn(r)
      BY <1>2, <3>1 DEF BetweenTurns, Finished
    <3>3. \A what : OnlyBusy(r, what) => c = i[r] /\ what = "msgsnd"
      BY <2>2, <2>3 DEF OnlyBusy
    <3>4. ~ Printing(r)
      BY <3>3 DEF Printing
    <3>5. QED
      BY <3>1, <3>2, <3>3, <3>4 DEF InTurn, Turn, Sent, Answered, Lost, Answering
  <2>5. Ack(r) \in Type /\ OneMessage(Ack(r))'
    BY <2>1, <2>4, MessageMoves, Bounds DEF ChildSend, Answering
  <2>6. NobodyBusy(r)'
    BY <1>1, <2>2, <2>4, ChildChanges DEF OnlyBusy, NobodyBusy, Busy, Answering
  <2>7. Answered(r)'
    BY <2>2, <2>4, <2>5, <2>6 DEF Answered, Answering
  <2>8. QED
    BY <1>3, <2>2, <2>4, <2>7 DEF InTurn, Turn
<1>14. ASSUME NEW c \in Child(r), ChildGoes(r, c, "done"),
              UNCHANGED <<pc, i, status, printed, msgs>>
       PROVE  Ordered(r)' /\ (BetweenTurns(r)' \/ Finished(r)' \/ InTurn(r)')
  <2>1. \A d \in Child(r) : Busy(r, d)' => child'[r][d] = child[r][d]
    BY <1>1, <1>14, ChildChanges DEF Busy
  <2>2. NobodyBusy(r) => NobodyBusy(r)'
    BY <2>1 DEF NobodyBusy, Busy
  <2>3. \A what : OnlyBusy(r, what) => OnlyBusy(r, what)' \/ NobodyBusy(r)'
    BY <1>14, <2>1 DEF OnlyBusy, NobodyBusy, Busy
  <2>4. NoMessage => NoMessage'
    BY <1>14 DEF NoMessage
  <2>5. \A t \in Type : OneMessage(t) => OneMessage(t)'
    BY <1>14 DEF OneMessage
  <2>6. CASE BetweenTurns(r) \/ Finished(r)
    BY <1>3, <1>14, <2>2, <2>4, <2>6 DEF BetweenTurns, Finished
  <2>7. CASE InTurn(r)
    <3>1. CASE Sent(r) \/ Answered(r)
      BY <1>3, <1>14, <2>2, <2>5, <2>7, <3>1, Bounds DEF Turn, Sent, Answered, InTurn
    <3>2. CASE Printing(r)
      BY <1>3, <1>14, <2>3, <2>4, <2>7, <3>2 DEF Turn, Printing, Lost, InTurn
    <3>3. CASE Answering(r)
      BY <1>3, <1>14, <2>3, <2>4, <2>7, <3>3 DEF Turn, Answering, Lost, InTurn
    <3>4. CASE Lost(r)
      BY <1>3, <1>14, <2>2, <2>4, <2>7, <3>4 DEF Turn, Lost, InTurn
    <3>5. QED
      BY <2>7, <3>1, <3>2, <3>3, <3>4 DEF InTurn, Turn
  <2>8. QED
    BY <1>2, <2>6, <2>7
<1>15. CASE \E c \in Child(r) : ChildQueueGone(r, c) \/ KillChild(r, c)
  BY <1>14, <1>15 DEF ChildQueueGone, KillChild
<1>16. CASE KillParent(r) \/ Interrupt(r)
  <2>1. End(r, "killed") /\ UNCHANGED <<msgs, i, printed>>
    BY <1>16 DEF KillParent, Interrupt
  <2>2. child \in [Runs -> [1..MaxProc -> {"none", "msgrcv", "printf", "msgsnd", "done"}]]
    BY DEF TypeInv, TypeOK
  <2>3. Interrupt(r) => \A c \in Child(r) : child'[r][c] \in {"none", "done"}
    BY <2>2 DEF Interrupt
  <2>4. KillParent(r) => child' = child
    BY DEF KillParent
  <2>5. \A c \in Child(r) : Busy(r, c)' => child'[r][c] = child[r][c]
    BY <1>16, <2>3, <2>4 DEF Busy
  <2>6. QED
    BY <1>1, <2>1, <2>5, ParentEnds
<1>17. CASE UNCHANGED vars
  <2>1. UNCHANGED <<msgs, pc, i, child, status, printed>>
    BY <1>17 DEF vars
  <2>2. QED
    BY <1>2, <2>1 DEF Ordered, BetweenTurns, Finished, InTurn, Turn, Sent, Printing,
       Answering, Answered, Lost, NobodyBusy, OnlyBusy, Busy, NoMessage, OneMessage
<1>18. Next => Parent(r) \/ Signal(r) \/ \E c \in Child(r) : ChildStep(r, c)
  BY AloneStep
<1>19. CASE Parent(r)
  BY <1>5, <1>6, <1>7, <1>8, <1>9, <1>10, <1>19 DEF Parent
<1>20. CASE Signal(r)
  BY <1>15, <1>16, <1>20 DEF Signal
<1>21. CASE \E c \in Child(r) : ChildStep(r, c)
  BY <1>11, <1>12, <1>13, <1>15, <1>21 DEF ChildStep
<1>22. QED
  BY <1>17, <1>18, <1>19, <1>20, <1>21

(* Alone with its queue, a run prints the numbers in the order of creation *)
(* and never one twice, however many children it has and whichever         *)
(* process is killed.                                                      *)
THEOREM AloneInOrder == Spec => []PrintedInOrder
<1>1. OrderInv => PrintedInOrder
  BY DEF OrderInv, Ordered, PrintedInOrder
<1>2. Init => NotStarted
  BY DEF Init, NotStarted
<1>3. TypeInv /\ NotStarted /\ OrderInv /\ [Next]_vars => OrderInv'
  BY OrderStep
<1>4. QED
  BY <1>1, <1>2, <1>3, OrderInit, TypeInit, TypeStep, NotStartedStep, PTL DEF Spec

(* Alone with its queue, a run returns 0 only after every number is        *)
(* printed.                                                                *)
THEOREM AloneSuccessIsWhole == Spec => []SuccessMeansAllPrinted
<1>1. TypeInv /\ OrderInv => SuccessMeansAllPrinted
  <2> SUFFICES ASSUME TypeInv, OrderInv, NEW s \in Runs, Alone(s), status[s] = "success"
               PROVE  printed[s] = [c \in Child(s) |-> c]
    BY DEF SuccessMeansAllPrinted
  <2>1. Len(printed[s]) = num_proc[s] /\ Ordered(s) /\ printed[s] \in Seq(1..MaxProc)
    BY DEF OrderInv, BetweenTurns, Finished, InTurn, TypeInv, TypeOK
  <2>2. QED
    BY <2>1 DEF Ordered, Child
<1>2. Init => NotStarted
  BY DEF Init, NotStarted
<1>3. TypeInv /\ NotStarted /\ OrderInv /\ [Next]_vars => OrderInv'
  BY OrderStep
<1>4. QED
  BY <1>1, <1>2, <1>3, OrderInit, TypeInit, TypeStep, NotStartedStep, PTL DEF Spec
-----------------------------------------------------------------------------
(* What is taken and what it can come from, with any number of runs beside *)
(* each other.                                                             *)

(* The children that have printed and not yet answered. *)
Owing(t) ==
  {a \in Runs \X (1..MaxProc) : Ack(a[1]) = t /\ child[a[1]][a[2]] = "msgsnd"}

(* No child prints twice: only the answer is left to it after its line. *)
PrintsOnce ==
  \A r \in Runs, c \in 1..MaxProc : HasPrinted(r, c) => child[r][c] \in {"msgsnd", "done"}

Finite(t) ==
  /\ IsFiniteSet(Answers(t)) /\ IsFiniteSet(Turns(t)) /\ IsFiniteSet(Owing(t))
  /\ IsFiniteSet(Printed(t)) /\ IsFiniteSet(Given(t))

Backed(t) ==
  /\ Finite(t)
  /\ Cardinality(Answers(t)) + Cardinality(Turns(t)) + Queued(t) + Cardinality(Owing(t))
       <= Cardinality(Printed(t)) + Cardinality(Given(t))

BackedInv == PrintsOnce /\ \A t \in Type : Backed(t)

LEMMA BackedInit == Init => BackedInv
<1> SUFFICES ASSUME Init PROVE BackedInv
  OBVIOUS
<1>1. \A r \in Runs : \A c : ~ HasPrinted(r, c)
  BY DEF Init, HasPrinted
<1>2. num_proc \in [Runs -> 1..MaxProc]
  BY DEF Init
<1>3. ASSUME NEW t \in Type PROVE Backed(t)
  <2>1. Answers(t) = {}
    <3>1. \A c \in 1..MaxProc : ~ (c < 1)
      BY QueueAssumption
    <3>2. QED
      BY <3>1 DEF Init, Answers
  <2>2. Turns(t) = {} /\ Owing(t) = {} /\ Printed(t) = {}
    <3>1. \A r \in Runs : \A c \in 1..MaxProc : child[r][c] = "none"
      BY DEF Init
    <3>2. \A r \in Runs : t \in Child(r) => t \in 1..MaxProc
      BY <1>2, Bounds
    <3>3. QED
      BY <1>1, <3>1, <3>2 DEF Turns, Owing, Printed
  <2>3. Given(t) = {}
    <3>1. t <= 1 => t = 1
      BY QueueAssumption DEF Type
    <3>2. QED
      BY <3>1 DEF Init, Given
  <2>4. Queued(t) = 0
    BY DEF Init, Queued
  <2>5. QED
    BY <2>1, <2>2, <2>3, <2>4, FS_EmptySet DEF Backed, Finite
<1>4. QED
  BY <1>1, <1>3 DEF BackedInv, PrintsOnce

(* The sizes are numbers. *)
LEMMA Sizes ==
  ASSUME TypeInv, NEW t \in Type, Finite(t)
  PROVE  /\ Cardinality(Answers(t)) \in Nat /\ Cardinality(Turns(t)) \in Nat
         /\ Cardinality(Owing(t)) \in Nat /\ Cardinality(Printed(t)) \in Nat
         /\ Cardinality(Given(t)) \in Nat /\ Queued(t) \in Nat
<1>1. Queued(t) \in Nat
  BY DEF TypeInv, TypeOK, Queued
<1>2. QED
  BY <1>1, FS_CardinalityType DEF Finite

(* A set that gains at most one member. *)
LEMMA OneMore ==
  ASSUME NEW S, NEW T, IsFiniteSet(S), NEW e, T \subseteq S \cup {e}
  PROVE  /\ IsFiniteSet(T) /\ Cardinality(T) \in Nat
         /\ Cardinality(T) <= Cardinality(S) + 1
<1>0. Cardinality(S) \in Nat
  BY FS_CardinalityType
<1>1. IsFiniteSet(S \cup {e}) /\ Cardinality(S \cup {e}) <= Cardinality(S) + 1
  <2>1. /\ IsFiniteSet(S \cup {e})
        /\ Cardinality(S \cup {e}) = IF e \in S THEN Cardinality(S) ELSE Cardinality(S) + 1
    BY FS_AddElement
  <2>2. QED
    BY <1>0, <2>1
<1>2. IsFiniteSet(T) /\ Cardinality(T) <= Cardinality(S \cup {e})
  BY <1>1, FS_Subset
<1>3. /\ Cardinality(T) \in Nat /\ Cardinality(S) \in Nat
      /\ Cardinality(S \cup {e}) \in Nat
  BY <1>1, <1>2, FS_CardinalityType
<1>4. QED
  BY <1>1, <1>2, <1>3

(* A set that gains one member, or loses one. *)
LEMMA OneIn ==
  ASSUME NEW S, NEW T, IsFiniteSet(S), NEW e, e \notin S, T = S \cup {e}
  PROVE  IsFiniteSet(T) /\ Cardinality(T) = Cardinality(S) + 1
BY FS_AddElement

LEMMA OneOut ==
  ASSUME NEW S, NEW T, IsFiniteSet(S), NEW e, e \in S, T = S \ {e}
  PROVE  IsFiniteSet(T) /\ Cardinality(T) = Cardinality(S) - 1
BY FS_RemoveElement

(* A step that only loses messages and what is owed of a type. *)
LEMMA NothingGained ==
  ASSUME TypeInv, NEW t \in Type, Backed(t),
         Queued(t)' \in Nat, Queued(t)' <= Queued(t),
         Answers(t)' = Answers(t), Printed(t)' = Printed(t),
         Turns(t)' \subseteq Turns(t), Owing(t)' \subseteq Owing(t),
         Given(t) \subseteq Given(t)', NEW r, Given(t)' \subseteq Given(t) \cup {r}
  PROVE  Backed(t)'
<1>1. Finite(t)
  BY DEF Backed
<1>2. /\ IsFiniteSet(Turns(t)') /\ Cardinality(Turns(t)') <= Cardinality(Turns(t))
      /\ IsFiniteSet(Owing(t)') /\ Cardinality(Owing(t)') <= Cardinality(Owing(t))
  BY <1>1, FS_Subset DEF Finite
<1>3. IsFiniteSet(Given(t)')
  BY <1>1, OneMore DEF Finite
<1>4. Cardinality(Given(t)) <= Cardinality(Given(t)')
  BY <1>3, FS_Subset
<1>5. /\ Cardinality(Turns(t)') \in Nat /\ Cardinality(Owing(t)') \in Nat
      /\ Cardinality(Given(t)') \in Nat
  BY <1>2, <1>3, FS_CardinalityType
<1>6. Finite(t)'
  BY <1>1, <1>2, <1>3 DEF Finite
<1>7. QED
  BY <1>1, <1>2, <1>4, <1>5, <1>6, Sizes DEF Backed

(* The numbers a run has printed are those before it and the one it adds.  *)
LEMMA LineAdded ==
  ASSUME TypeInv, NEW r \in Runs, NEW c \in 1..MaxProc,
         printed' = [printed EXCEPT ![r] = Append(printed[r], c)]
  PROVE  \A s \in Runs : \A d : HasPrinted(s, d)' <=> HasPrinted(s, d) \/ (s = r /\ d = c)
<1>1. printed \in [Runs -> Seq(1..MaxProc)]
  BY DEF TypeInv, TypeOK
<1>2. \A s \in Runs \ {r} : printed'[s] = printed[s]
  BY <1>1
<1>3. printed'[r] = Append(printed[r], c) /\ printed[r] \in Seq(1..MaxProc)
  BY <1>1
<1>4. PICK n \in Nat : n = Len(printed[r]) /\ DOMAIN printed[r] = 1..n
  BY <1>3
<1>5. /\ DOMAIN printed'[r] = 1..(n + 1) /\ printed'[r][n + 1] = c
      /\ \A k \in 1..n : printed'[r][k] = printed[r][k]
  BY <1>3, <1>4
<1>6. \A d : HasPrinted(r, d)' <=> \E k \in 1..(n + 1) : printed'[r][k] = d
  BY <1>5 DEF HasPrinted
<1>7. \A d : HasPrinted(r, d) <=> \E k \in 1..n : printed[r][k] = d
  BY <1>4 DEF HasPrinted
<1>8. \A k : k \in 1..(n + 1) <=> k \in 1..n \/ k = n + 1
  BY <1>4
<1>9. \A d : HasPrinted(r, d)' <=> HasPrinted(r, d) \/ d = c
  BY <1>5, <1>6, <1>7, <1>8
<1>10. QED
  BY <1>2, <1>9 DEF HasPrinted

LEMMA BackedStep == TypeInv /\ NotStarted /\ BackedInv /\ [Next]_vars => BackedInv'
<1> SUFFICES ASSUME TypeInv, NotStarted, BackedInv, [Next]_vars PROVE BackedInv'
  OBVIOUS
<1>0. /\ msgs \in [Type -> Nat]
      /\ child \in [Runs -> [1..MaxProc -> {"none", "msgrcv", "printf", "msgsnd", "done"}]]
      /\ i \in [Runs -> 1..MaxProc + 1] /\ num_proc \in [Runs -> 1..MaxProc]
      /\ pc \in [Runs -> {"create_msg", "fork", "msgsnd", "msgrcv", "delete_msg", "done"}]
      /\ \A t \in Type : Finite(t) /\ Backed(t) /\ Queued(t) \in Nat
      /\ PrintsOnce
  BY Sizes DEF TypeInv, TypeOK, BackedInv, Backed
(* The sizes of one type before the step. *)
<1>z. ASSUME NEW t \in Type
      PROVE  /\ Cardinality(Answers(t)) \in Nat /\ Cardinality(Turns(t)) \in Nat
             /\ Cardinality(Owing(t)) \in Nat /\ Cardinality(Printed(t)) \in Nat
             /\ Cardinality(Given(t)) \in Nat /\ Queued(t) \in Nat
             /\ Cardinality(Answers(t)) + Cardinality(Turns(t)) + Queued(t)
                  + Cardinality(Owing(t)) <= Cardinality(Printed(t)) + Cardinality(Given(t))
  BY <1>0, Sizes DEF Backed
<1>a. /\ \A r \in Runs : /\ Child(r)' = Child(r) /\ Ack(r)' = Ack(r)
                         /\ Child(r) \subseteq 1..MaxProc /\ Ack(r) \in Type
                         /\ Ack(r) \notin Child(r)
      /\ 1..MaxProc \subseteq Type /\ 1..MaxProc \subseteq Nat /\ Type \subseteq Nat
  BY <1>0, Fixed, Bounds DEF Type
(* What a step does not touch. *)
<1>b. ASSUME UNCHANGED printed
      PROVE  /\ \A s \in Runs : \A d : HasPrinted(s, d)' <=> HasPrinted(s, d)
             /\ \A t : Printed(t)' = Printed(t)
  <2>1. \A s \in Runs : \A d : HasPrinted(s, d)' <=> HasPrinted(s, d)
    BY <1>b DEF HasPrinted
  <2>2. QED
    BY <1>a, <2>1 DEF Printed
<1>c. ASSUME UNCHANGED i PROVE \A t : Answers(t)' = Answers(t)
  BY <1>a, <1>c DEF Answers
<1>d. ASSUME UNCHANGED <<i, pc>> PROVE \A t : Given(t)' = Given(t)
  BY <1>a, <1>d DEF Given
<1>e. ASSUME UNCHANGED <<printed, child>>
      PROVE  /\ \A t : Turns(t)' = Turns(t) /\ Owing(t)' = Owing(t)
             /\ PrintsOnce'
  BY <1>0, <1>a, <1>b, <1>e DEF Turns, Owing, PrintsOnce
<1>f. ASSUME UNCHANGED <<qKey, msgs>>
      PROVE  \A t \in Type : Queued(t)' = Queued(t) /\ Queued(t)' \in Nat /\ Queued(t)' <= Queued(t)
  BY <1>0, <1>f DEF Queued
(* A step in which children at most end or start to wait. *)
<1>g. ASSUME UNCHANGED printed,
             \A s \in Runs : \A d \in 1..MaxProc :
               child'[s][d] = child[s][d] \/ child'[s][d] = "done"
                 \/ (child'[s][d] = "msgrcv" /\ child[s][d] = "none")
      PROVE  /\ \A t : Turns(t)' \subseteq Turns(t) /\ Owing(t)' \subseteq Owing(t)
             /\ PrintsOnce'
  <2>1. \A t : Turns(t)' \subseteq Turns(t)
    BY <1>a, <1>b, <1>g DEF Turns
  <2>2. \A t : Owing(t)' \subseteq Owing(t)
    BY <1>a, <1>g DEF Owing
  <2>3. PrintsOnce'
    BY <1>0, <1>b, <1>g DEF PrintsOnce
  <2>4. QED
    BY <2>1, <2>2, <2>3
(* A type of which a step neither gains a message nor gives a turn. *)
<1>n. ASSUME NEW t \in Type, Queued(t)' = Queued(t), Answers(t)' = Answers(t),
             Printed(t)' = Printed(t), Turns(t)' \subseteq Turns(t),
             Owing(t)' \subseteq Owing(t), Given(t)' = Given(t)
      PROVE  Backed(t)'
  <2>1. Queued(t)' \in Nat /\ Queued(t)' <= Queued(t) /\ Backed(t)
    BY <1>0, <1>n
  <2>2. Given(t) \subseteq Given(t)' /\ Given(t)' \subseteq Given(t) \cup {t}
    BY <1>n
  <2>3. QED
    BY <1>n, <2>1, <2>2, NothingGained
<1>1. ASSUME NEW r \in Runs, create_msg(r) PROVE BackedInv'
  <2>1. UNCHANGED <<i, printed, child>> /\ pc[r] = "create_msg" /\ pc' = [pc EXCEPT ![r] = "fork"]
    BY <1>1 DEF create_msg
  <2>2. \A t \in Type : Queued(t)' \in Nat /\ Queued(t)' <= Queued(t)
    BY <1>0, <1>1 DEF create_msg, Queued
  <2>3. \A t : Given(t)' = Given(t)
    BY <1>0, <1>a, <2>1 DEF Given
  <2>4. \A t \in Type : Backed(t)'
    BY <1>0, <1>b, <1>c, <1>e, <2>1, <2>2, <2>3, NothingGained
  <2>5. QED
    BY <1>e, <2>1, <2>4 DEF BackedInv
<1>2. ASSUME NEW r \in Runs, Fork(r) PROVE BackedInv'
  <2>1. UNCHANGED <<i, printed, qKey, msgs>> /\ i_proc[r] \in Child(r) /\ pc[r] = "fork"
    BY <1>2 DEF Fork, TypeInv
  <2>2. child' = [child EXCEPT ![r][i_proc[r]] = "msgrcv"]
    BY <1>2 DEF Fork
  <2>3. pc' = [pc EXCEPT ![r] = "fork"] \/ pc' = [pc EXCEPT ![r] = "msgsnd"]
    BY <1>2 DEF Fork
  <2>4. \A t : Given(t)' = Given(t)
    BY <1>0, <1>a, <2>1, <2>3 DEF Given
  <2>5. child[r][i_proc[r]] = "none"
    BY <1>a, <2>1 DEF NotStarted
  <2>6. \A t : Turns(t)' \subseteq Turns(t) /\ Owing(t)' \subseteq Owing(t)
    BY <1>0, <1>a, <1>g, <2>1, <2>2, <2>5
  <2>7. QED
    BY <1>0, <1>b, <1>c, <1>f, <1>g, <2>1, <2>2, <2>4, <2>5, <2>6, NothingGained DEF BackedInv
<1>3. ASSUME NEW r \in Runs, ForkError(r) \/ QueueGone(r) \/ KillParent(r) \/ Interrupt(r)
      PROVE  BackedInv'
  <2>1. /\ UNCHANGED <<i, printed, qKey, msgs>>
        /\ pc[r] # "create_msg" /\ pc' = [pc EXCEPT ![r] = "done"]
    BY <1>0, <1>3 DEF ForkError, QueueGone, KillParent, Interrupt, End
  <2>2. \A t : /\ Given(t) \subseteq Given(t)' /\ Given(t)' \subseteq Given(t) \cup {r}
    BY <1>0, <1>a, <2>1 DEF Given
  <2>3. \A s \in Runs : \A d \in 1..MaxProc :
               child'[s][d] = child[s][d] \/ child'[s][d] = "done"
    <3>1. CASE Interrupt(r)
      BY <1>0, <3>1 DEF Interrupt
    <3>2. CASE ForkError(r) \/ QueueGone(r) \/ KillParent(r)
      BY <3>2 DEF ForkError, QueueGone, KillParent
    <3>3. QED
      BY <1>3, <3>1, <3>2
  <2>4. PrintsOnce' /\ \A t : Turns(t)' \subseteq Turns(t) /\ Owing(t)' \subseteq Owing(t)
    BY <1>g, <2>1, <2>3
  <2>5. \A t \in Type : Backed(t)'
    BY <1>0, <1>b, <1>c, <1>f, <2>1, <2>2, <2>4, NothingGained
  <2>6. QED
    BY <2>4, <2>5 DEF BackedInv
<1>4. ASSUME NEW r \in Runs, Send(r) PROVE BackedInv'
  <2>1. /\ UNCHANGED <<i, printed, qKey, child>> /\ i[r] \in Child(r) /\ pc[r] = "msgsnd"
        /\ msgs' = [msgs EXCEPT ![i[r]] = msgs[i[r]] + 1]
        /\ pc' = [pc EXCEPT ![r] = "msgrcv"]
    BY <1>4 DEF Send, TypeInv
  <2>2. /\ \A t \in Type \ {i[r]} : Given(t)' = Given(t)
        /\ \A t \in Type : t = i[r] => Given(t)' = Given(t) \cup {r} /\ r \notin Given(t)
    BY <1>0, <1>a, <2>1 DEF Given
  <2>3. \A t \in Type \ {i[r]} : Queued(t)' = Queued(t)
    BY <1>0, <2>1 DEF Queued
  <2>4. ASSUME NEW t \in Type \ {i[r]} PROVE Backed(t)'
    BY <1>0, <1>b, <1>c, <1>e, <2>1, <2>2, <2>3, <1>n, <2>4
  <2>5. PICK t \in Type : t = i[r]
    BY <1>a, <2>1
  <2>6. Queued(t)' \in Nat /\ Queued(t)' <= Queued(t) + 1
    BY <1>0, <2>1, <2>5 DEF Queued
  <2>z. IsFiniteSet(Given(t))
    BY <1>0 DEF Finite
  <2>7. IsFiniteSet(Given(t)') /\ Cardinality(Given(t)') = Cardinality(Given(t)) + 1
    <3>1. Given(t)' = Given(t) \cup {r} /\ r \notin Given(t) /\ IsFiniteSet(Given(t))
      BY ONLY <2>2, <2>5, <2>z
    <3>2. QED
      BY <3>1, OneIn
  <2>8. Finite(t)' /\ Backed(t)'
    <3>1. /\ Answers(t)' = Answers(t) /\ Printed(t)' = Printed(t)
          /\ Turns(t)' = Turns(t) /\ Owing(t)' = Owing(t)
      BY <1>b, <1>c, <1>e, <2>1
    <3>2. Finite(t)'
      BY <1>0, <2>7, <3>1 DEF Finite
    <3>3. QED
      BY <1>z, <2>6, <2>7, <3>1, <3>2 DEF Backed
  <2>9. QED
    BY <1>e, <2>1, <2>4, <2>5, <2>8 DEF BackedInv
<1>5. ASSUME NEW r \in Runs, Receive(r) PROVE BackedInv'
  <2>1. /\ UNCHANGED <<printed, qKey, child>> /\ i[r] \in Child(r) /\ qKey # NoId
        /\ msgs[Ack(r)] > 0 /\ pc[r] = "msgrcv"
        /\ msgs' = [msgs EXCEPT ![Ack(r)] = msgs[Ack(r)] - 1]
        /\ i' = [i EXCEPT ![r] = i[r] + 1]
        /\ pc' = [pc EXCEPT ![r] = IF i[r] = num_proc[r] THEN "delete_msg" ELSE "msgsnd"]
    BY <1>5 DEF Receive, TypeInv, Live
  <2>2. PICK j \in 1..MaxProc : j = i[r]
    BY <1>a, <2>1
  <2>3. /\ i'[r] = j + 1 /\ j \in Nat /\ i[r] = j
        /\ \A s \in Runs \ {r} : i'[s] = i[s] /\ pc'[s] = pc[s]
        /\ pc'[r] = IF j = num_proc[r] THEN "delete_msg" ELSE "msgsnd"
    BY <1>0, <1>a, <2>1, <2>2
  <2>4. \A t \in Type : Given(t)' = Given(t)
    <3>1. ASSUME NEW t \in Type PROVE r \in Given(t)' <=> r \in Given(t)
      <4>1. t \in Nat /\ (j = num_proc[r] => (t \in Child(r) => t # j + 1))
        BY <1>0, <1>a, Bounds
      <4>2. r \in Given(t)' <=>
              t \in Child(r) /\ t <= j + 1 /\ (t = j + 1 => pc'[r] \notin {"create_msg", "fork", "msgsnd"})
        BY <1>a, <2>3 DEF Given
      <4>3. r \in Given(t) <=> t \in Child(r) /\ t <= j
        BY <1>a, <2>1, <2>3 DEF Given
      <4>4. t <= j + 1 <=> t <= j \/ t = j + 1
        BY <2>3, <4>1
      <4>5. ~ (j + 1 <= j)
        BY <2>3
      <4>6. QED
        BY <2>3, <4>1, <4>2, <4>3, <4>4, <4>5
    <3>2. ASSUME NEW t \in Type, NEW s \in Runs \ {r} PROVE s \in Given(t)' <=> s \in Given(t)
      BY <1>a, <2>3 DEF Given
    <3>3. \A t : Given(t) \subseteq Runs /\ Given(t)' \subseteq Runs
      BY DEF Given
    <3>4. QED
      BY <3>1, <3>2, <3>3
  <2>5. \A t : t # Ack(r) => Answers(t)' = Answers(t)
    BY <1>a, <2>3 DEF Answers
  <2>6. \A t \in Type : t # Ack(r) => Queued(t)' = Queued(t)
    BY <1>0, <2>1 DEF Queued
  <2>7. ASSUME NEW t \in Type, t # Ack(r) PROVE Backed(t)'
    BY <1>0, <1>b, <1>e, <2>1, <2>4, <2>5, <2>6, <1>n, <2>7
  <2>8. PICK t \in Type : t = Ack(r)
    BY <1>a
  <2>9. Queued(t)' = Queued(t) - 1
    BY <1>0, <2>1, <2>8 DEF Queued
  <2>10. Answers(t)' \subseteq Answers(t) \cup {<<r, j>>}
    <3>1. \A c \in 1..MaxProc : c < j + 1 <=> c < j \/ c = j
      BY <1>a, <2>3
    <3>2. QED
      BY <1>a, <2>3, <3>1 DEF Answers
  <2>11. /\ IsFiniteSet(Answers(t)') /\ Cardinality(Answers(t)') \in Nat
         /\ Cardinality(Answers(t)') <= Cardinality(Answers(t)) + 1
    BY <1>0, <2>10, OneMore DEF Finite
  <2>12. Backed(t)'
    <3>1. /\ Given(t)' = Given(t) /\ Printed(t)' = Printed(t)
          /\ Turns(t)' = Turns(t) /\ Owing(t)' = Owing(t)
      BY <1>b, <1>e, <2>1, <2>4
    <3>2. Finite(t)'
      BY <1>0, <2>11, <3>1 DEF Finite
    <3>3. QED
      BY <1>z, <2>9, <2>11, <3>1, <3>2 DEF Backed
  <2>13. QED
    BY <1>e, <2>1, <2>7, <2>8, <2>12 DEF BackedInv
<1>6. ASSUME NEW r \in Runs, delete_msg(r) PROVE BackedInv'
  <2>1. /\ UNCHANGED <<i, printed, child>> /\ qKey' = NoId /\ pc[r] = "delete_msg"
        /\ pc' = [pc EXCEPT ![r] = "done"]
    BY <1>6 DEF delete_msg, End
  <2>2. \A t : Given(t)' = Given(t)
    BY <1>0, <1>a, <2>1 DEF Given
  <2>3. \A t \in Type : Queued(t)' \in Nat /\ Queued(t)' <= Queued(t)
    BY <1>0, <2>1 DEF Queued
  <2>4. \A t \in Type : Backed(t)'
    BY <1>0, <1>b, <1>c, <1>e, <2>1, <2>2, <2>3, NothingGained
  <2>5. QED
    BY <1>e, <2>1, <2>4 DEF BackedInv
<1>7. ASSUME NEW r \in Runs, NEW c \in Child(r), ChildReceive(r, c) PROVE BackedInv'
  <2>1. /\ UNCHANGED <<i, pc, printed, qKey>> /\ qKey # NoId /\ msgs[c] > 0
        /\ child[r][c] = "msgrcv"
        /\ msgs' = [msgs EXCEPT ![c] = msgs[c] - 1]
        /\ child' = [child EXCEPT ![r][c] = "printf"]
    BY <1>7 DEF ChildReceive, ChildGoes, Live
  <2>2. PICK t \in Type : t = c
    BY <1>a, <1>7
  <2>3. /\ \A s \in Runs \ {r} : child'[s] = child[s]
        /\ \A d \in 1..MaxProc : d # t => child'[r][d] = child[r][d]
        /\ child'[r][t] = "printf" /\ child[r][t] = "msgrcv" /\ t \in 1..MaxProc
    BY <1>0, <1>a, <1>7, <2>1, <2>2
  <2>4. PrintsOnce'
    BY <1>0, <1>b, <2>1, <2>3 DEF PrintsOnce
  <2>5. \A u : Owing(u)' \subseteq Owing(u)
    BY <1>a, <2>3 DEF Owing
  <2>6. \A u \in Type : u # t => Turns(u)' = Turns(u)
    BY <1>a, <1>b, <2>1, <2>3 DEF Turns
  <2>7. \A u \in Type : u # t => Queued(u)' = Queued(u)
    BY <1>0, <2>1, <2>2 DEF Queued
  <2>8. ASSUME NEW u \in Type, u # t PROVE Backed(u)'
    BY <1>0, <1>b, <1>c, <1>d, <2>1, <2>5, <2>6, <2>7, <1>n, <2>8
  <2>9. Queued(t)' = Queued(t) - 1
    BY <1>0, <2>1, <2>2 DEF Queued
  <2>10. Turns(t)' \subseteq Turns(t) \cup {r}
    BY <1>a, <1>b, <2>1, <2>3 DEF Turns
  <2>11. /\ IsFiniteSet(Turns(t)') /\ Cardinality(Turns(t)') \in Nat
         /\ Cardinality(Turns(t)') <= Cardinality(Turns(t)) + 1
    BY <1>0, <2>10, OneMore DEF Finite
  <2>12. /\ IsFiniteSet(Owing(t)') /\ Cardinality(Owing(t)') \in Nat
         /\ Cardinality(Owing(t)') <= Cardinality(Owing(t))
    BY <1>0, <2>5, FS_Subset, FS_CardinalityType DEF Finite
  <2>13. Backed(t)'
    <3>1. Given(t)' = Given(t) /\ Printed(t)' = Printed(t) /\ Answers(t)' = Answers(t)
      BY <1>b, <1>c, <1>d, <2>1
    <3>2. Finite(t)'
      BY <1>0, <2>11, <2>12, <3>1 DEF Finite
    <3>3. QED
      BY <1>z, <2>9, <2>11, <2>12, <3>1, <3>2 DEF Backed
  <2>14. QED
    BY <2>4, <2>8, <2>13 DEF BackedInv
<1>8. ASSUME NEW r \in Runs, NEW c \in Child(r), ChildPrint(r, c) PROVE BackedInv'
  <2>1. /\ UNCHANGED <<i, pc, qKey, msgs>> /\ child[r][c] = "printf" /\ c \in 1..MaxProc
        /\ printed' = [printed EXCEPT ![r] = Append(printed[r], c)]
        /\ child' = [child EXCEPT ![r][c] = "msgsnd"]
    BY <1>a, <1>8 DEF ChildPrint, ChildGoes
  <2>2. \A s \in Runs : \A d : HasPrinted(s, d)' <=> HasPrinted(s, d) \/ (s = r /\ d = c)
    BY <2>1, LineAdded
  <2>3. /\ \A s \in Runs \ {r} : child'[s] = child[s]
        /\ \A d \in 1..MaxProc : d # c => child'[r][d] = child[r][d]
        /\ child'[r][c] = "msgsnd"
    BY <1>0, <2>1
  <2>4. PrintsOnce'
    BY <1>0, <2>2, <2>3 DEF PrintsOnce
  <2>5. ~ HasPrinted(r, c)
    BY <1>0, <2>1 DEF PrintsOnce
  <2>6. \A u : Turns(u)' = Turns(u)
    BY <1>a, <2>1, <2>2, <2>3 DEF Turns
  <2>7. \A u : u # Ack(r) => Printed(u)' = Printed(u) /\ Owing(u)' = Owing(u)
    BY <1>a, <2>2, <2>3 DEF Printed, Owing
  <2>8. ASSUME NEW u \in Type, u # Ack(r) PROVE Backed(u)'
    BY <1>0, <1>c, <1>d, <1>f, <2>1, <2>6, <2>7, <1>n, <2>8
  <2>9. PICK t \in Type : t = Ack(r)
    BY <1>a
  <2>10. Printed(t)' = Printed(t) \cup {<<r, c>>} /\ <<r, c>> \notin Printed(t)
    BY <1>a, <2>1, <2>2, <2>5, <2>9 DEF Printed
  <2>11. IsFiniteSet(Printed(t)') /\ Cardinality(Printed(t)') = Cardinality(Printed(t)) + 1
    BY <1>0, <2>10, OneIn DEF Finite
  <2>12. Owing(t)' \subseteq Owing(t) \cup {<<r, c>>}
    BY <1>a, <2>3 DEF Owing
  <2>13. /\ IsFiniteSet(Owing(t)') /\ Cardinality(Owing(t)') \in Nat
         /\ Cardinality(Owing(t)') <= Cardinality(Owing(t)) + 1
    BY <1>0, <2>12, OneMore DEF Finite
  <2>14. Backed(t)'
    <3>1. /\ Given(t)' = Given(t) /\ Queued(t)' = Queued(t)
          /\ Answers(t)' = Answers(t) /\ Turns(t)' = Turns(t)
      BY <1>c, <1>d, <1>f, <2>1, <2>6
    <3>2. Finite(t)'
      BY <1>0, <2>11, <2>13, <3>1 DEF Finite
    <3>3. QED
      BY <1>z, <2>11, <2>13, <3>1, <3>2 DEF Backed
  <2>15. QED
    BY <2>4, <2>8, <2>9, <2>14 DEF BackedInv
<1>9. ASSUME NEW r \in Runs, NEW c \in Child(r), ChildSend(r, c) PROVE BackedInv'
  <2>1. /\ UNCHANGED <<i, pc, printed, qKey>> /\ child[r][c] = "msgsnd" /\ c \in 1..MaxProc
        /\ qKey # NoId
        /\ msgs' = [msgs EXCEPT ![Ack(r)] = msgs[Ack(r)] + 1]
        /\ child' = [child EXCEPT ![r][c] = "done"]
    BY <1>a, <1>9 DEF ChildSend, ChildGoes, Live
  <2>2. \A s \in Runs : \A d \in 1..MaxProc :
               child'[s][d] = child[s][d] \/ child'[s][d] = "done"
    BY <1>0, <2>1
  <2>3. PrintsOnce' /\ \A t : Turns(t)' \subseteq Turns(t) /\ Owing(t)' \subseteq Owing(t)
    BY <1>g, <2>1, <2>2
  <2>4. \A u \in Type : u # Ack(r) => Queued(u)' = Queued(u)
    BY <1>0, <2>1 DEF Queued
  <2>5. ASSUME NEW u \in Type, u # Ack(r) PROVE Backed(u)'
    BY <1>0, <1>b, <1>c, <1>d, <2>1, <2>3, <2>4, <1>n, <2>5
  <2>6. PICK t \in Type : t = Ack(r)
    BY <1>a
  <2>7. Queued(t)' = Queued(t) + 1
    BY <1>0, <2>1, <2>6 DEF Queued
  <2>8. Owing(t)' = Owing(t) \ {<<r, c>>} /\ <<r, c>> \in Owing(t)
    <3>1. /\ \A s \in Runs \ {r} : child'[s] = child[s]
          /\ \A d \in 1..MaxProc : d # c => child'[r][d] = child[r][d]
          /\ child'[r][c] = "done"
      BY <1>0, <2>1
    <3>2. QED
      BY <1>a, <2>1, <2>6, <3>1 DEF Owing
  <2>9. IsFiniteSet(Owing(t)') /\ Cardinality(Owing(t)') = Cardinality(Owing(t)) - 1
    BY <1>0, <2>8, OneOut DEF Finite
  <2>10. /\ IsFiniteSet(Turns(t)') /\ Cardinality(Turns(t)') \in Nat
         /\ Cardinality(Turns(t)') <= Cardinality(Turns(t))
    BY <1>0, <2>3, FS_Subset, FS_CardinalityType DEF Finite
  <2>11. Backed(t)'
    <3>1. Given(t)' = Given(t) /\ Printed(t)' = Printed(t) /\ Answers(t)' = Answers(t)
      BY <1>b, <1>c, <1>d, <2>1
    <3>2. Finite(t)'
      BY <1>0, <2>9, <2>10, <3>1 DEF Finite
    <3>3. QED
      BY <1>z, <2>7, <2>9, <2>10, <3>1, <3>2 DEF Backed
  <2>12. QED
    BY <2>3, <2>5, <2>6, <2>11 DEF BackedInv
<1>10. ASSUME NEW r \in Runs, NEW c \in Child(r), ChildQueueGone(r, c) \/ KillChild(r, c)
       PROVE  BackedInv'
  <2>1. UNCHANGED <<i, pc, printed, qKey, msgs>> /\ child' = [child EXCEPT ![r][c] = "done"]
    BY <1>10 DEF ChildQueueGone, KillChild, ChildGoes
  <2>2. \A s \in Runs : \A d \in 1..MaxProc :
               child'[s][d] = child[s][d] \/ child'[s][d] = "done"
    BY <1>0, <2>1
  <2>3. PrintsOnce' /\ \A t : Turns(t)' \subseteq Turns(t) /\ Owing(t)' \subseteq Owing(t)
    BY <1>g, <2>1, <2>2
  <2>4. ASSUME NEW t \in Type PROVE Backed(t)'
    BY <1>0, <1>b, <1>c, <1>d, <1>f, <2>1, <2>3, <1>n, <2>4
  <2>5. QED
    BY <2>3, <2>4 DEF BackedInv
<1>11. CASE UNCHANGED vars
  <2>1. UNCHANGED <<i, pc, printed, qKey, msgs, child>>
    BY <1>11 DEF vars
  <2>2. ASSUME NEW t \in Type PROVE Backed(t)'
    BY <1>0, <1>b, <1>c, <1>d, <1>e, <1>f, <2>1, <1>n, <2>2
  <2>3. QED
    BY <1>e, <2>1, <2>2 DEF BackedInv
<1>12. QED
  BY <1>1, <1>2, <1>3, <1>4, <1>5, <1>6, <1>7, <1>8, <1>9, <1>10, <1>11
  DEF Next, Parent, Signal, ChildStep

(* However many runs share one queue, with whatever numbers of children,   *)
(* and whatever signals leave in it, no answer and no turn is taken that   *)
(* no printed line and no turn of its type stands for.                     *)
THEOREM AnswersAreBacked == Spec => []AnswersBacked
<1>1. TypeInv /\ BackedInv => AnswersBacked
  BY Sizes DEF BackedInv, Backed, AnswersBacked
<1>2. Init => NotStarted
  BY DEF Init, NotStarted
<1>3. QED
  BY <1>1, <1>2, BackedInit, TypeInit, TypeStep, NotStartedStep, BackedStep, PTL DEF Spec
=============================================================================
