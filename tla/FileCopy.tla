------------------------------ MODULE FileCopy ------------------------------
(***************************************************************************)
(* What the inter-process exercises of the repository promise: a set of    *)
(* copiers, each of which reproduces a file chunk by chunk, in order, and  *)
(* reports success only when its copy is a whole file.  A copier may give  *)
(* up at any time, but then it does not report success.                    *)
(*                                                                         *)
(* The shared-memory, FIFO and signal programs differ in how the chunks    *)
(* travel; each is compared with this specification by a refinement        *)
(* mapping in its own module.                                              *)
(***************************************************************************)
EXTENDS Naturals, Sequences

CONSTANTS Copier,   \* the processes that write a copy to their stdout
          Files     \* the contents that can be copied, sequences of chunks

VARIABLES copied,   \* copied[c]: what c has written so far
          outcome   \* outcome[c]: "running", "success" or "failure"

vars == <<copied, outcome>>

IsPrefixOf(s, f) ==
  /\ Len(s) <= Len(f)
  /\ \A i \in 1..Len(s) : s[i] = f[i]

TypeOK ==
  /\ \A c \in Copier : \E f \in Files : IsPrefixOf(copied[c], f)
  /\ outcome \in [Copier -> {"running", "success", "failure"}]

Init ==
  /\ copied  = [c \in Copier |-> <<>>]
  /\ outcome = [c \in Copier |-> "running"]

(* One more chunk of a file that agrees with everything written so far. *)
Deliver(c) ==
  /\ outcome[c] = "running"
  /\ \E f \in Files :
        /\ IsPrefixOf(copied[c], f)
        /\ Len(copied[c]) < Len(f)
        /\ copied' = [copied EXCEPT ![c] = Append(@, f[Len(@) + 1])]
  /\ UNCHANGED outcome

Succeed(c) ==
  /\ outcome[c] = "running"
  /\ copied[c] \in Files
  /\ outcome' = [outcome EXCEPT ![c] = "success"]
  /\ UNCHANGED copied

Abort(c) ==
  /\ outcome[c] = "running"
  /\ outcome' = [outcome EXCEPT ![c] = "failure"]
  /\ UNCHANGED copied

Next == \E c \in Copier : Deliver(c) \/ Succeed(c) \/ Abort(c)

Spec == Init /\ [][Next]_vars
=============================================================================
