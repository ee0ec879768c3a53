------------------------------ MODULE PipeCopy ------------------------------
(***************************************************************************)
(* 3_sem/Test_task/6_task: a child reads a file and writes it to a pipe;   *)
(* the parent waits for the child to end and then prints what the pipe     *)
(* has.  The pipe must therefore take the whole file.                      *)
(*                                                                         *)
(* A file is a sequence of blocks of BUFF_SIZE, which is what one read()   *)
(* takes and what one write() to the pipe gives at once or waits for.      *)
(***************************************************************************)
EXTENDS Naturals, Sequences

CONSTANTS MaxLen,    \* the longest file has so many blocks
          Capacity,  \* the blocks that the pipe has room for
          Faulty,    \* whether calls may fail
          MaxKills   \* at most so many processes are killed

ASSUME PipeCopyAssumption ==
  /\ MaxLen \in Nat /\ Capacity \in Nat \ {0} /\ MaxKills \in Nat
  /\ Faulty \in BOOLEAN

VARIABLES
  file_len,  \* the blocks of the file
  parent,    \* its next call: "pipe", "fork", "waitpid", "read", "write" or "done"
  child,     \* "none", "open", "read", "write" or "done"
  pipe,      \* the blocks in the pipe
  next,      \* the block of the file that the child reads next
  block,     \* the block the parent has in its buffer
  printed,   \* what it has written to stdout
  status,    \* how both ended: "running", "success", "failure" or "killed"
  kills

vars == <<file_len, parent, child, pipe, next, block, printed, status, kills>>

File == [b \in 1..file_len |-> b]

Init ==
  /\ file_len \in 0..MaxLen
  /\ parent = "pipe"
  /\ child = "none"
  /\ pipe = <<>>
  /\ next = 1
  /\ block = 0
  /\ printed = <<>>
  /\ status = [parent |-> "running", child |-> "running"]
  /\ kills = 0

-----------------------------------------------------------------------------
(* The parent. *)

ParentExit(how) ==
  /\ parent' = "done"
  /\ status' = [status EXCEPT !.parent = how]

Pipe ==
  /\ parent = "pipe"
  /\ parent' = "fork"
  /\ UNCHANGED <<file_len, child, pipe, next, block, printed, status, kills>>

Fork ==
  /\ parent = "fork"
  /\ parent' = "waitpid"
  /\ child' = "open"
  /\ UNCHANGED <<file_len, pipe, next, block, printed, status, kills>>

(* Mutant: waitpid() with WNOHANG. *)
WaitNoHang ==
  /\ parent = "waitpid"
  /\ parent' = "read"
  /\ UNCHANGED <<file_len, child, pipe, next, block, printed, status, kills>>

(* waitpid() takes no status; close(fd[1]) follows. *)
Wait ==
  /\ parent = "waitpid"
  /\ child = "done"
  /\ parent' = "read"
  /\ UNCHANGED <<file_len, child, pipe, next, block, printed, status, kills>>

(* Mutant: the parent's own end for writing stays open. *)
EndOfFileNever ==
  /\ parent = "read"
  /\ pipe = <<>> /\ child = "none"
  /\ ParentExit("success")
  /\ UNCHANGED <<file_len, child, pipe, next, block, printed, kills>>

(* Nobody has the pipe open for writing any more: read() returns 0. *)
EndOfFile ==
  /\ parent = "read"
  /\ pipe = <<>> /\ child = "done"
  /\ ParentExit("success")
  /\ UNCHANGED <<file_len, child, pipe, next, block, printed, kills>>

Read ==
  /\ parent = "read"
  /\ pipe # <<>>
  /\ block' = Head(pipe)
  /\ pipe' = Tail(pipe)
  /\ parent' = "write"
  /\ UNCHANGED <<file_len, child, next, printed, status, kills>>

Write ==
  /\ parent = "write"
  /\ printed' = Append(printed, block)
  /\ parent' = "read"
  /\ UNCHANGED <<file_len, child, pipe, next, block, status, kills>>

ParentError ==
  /\ Faulty
  /\ parent \in {"pipe", "fork", "read", "write"}
  /\ ParentExit("failure")
  /\ UNCHANGED <<file_len, child, pipe, next, block, printed, kills>>

-----------------------------------------------------------------------------
(* The child. *)

ChildExit(how) ==
  /\ child' = "done"
  /\ status' = [status EXCEPT !.child = how]

ChildOpen ==
  /\ child = "open"
  /\ child' = "read"
  /\ UNCHANGED <<file_len, parent, pipe, next, block, printed, status, kills>>

ChildRead ==
  /\ child = "read"
  /\ IF next <= file_len
       THEN child' = "write" /\ UNCHANGED status
       ELSE ChildExit("success")
  /\ UNCHANGED <<file_len, parent, pipe, next, block, printed, kills>>

(* Mutant: a full pipe swallows the block. *)
ChildWriteLossy ==
  /\ child = "write"
  /\ parent # "done"
  /\ pipe' = IF Len(pipe) < Capacity THEN Append(pipe, next) ELSE pipe
  /\ next' = next + 1
  /\ child' = "read"
  /\ UNCHANGED <<file_len, parent, block, printed, status, kills>>

(* It waits until there is room for its block. *)
ChildWrite ==
  /\ child = "write"
  /\ parent # "done"
  /\ Len(pipe) < Capacity
  /\ pipe' = Append(pipe, next)
  /\ next' = next + 1
  /\ child' = "read"
  /\ UNCHANGED <<file_len, parent, block, printed, status, kills>>

(* Nobody has the pipe open for reading: SIGPIPE, also while it waits. *)
SigPipe ==
  /\ child = "write"
  /\ parent = "done"
  /\ ChildExit("killed")
  /\ UNCHANGED <<file_len, parent, pipe, next, block, printed, kills>>

ChildError ==
  /\ Faulty
  /\ child \in {"open", "read", "write"}
  /\ ChildExit("failure")
  /\ UNCHANGED <<file_len, parent, pipe, next, block, printed, kills>>

-----------------------------------------------------------------------------
KillParent ==
  /\ kills < MaxKills
  /\ parent # "done"
  /\ ParentExit("killed")
  /\ kills' = kills + 1
  /\ UNCHANGED <<file_len, child, pipe, next, block, printed>>

KillChild ==
  /\ kills < MaxKills
  /\ child \notin {"none", "done"}
  /\ ChildExit("killed")
  /\ kills' = kills + 1
  /\ UNCHANGED <<file_len, parent, pipe, next, block, printed>>

Parent == Pipe \/ Fork \/ Wait \/ Read \/ Write \/ EndOfFile
Child == ChildOpen \/ ChildRead \/ ChildWrite \/ SigPipe
Trouble == ParentError \/ ChildError \/ KillParent \/ KillChild

Next == Parent \/ Child \/ Trouble

Spec == Init /\ [][Next]_vars

(* The system runs a process that does not wait; no call has to fail. *)
FairSpec == Spec /\ WF_vars(Parent) /\ WF_vars(Child)

-----------------------------------------------------------------------------
(* Properties. *)

TypeOK ==
  /\ file_len \in 0..MaxLen
  /\ parent \in {"pipe", "fork", "waitpid", "read", "write", "done"}
  /\ child \in {"none", "open", "read", "write", "done"}
  /\ pipe \in Seq(1..MaxLen) /\ Len(pipe) <= Capacity
  /\ next \in 1..MaxLen + 1
  /\ block \in 0..MaxLen
  /\ printed \in Seq(1..MaxLen)
  /\ status \in [{"parent", "child"} -> {"running", "success", "failure", "killed"}]
  /\ kills \in 0..MaxKills

(* What is on the screen is the beginning of the file, in its order, with   *)
(* any failure or kill of either process.                                   *)
OutputIsPrefix ==
  Len(printed) <= file_len /\ \A k \in 1..Len(printed) : printed[k] = k

(* The parent begins to print only when the pipe holds all that there will  *)
(* ever be: where the child ended well, the whole file, which then is no    *)
(* longer than the pipe; and it does not succeed with less.                 *)
ReadsWhenAllIsThere ==
  parent \in {"read", "write"} /\ status.child = "success" =>
    /\ file_len <= Capacity
    /\ printed \o (IF parent = "write" THEN <<block>> ELSE <<>>) \o pipe = File

(* The parent's exit status does not tell whether the child read the whole  *)
(* file, but it succeeds only when all that the child wrote is printed, and *)
(* with the whole file if the child did.                                    *)
SuccessMeansAllPrinted ==
  status.parent = "success" =>
    /\ Len(printed) = next - 1
    /\ status.child = "success" => printed = File

(* A file that the pipe has room for is printed, unless a call fails or a   *)
(* process is killed; for a longer one both processes wait for each other.  *)
DeliversWhatFits ==
  <>( \/ status.parent = "success" /\ printed = File
      \/ kills > 0
      \/ status.parent = "failure" \/ status.child = "failure"
      \/ file_len > Capacity )
=============================================================================
