------------------------------- MODULE Select -------------------------------
(***************************************************************************)
(* 3_sem/Select: a file is to pass through a chain of children.  Child 0   *)
(* reads it; the parent takes what child i writes, with non-blocking pipes *)
(* and one buffer for each pair, and gives it to child i + 1.  The last    *)
(* child is to print it.                                                   *)
(*                                                                         *)
(* Only amounts are kept: what is in the file, a pipe or a buffer, in      *)
(* units that a child reads and writes one at a time; calls do not fail.   *)
(***************************************************************************)
EXTENDS Integers, FiniteSets

CONSTANTS MaxProc,   \* most children that are asked for
          FileLen,   \* the units of the file
          PipeSize,  \* the units a pipe has room for
          size_buf   \* the size of the parent's buffers; all but FileLen are above 0

VARIABLES
  num_proc, \* the argument
  parent,   \* "fork", "select", "turn", "free", "waitpid", "done" or "failed"
  i_chld,   \* the first child of the chain that counts
  i,        \* the loops over the children
  ready,    \* [rd, wr]: what select() has left in its sets
  con,      \* inf_con: the parent's ends and buffer between i and i + 1
  child,    \* "none", "read", "write" or "done"
  left,     \* what child 0 has not read of the file
  toPrnt,   \* what is in the pipe of each child to the parent
  fromPrnt  \* what is in the pipe of each child from the parent

vars == <<num_proc, parent, i_chld, i, ready, con, child, left, toPrnt, fromPrnt>>

Children == 0..num_proc - 1

NoneReady == [rd |-> {}, wr |-> {}]

Init ==
  /\ num_proc \in 1..MaxProc
  /\ parent = "fork"
  /\ i_chld = 0
  /\ i = 0
  /\ ready = NoneReady
  /\ con = [c \in Children |-> [fd_rd |-> TRUE, fd_wr |-> TRUE, cur_read |-> 0, cur_write |-> 0,
                                full |-> 0, empty |-> size_buf]]
  /\ child = [c \in Children |-> "none"]
  /\ left = FileLen
  /\ toPrnt = [c \in Children |-> 0]
  /\ fromPrnt = [c \in Children |-> 0]

-----------------------------------------------------------------------------
(* Who else has an end of a pipe open.  A child is forked with the parent's *)
(* ends of the pipes made before its own and keeps them; the parent closes  *)
(* one only when read() or write() returns 0.                               *)

Alive(c) == child[c] # "done"

ReaderOf(c) == con[c].fd_rd \/ \E d \in Children : d > c /\ Alive(d)

(* The end for writing into the pipe of child c + 1. *)
WriterInto(c) == con[c].fd_wr \/ \E d \in Children : d > c + 1 /\ Alive(d)

-----------------------------------------------------------------------------
(* The parent. *)

Fork ==
  /\ parent = "fork"
  /\ child' = [child EXCEPT ![i] = "read"]
  /\ IF i + 1 < num_proc
       THEN i' = i + 1 /\ UNCHANGED parent
       ELSE i' = 0 /\ parent' = "select"
  /\ UNCHANGED <<i_chld, ready, con, left, toPrnt, fromPrnt>>

(* The pairs whose ends go into the sets of select(). *)
Asked == i_chld..num_proc - 2
AskedRd == {c \in Asked : con[c].fd_rd /\ con[c].empty > 0}
AskedWr == {c \in Asked : con[c].fd_wr /\ con[c].full > 0}

(* select() has no timeout: it returns when one of them is ready, which for *)
(* reading includes the end of file.                                        *)
SelectCall ==
  LET rd == {c \in AskedRd : toPrnt[c] > 0 \/ ~Alive(c)}
      wr == {c \in AskedWr : fromPrnt[c + 1] < PipeSize \/ ~Alive(c + 1)}
  IN  /\ parent = "select"
      /\ i_chld < num_proc
      /\ rd \cup wr # {}
      /\ ready' = [rd |-> rd, wr |-> wr]
      /\ i' = i_chld
      /\ parent' = "turn"
      /\ UNCHANGED <<i_chld, con, child, left, toPrnt, fromPrnt>>

(* What read() of n units does to a buffer. *)
AfterRead(k, n) ==
  LET full == IF k.cur_read >= k.cur_write THEN k.full + n ELSE k.full
  IN  IF k.cur_read + n = size_buf
        THEN [k EXCEPT !.full = full, !.cur_read = 0, !.empty = k.cur_write]
        ELSE [k EXCEPT !.full = full, !.cur_read = @ + n, !.empty = @ - n]

(* What write() of n units does to it. *)
AfterWrite(k, n) ==
  LET empty == IF k.cur_write >= k.cur_read THEN k.empty + n ELSE k.empty
  IN  IF k.cur_write + n = size_buf
        THEN [k EXCEPT !.empty = empty, !.cur_write = 0, !.full = k.cur_read]
        ELSE [k EXCEPT !.empty = empty, !.cur_write = @ + n, !.full = @ - n]

Least(a, b) == IF a < b THEN a ELSE b

(* A turn for pair i as far as the reading: the units read, 0 at the end of *)
(* the file, or None where nothing is to be read.                           *)
None == -1
ToRead ==
  IF i \in ready.rd /\ con[i].empty > 0 THEN Least(toPrnt[i], con[i].empty) ELSE None

(* The write offers as many units as the buffer has EMPTY, and the pipe     *)
(* takes those it has room for.                                             *)
ToWrite(k) ==
  IF i \in ready.wr /\ k.full > 0 THEN Least(k.empty, PipeSize - fromPrnt[i + 1]) ELSE None

(* break: the next select(). *)
Break(k) ==
  /\ con' = [con EXCEPT ![i] = k]
  /\ parent' = "select"
  /\ UNCHANGED <<i_chld, i>>

NextTurn(k, first) ==
  /\ con' = [con EXCEPT ![i] = k]
  /\ i_chld' = first
  /\ i' = i + 1
  /\ UNCHANGED parent

(* close(fd_wr < 0) closes descriptor 0, or 1 where fd_wr is -1; the end    *)
(* for writing stays open.  It fails when a pair before has closed the same.*)
CloseFails(k) == \E c \in 0..i_chld - 1 : con[c].fd_wr = k.fd_wr

(* The end of a turn: a pair that is through. *)
Through(k) ==
  IF ~k.fd_rd /\ k.full = 0
    THEN IF i # i_chld \/ CloseFails(k)
           THEN parent' = "failed" /\ UNCHANGED <<i_chld, i, con>>
           ELSE NextTurn(k, i_chld + 1)
    ELSE NextTurn(k, i_chld)

Turn ==
  /\ parent = "turn"
  /\ i < num_proc - 1
  /\ IF ToRead = 0
       THEN /\ Break([con[i] EXCEPT !.fd_rd = FALSE])
            /\ UNCHANGED <<toPrnt, fromPrnt>>
       ELSE LET k == IF ToRead = None THEN con[i] ELSE AfterRead(con[i], ToRead)
                n == ToWrite(k)
            IN  /\ toPrnt' = [toPrnt EXCEPT ![i] = IF ToRead = None THEN @ ELSE @ - ToRead]
                /\ fromPrnt' = IF n = None THEN fromPrnt ELSE [fromPrnt EXCEPT ![i + 1] = @ + n]
                /\ IF n # None /\ ~Alive(i + 1)   \* SIGPIPE
                     THEN parent' = "failed" /\ UNCHANGED <<i_chld, i, con>>
                   ELSE IF n = 0 THEN Break([k EXCEPT !.fd_wr = FALSE])
                   ELSE IF n = None THEN Through(k)
                   ELSE Through(AfterWrite(k, n))
  /\ UNCHANGED <<ready, child, left>>

LastTurn ==
  /\ parent = "turn"
  /\ i >= num_proc - 1
  /\ parent' = "select"
  /\ UNCHANGED <<i_chld, i, ready, con, child, left, toPrnt, fromPrnt>>

(* The loop that frees the buffers does not count i_prnt up: it ends only   *)
(* where it does not begin.                                                 *)
Free ==
  /\ parent = "select"
  /\ i_chld >= num_proc
  /\ parent' = IF num_proc = 1 THEN "waitpid" ELSE "free"
  /\ UNCHANGED <<i_chld, i, ready, con, child, left, toPrnt, fromPrnt>>

Wait ==
  /\ parent = "waitpid"
  /\ \A c \in Children : ~Alive(c)
  /\ parent' = "done"
  /\ UNCHANGED <<i_chld, i, ready, con, child, left, toPrnt, fromPrnt>>

-----------------------------------------------------------------------------
(* The children: read() and write() wait. *)

ChildGoes(c, to) == child' = [child EXCEPT ![c] = to]

ChildReadFile ==
  /\ child[0] = "read"
  /\ left > 0
  /\ left' = left - 1
  /\ ChildGoes(0, "write")
  /\ UNCHANGED <<parent, i_chld, i, ready, con, toPrnt, fromPrnt>>

ChildRead(c) ==
  /\ c > 0
  /\ child[c] = "read"
  /\ fromPrnt[c] > 0
  /\ fromPrnt' = [fromPrnt EXCEPT ![c] = @ - 1]
  /\ ChildGoes(c, "write")
  /\ UNCHANGED <<parent, i_chld, i, ready, con, left, toPrnt>>

(* The end of what it reads, and exit(). *)
ChildEnd(c) ==
  /\ child[c] = "read"
  /\ IF c = 0 THEN left = 0 ELSE fromPrnt[c] = 0 /\ ~WriterInto(c - 1)
  /\ ChildGoes(c, "done")
  /\ UNCHANGED <<parent, i_chld, i, ready, con, left, toPrnt, fromPrnt>>

(* i_chld is never num_proc: the last child too writes to its pipe. *)
ChildWrite(c) ==
  /\ child[c] = "write"
  /\ ReaderOf(c)
  /\ toPrnt[c] < PipeSize
  /\ toPrnt' = [toPrnt EXCEPT ![c] = @ + 1]
  /\ ChildGoes(c, "read")
  /\ UNCHANGED <<parent, i_chld, i, ready, con, left, fromPrnt>>

(* SIGPIPE, or SIGTERM from the death of the parent. *)
ChildKilled(c) ==
  /\ child[c] \in {"read", "write"}
  /\ (child[c] = "write" /\ ~ReaderOf(c)) \/ parent \in {"done", "failed"}
  /\ ChildGoes(c, "done")
  /\ UNCHANGED <<parent, i_chld, i, ready, con, left, toPrnt, fromPrnt>>

Parent == Fork \/ SelectCall \/ Turn \/ LastTurn \/ Free \/ Wait

Child(c) ==
  \/ c = 0 /\ ChildReadFile
  \/ ChildRead(c) \/ ChildEnd(c) \/ ChildWrite(c) \/ ChildKilled(c)

Next == UNCHANGED num_proc /\ (Parent \/ \E c \in Children : Child(c))

(* The system runs every process that does not wait. *)
FairSpec ==
  /\ Init /\ [][Next]_vars
  /\ WF_vars(UNCHANGED num_proc /\ Parent)
  /\ \A c \in 0..MaxProc - 1 :
       WF_vars(UNCHANGED num_proc /\ c < num_proc /\ Child(c))

-----------------------------------------------------------------------------
(* Properties. *)

(* The program comes to its end, as the script m expects, which prints END  *)
(* after it.                                                                *)
Ends == <>(parent \in {"done", "failed"})

=============================================================================
