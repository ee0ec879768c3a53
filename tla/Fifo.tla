-------------------------------- MODULE Fifo --------------------------------
(***************************************************************************)
(* 3_sem/Fifo: write_fifo sends a file to read_fifo.  A reader makes a     *)
(* private FIFO named after its pid and sends the pid through the general  *)
(* FIFO, which all processes know; a writer takes a pid from there and     *)
(* writes its file to that reader's private FIFO.                          *)
(*                                                                         *)
(* The general FIFO is read by the writers and written by the readers.     *)
(* What a process has open follows from its pc, which names the call that  *)
(* comes next; "asleep" is inside the open() of the general FIFO.          *)
(***************************************************************************)
EXTENDS Naturals, Sequences, FiniteSets

CONSTANTS Writers,   \* runs of write_fifo
          Readers,   \* runs of read_fifo, which stand for their pids
          FileLen,   \* blocks of BUFF_SIZE bytes in each writer's file
          Capacity,  \* blocks a FIFO holds
          Timeouts,  \* whether five seconds may pass in select()
          Faulty,    \* the runs whose file or stdout calls may fail
          MaxKills,  \* nobody is killed from outside once this many have died so
          NoPid      \* the pid a writer holds before it has read one

Proc == Writers \cup Readers

ASSUME FifoAssumption == /\ Writers \cap Readers = {}
                         /\ NoPid \notin Proc
                         /\ FileLen \in Nat
                         /\ Capacity \in Nat \ {0}
                         /\ Timeouts \in BOOLEAN
                         /\ Faulty \subseteq Proc
                         /\ MaxKills \in Nat

VARIABLES
  pc,
  status,    \* "running", or how the process ended
  general,   \* the pids in the general FIFO
  private,   \* the blocks in each reader's private FIFO
  pid,       \* the pid each writer has read
  served,    \* whether a writer has ever opened the reader's private FIFO
  pos,       \* blocks each writer has read from its file
  buff,      \* the block each reader has read and not yet printed
  out        \* what each reader has written to its stdout

vars == <<pc, status, general, private, pid, served, pos, buff, out>>

Block(w, k) == <<w, k>>
File(w) == [k \in 1..FileLen |-> Block(w, k)]
Blocks == {Block(w, k) : w \in Writers, k \in 1..FileLen}

Init ==
  /\ pc = [p \in Proc |-> IF p \in Writers THEN "open_general" ELSE "open_private"]
  /\ status = [p \in Proc |-> "running"]
  /\ general = <<>>
  /\ private = [r \in Readers |-> <<>>]
  /\ pid = [w \in Writers |-> NoPid]
  /\ served = [r \in Readers |-> FALSE]
  /\ pos = [w \in Writers |-> 0]
  /\ buff = [r \in Readers |-> <<>>]
  /\ out = [r \in Readers |-> <<>>]

HasGeneral(p) == pc[p] \notin {"open_private", "open_general", "close_private", "done"}
GeneralRdEnds == {w \in Writers : HasGeneral(w)}
GeneralWrEnds == {r \in Readers : HasGeneral(r)}

HasPrivate(r) == pc[r] \notin {"open_private", "done"}
PrivateWrEnds(r) ==
  {w \in Writers : /\ pid[w] = r
                   /\ pc[w] \in {"open_file", "read_file", "write_private",
                                 "close_general", "close_private", "exit"}}

Go(p, from, to) ==
  /\ pc[p] = from
  /\ pc' = [pc EXCEPT ![p] = to]

(* p lets go of the general FIFO; with its last end the pids in it go.     *)
LetGo(p) ==
  general' = IF \E q \in Proc \ {p} : HasGeneral(q) THEN general ELSE <<>>

End(p, how) ==
  /\ pc' = [pc EXCEPT ![p] = "done"]
  /\ status' = [status EXCEPT ![p] = how]
  /\ LetGo(p)

(* perror() and exit (EXIT_FAILURE): the FIFOs stay open up to the exit.   *)
Fail(p) ==
  /\ pc' = [pc EXCEPT ![p] = "exit"]
  /\ status' = [status EXCEPT ![p] = "failure"]

IOError(p, from) ==
  /\ p \in Faulty
  /\ pc[p] = from
  /\ Fail(p)
  /\ UNCHANGED <<general, private, pid, served, pos, buff, out>>

(* open() of the general FIFO in blocking mode: it counts as an end and    *)
(* wakes whoever sleeps for it at once, and returns when the other end is  *)
(* there or has been.                                                      *)
OpenGeneral(p, others, next, othersnext) ==
  /\ pc[p] = "open_general"
  /\ pc' = [q \in Proc |->
              IF q = p
                THEN IF \E o \in others : HasGeneral(o) THEN next ELSE "asleep"
                ELSE IF q \in others /\ pc[q] = "asleep" THEN othersnext ELSE pc[q]]
  /\ UNCHANGED <<status, general, private, pid, served, pos, buff, out>>

-----------------------------------------------------------------------------
(* read_fifo *)

OpenPrivate(r) ==
  /\ Go(r, "open_private", "open_general")
  /\ UNCHANGED <<status, general, private, pid, served, pos, buff, out>>

OpenGeneralWr(r) == OpenGeneral(r, Writers, "transfer_pid", "get_pid")

(* With no read end left the write() raises SIGPIPE. *)
TransferPid(r) ==
  /\ pc[r] = "transfer_pid"
  /\ IF GeneralRdEnds = {}
       THEN End(r, "killed")
       ELSE /\ general' = Append(general, r)
            /\ Go(r, "transfer_pid", "select")
            /\ UNCHANGED status
  /\ UNCHANGED <<private, pid, served, pos, buff, out>>

(* Data, or the end of file that a writer leaves: a FIFO that nobody has   *)
(* opened for writing since is not at its end.                             *)
Readable(r) ==
  \/ private[r] # <<>>
  \/ served[r] /\ PrivateWrEnds(r) = {}

(* Mutant: is_can_read_fifo() is not called. *)
SelectSkipped(r) ==
  /\ Go(r, "select", "read_private")
  /\ UNCHANGED <<status, general, private, pid, served, pos, buff, out>>

Select(r) ==
  /\ Readable(r)
  /\ Go(r, "select", "read_private")
  /\ UNCHANGED <<status, general, private, pid, served, pos, buff, out>>

SelectTimeout(r) ==
  /\ Timeouts
  /\ pc[r] = "select"
  /\ ~ Readable(r)
  /\ Fail(r)
  /\ UNCHANGED <<general, private, pid, served, pos, buff, out>>

(* Mutant: opened O_RDWR the reader is itself a writer and sees no end. *)
ReadPrivateNoEnd(r) ==
  /\ private[r] # <<>>
  /\ buff' = [buff EXCEPT ![r] = <<Head(private[r])>>]
  /\ private' = [private EXCEPT ![r] = Tail(@)]
  /\ Go(r, "read_private", "write_out")
  /\ UNCHANGED <<status, general, pid, served, pos, out>>

(* read() sleeps while the FIFO is empty and has a writer. *)
ReadPrivate(r) ==
  /\ Readable(r) \/ PrivateWrEnds(r) = {}
  /\ IF private[r] # <<>>
       THEN /\ buff' = [buff EXCEPT ![r] = <<Head(private[r])>>]
            /\ private' = [private EXCEPT ![r] = Tail(@)]
            /\ Go(r, "read_private", "write_out")
       ELSE /\ Go(r, "read_private", "close")
            /\ UNCHANGED <<buff, private>>
  /\ UNCHANGED <<status, general, pid, served, pos, out>>

WriteOut(r) ==
  \/ /\ Go(r, "write_out", "read_private")
     /\ out' = [out EXCEPT ![r] = @ \o buff[r]]
     /\ buff' = [buff EXCEPT ![r] = <<>>]
     /\ UNCHANGED <<status, general, private, pid, served, pos>>
  \/ IOError(r, "write_out")

(* Both close() calls and the return from main(). *)
ReaderReturns(r) ==
  /\ pc[r] = "close"
  /\ End(r, "success")
  /\ UNCHANGED <<private, pid, served, pos, buff, out>>

-----------------------------------------------------------------------------
(* write_fifo *)

OpenGeneralRd(w) == OpenGeneral(w, Readers, "get_pid", "transfer_pid")

(* Mutant: the pid stays in the FIFO for the next writer. *)
GetPidPeek(w) ==
  /\ general # <<>>
  /\ pid' = [pid EXCEPT ![w] = Head(general)]
  /\ Go(w, "get_pid", "open_other")
  /\ UNCHANGED <<status, general, private, served, pos, buff, out>>

(* read() returns 0 when no reader has the general FIFO open, and the pid  *)
(* stays uninitialised: a remainder of this process's stack, which has     *)
(* never held the pid of a reader.                                         *)
GetPid(w) ==
  /\ IF general # <<>>
       THEN /\ pid' = [pid EXCEPT ![w] = Head(general)]
            /\ general' = Tail(general)
       ELSE /\ GeneralWrEnds = {}
            /\ UNCHANGED <<pid, general>>
  /\ Go(w, "get_pid", "open_other")
  /\ UNCHANGED <<status, private, served, pos, buff, out>>

(* Mutant: without O_NONBLOCK the open() waits for the reader. *)
OpenOtherBlocks(w) ==
  /\ pid[w] \in Readers /\ HasPrivate(pid[w])
  /\ Go(w, "open_other", "open_file")
  /\ served' = [served EXCEPT ![pid[w]] = TRUE]
  /\ UNCHANGED <<status, general, private, pid, pos, buff, out>>

(* ENOENT or, when the reader has gone, ENXIO. *)
OpenOther(w) ==
  /\ pc[w] = "open_other"
  /\ IF pid[w] \in Readers /\ HasPrivate(pid[w])
       THEN /\ Go(w, "open_other", "open_file")
            /\ served' = [served EXCEPT ![pid[w]] = TRUE]
            /\ UNCHANGED status
       ELSE Fail(w) /\ UNCHANGED served
  /\ UNCHANGED <<general, private, pid, pos, buff, out>>

OpenFile(w) ==
  \/ /\ Go(w, "open_file", "read_file")
     /\ UNCHANGED <<status, general, private, pid, served, pos, buff, out>>
  \/ IOError(w, "open_file")

ReadFile(w) ==
  \/ /\ pos[w] < FileLen
     /\ Go(w, "read_file", "write_private")
     /\ pos' = [pos EXCEPT ![w] = @ + 1]
     /\ UNCHANGED <<status, general, private, pid, served, buff, out>>
  \/ /\ pos[w] = FileLen
     /\ Go(w, "read_file", "close_general")
     /\ UNCHANGED <<status, general, private, pid, served, pos, buff, out>>
  \/ IOError(w, "read_file")

WritePrivate(w) ==
  /\ pc[w] = "write_private"
  /\ IF HasPrivate(pid[w])
       THEN /\ Len(private[pid[w]]) < Capacity
            /\ private' = [private EXCEPT ![pid[w]] = Append(@, Block(w, pos[w]))]
            /\ Go(w, "write_private", "read_file")
            /\ UNCHANGED <<status, general>>
       ELSE End(w, "killed") /\ UNCHANGED private
  /\ UNCHANGED <<pid, served, pos, buff, out>>

CloseGeneral(w) ==
  /\ Go(w, "close_general", "close_private")
  /\ LetGo(w)
  /\ UNCHANGED <<status, private, pid, served, pos, buff, out>>

WriterReturns(w) ==
  /\ pc[w] = "close_private"
  /\ End(w, "success")
  /\ UNCHANGED <<private, pid, served, pos, buff, out>>

-----------------------------------------------------------------------------
Exit(p) ==
  /\ pc[p] = "exit"
  /\ End(p, status[p])
  /\ UNCHANGED <<private, pid, served, pos, buff, out>>

Kill(p) ==
  /\ Cardinality({q \in Proc : status[q] = "killed"}) < MaxKills
  /\ status[p] = "running"
  /\ pc[p] \notin {"open_private", "done"}
  /\ End(p, "killed")
  /\ UNCHANGED <<private, pid, served, pos, buff, out>>

Reader(r) ==
  \/ OpenPrivate(r) \/ OpenGeneralWr(r) \/ TransferPid(r) \/ Select(r)
  \/ SelectTimeout(r) \/ ReadPrivate(r) \/ WriteOut(r) \/ ReaderReturns(r)
  \/ Exit(r)

Writer(w) ==
  \/ OpenGeneralRd(w) \/ GetPid(w) \/ OpenOther(w) \/ OpenFile(w) \/ ReadFile(w)
  \/ WritePrivate(w) \/ CloseGeneral(w) \/ WriterReturns(w) \/ Exit(w)

Next ==
  \/ \E r \in Readers : Reader(r)
  \/ \E w \in Writers : Writer(w)
  \/ \E p \in Proc : Kill(p)

Spec == Init /\ [][Next]_vars

(* The system runs every process that is not asleep in a call, and the     *)
(* five seconds of a select() pass.                                        *)
FairSpec ==
  /\ Spec
  /\ \A r \in Readers : WF_vars(Reader(r))
  /\ \A w \in Writers : WF_vars(Writer(w))

-----------------------------------------------------------------------------
(* Properties. *)

TypeOK ==
  /\ pc \in [Proc -> {"open_private", "open_general", "asleep", "transfer_pid",
                      "select", "read_private", "write_out", "close", "get_pid",
                      "open_other", "open_file", "read_file", "write_private",
                      "close_general", "close_private", "exit", "done"}]
  /\ status \in [Proc -> {"running", "success", "failure", "killed"}]
  /\ general \in Seq(Readers)
  /\ private \in [Readers -> Seq(Blocks)]
  /\ \A r \in Readers : Len(private[r]) <= Capacity
  /\ pid \in [Writers -> Readers \cup {NoPid}]
  /\ served \in [Readers -> BOOLEAN]
  /\ pos \in [Writers -> 0..FileLen]
  /\ buff \in [Readers -> Seq(Blocks)]
  /\ out \in [Readers -> Seq(Blocks)]

(* A private FIFO is private: at most one writer ever has its name, and    *)
(* while a reader's pid is on offer to others none has it.                 *)
OneWriterEach ==
  \A r \in Readers :
    /\ Cardinality({w \in Writers : pid[w] = r}) <= 1
    /\ \A w \in Writers, k \in 1..Len(general) :
         general[k] = r => pid[w] # r

IsPrefixOfFile(s, w) ==
  Len(s) <= FileLen /\ \A k \in 1..Len(s) : s[k] = Block(w, k)

(* What a reader has printed, holds in its buffer and will find in its     *)
(* FIFO is, in this order, a prefix of one writer's file: no block is      *)
(* lost, repeated or mixed with another writer's, whoever is killed.       *)
StreamIsPrefix ==
  \A r \in Readers : \E w \in Writers :
    IsPrefixOfFile(out[r] \o buff[r] \o private[r], w)

(* A reader that returns 0 has printed the whole file of its writer, or    *)
(* its writer was killed or failed: an end of file never comes from a      *)
(* writer that has not opened the FIFO yet, or that only waits for room.   *)
ShortCopyMeansWriterEnded ==
  \A r \in Readers : status[r] = "success" =>
    \E w \in Writers :
      pid[w] = r /\ (out[r] = File(w) \/ status[w] \in {"failure", "killed"})

(* A reader that waits for its writer and a writer that has met a reader   *)
(* come to an end, whoever is killed.                                      *)
ReaderEnds == \A r \in Readers : pc[r] = "select" ~> pc[r] = "done"
WriterEnds == \A w \in Writers : pc[w] = "get_pid" ~> pc[w] = "done"
=============================================================================
