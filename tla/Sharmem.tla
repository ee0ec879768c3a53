------------------------------ MODULE Sharmem -------------------------------
(***************************************************************************)
(* 3_sem/Sharmem: write_sharmem sends a file to read_sharmem through one   *)
(* page of shared memory.  Any number of writers and readers may be        *)
(* started; semaphores pair one writer with one reader at a time.          *)
(*                                                                         *)
(* Every action is one system call of writer() or reader(), or one access  *)
(* to the shared page.  pc names the call that comes next, after the       *)
(* struct sembuf it passes where it is a semop().                          *)
(***************************************************************************)
EXTENDS SysVIPC, Sequences

CONSTANTS Writers,  \* runs of write_sharmem
          Readers,  \* runs of read_sharmem
          FileLen   \* pages in each writer's file

ASSUME SharmemAssumption == /\ Proc = Writers \cup Readers
                            /\ Writers \cap Readers = {}
                            /\ FileLen \in Nat

VARIABLES
  pos,      \* pages each writer has read from its file
  num_symb, \* last num_symb of each process: 0, or 1 for "some bytes"
  out       \* what each reader has written to its stdout

datavars == <<pos, num_symb, out>>
vars == <<procvars, semvars, shmvars, datavars>>

Chunk(w, i) == <<w, i>>
File(w) == [i \in 1..FileLen |-> Chunk(w, i)]

Init ==
  /\ IPCInit("create_sem")
  /\ pos = [w \in Writers |-> 0]
  /\ num_symb = [p \in Proc |-> 0]
  /\ out = [r \in Readers |-> <<>>]

(* p's file or stdout call fails. *)
IOError(p, from) ==
  /\ p \in Faulty
  /\ pc[p] = from
  /\ Fail(p)
  /\ UNCHANGED <<semvars, shmvars, datavars>>

-----------------------------------------------------------------------------
(* Common prologue of writer() and reader(). *)

CreateSem(p) == create_sem(p, "create_sem", "create_shm") /\ UNCHANGED datavars
CreateShm(p) == create_shm(p, "create_shm", "link_shm")   /\ UNCHANGED datavars
LinkShm(p)   == link_shm(p, "link_shm", "alone")          /\ UNCHANGED datavars

WaitPrevConnect(p) ==
  /\ Semop(p, "wait_prev_connect", "setval", val["NUM_PROC"] = 0, None, None)
  /\ UNCHANGED datavars

-----------------------------------------------------------------------------
(* writer() *)

(* Mutant: {ALONE_WR, 0} is missing. *)
AloneWrNoWait(w) ==
  /\ Semop(w, "alone", "wait_prev_connect", TRUE,
           [ALONE_WR |-> 1], [ALONE_WR |-> 1])
  /\ UNCHANGED datavars

AloneWr(w) ==
  /\ Semop(w, "alone", "wait_prev_connect", val["ALONE_WR"] = 0,
           [ALONE_WR |-> 1], [ALONE_WR |-> 1])
  /\ UNCHANGED datavars

SetFull(w) == SetVal(w, "setval", "sync", "FULL", 0) /\ UNCHANGED datavars

(* Mutant: the writer posts the wrong handshake semaphore. *)
WriterSyncSwapped(w) ==
  /\ Semop(w, "sync", "connect", TRUE, [SYNC_WR |-> 1], None)
  /\ UNCHANGED datavars

WriterSync(w) ==
  /\ Semop(w, "sync", "connect", TRUE, [SYNC_RD |-> 1], None)
  /\ UNCHANGED datavars

(* {SYNC_WR, -1}, {NUM_PROC, 1, UNDO}, {FULL, 1}, {FULL, -1, UNDO} *)
WriterConnect(w) ==
  /\ Semop(w, "connect", "open", val["SYNC_WR"] > 0,
           [SYNC_WR |-> -1, NUM_PROC |-> 1], [NUM_PROC |-> 1, FULL |-> -1])
  /\ UNCHANGED datavars

Open(w) ==
  \/ /\ Go(w, "open", "p_empty")
     /\ UNCHANGED <<status, semvars, shmvars, datavars>>
  \/ IOError(w, "open")

PEmpty(w) ==
  /\ Semop(w, "p_empty", "check_wr", val["EMPTY"] > 0, [EMPTY |-> -1], None)
  /\ UNCHANGED datavars

(* Mutant: the reader is not checked to be there. *)
CheckWrSkipped(w) ==
  /\ Go(w, "check_wr", "fill")
  /\ UNCHANGED <<status, semvars, shmvars, datavars>>

CheckWr(w) == SemopNumProc(w, "check_wr", "fill") /\ UNCHANGED datavars

(* read() into tmp_buf and memcpy() to the page; at the end of the file    *)
(* tmp_buf holds the zeroes of the last memset().                          *)
Fill(w) ==
  \/ /\ att[w] # NoId
     /\ Go(w, "fill", "size")
     /\ LET more == pos[w] < FileLen
        IN  /\ page' = [page EXCEPT ![att[w]].data =
                          IF more THEN Chunk(w, pos[w] + 1) ELSE NoData]
            /\ pos' = [pos EXCEPT ![w] = IF more THEN @ + 1 ELSE @]
            /\ num_symb' = [num_symb EXCEPT ![w] = IF more THEN 1 ELSE 0]
     /\ UNCHANGED <<status, semvars, shmKey, shmId, att, out>>
  \/ IOError(w, "fill")
  \/ Segfault(w, "fill") /\ UNCHANGED datavars

Size(w) ==
  /\ Go(w, "size", "v_full")
  /\ page' = [page EXCEPT ![att[w]].size = num_symb[w]]
  /\ UNCHANGED <<status, semvars, shmKey, shmId, att, datavars>>

VFull(w) ==
  /\ Semop(w, "v_full", IF num_symb[w] > 0 THEN "p_empty" ELSE "end_wr",
           TRUE, [FULL |-> 1], None)
  /\ UNCHANGED datavars

(* Mutant: {NUM_PROC, -1} without SEM_UNDO. *)
EndWrNoUndo(w) ==
  /\ Semop(w, "end_wr", "unlink_shm",
           val["NUM_PROC"] > 0 /\ val["ALONE_WR"] > 0,
           [NUM_PROC |-> -1, ALONE_WR |-> -1],
           [FULL |-> 1, ALONE_WR |-> -1])
  /\ UNCHANGED datavars

(* {FULL, 1, UNDO}, {FULL, -1}, {NUM_PROC, -1, UNDO}, {ALONE_WR, -1, UNDO} *)
EndWr(w) ==
  /\ Semop(w, "end_wr", "unlink_shm",
           val["NUM_PROC"] > 0 /\ val["ALONE_WR"] > 0,
           [NUM_PROC |-> -1, ALONE_WR |-> -1],
           [FULL |-> 1, NUM_PROC |-> -1, ALONE_WR |-> -1])
  /\ UNCHANGED datavars

UnlinkWr(w)  == unlink_shm(w, "unlink_shm", "delete_shm") /\ UNCHANGED datavars
DeleteShm(w) == delete_shm(w, "delete_shm", "delete_sem") /\ UNCHANGED datavars
DeleteSem(w) == delete_sem(w, "delete_sem", "return")     /\ UNCHANGED datavars

-----------------------------------------------------------------------------
(* reader() *)

AloneRd(r) ==
  /\ Semop(r, "alone", "wait_prev_connect", val["ALONE_RD"] = 0,
           [ALONE_RD |-> 1], [ALONE_RD |-> 1])
  /\ UNCHANGED datavars

(* Mutant: room for two pages where there is one. *)
SetEmptyTwo(r) == SetVal(r, "setval", "sync", "EMPTY", 2) /\ UNCHANGED datavars

SetEmpty(r) == SetVal(r, "setval", "sync", "EMPTY", 1) /\ UNCHANGED datavars

ReaderSync(r) ==
  /\ Semop(r, "sync", "connect", TRUE, [SYNC_WR |-> 1], None)
  /\ UNCHANGED datavars

(* Mutant: a dying reader does not wake the writer. *)
ReaderConnectNoUndo(r) ==
  /\ Semop(r, "connect", "p_full", val["SYNC_RD"] > 0,
           [SYNC_RD |-> -1, NUM_PROC |-> 1], [NUM_PROC |-> 1])
  /\ UNCHANGED datavars

(* {SYNC_RD, -1}, {NUM_PROC, 1, UNDO}, {EMPTY, 1}, {EMPTY, -1, UNDO} *)
ReaderConnect(r) ==
  /\ Semop(r, "connect", "p_full", val["SYNC_RD"] > 0,
           [SYNC_RD |-> -1, NUM_PROC |-> 1], [NUM_PROC |-> 1, EMPTY |-> -1])
  /\ UNCHANGED datavars

PFull(r) ==
  /\ Semop(r, "p_full", "check_rd", val["FULL"] > 0, [FULL |-> -1], None)
  /\ UNCHANGED datavars

(* Mutant: the writer is not checked to be there. *)
CheckRdSkipped(r) ==
  /\ Go(r, "check_rd", "read_size")
  /\ UNCHANGED <<status, semvars, shmvars, datavars>>

CheckRd(r) == SemopNumProc(r, "check_rd", "read_size") /\ UNCHANGED datavars

ReadSize(r) ==
  \/ /\ att[r] # NoId
     /\ Go(r, "read_size", "write")
     /\ num_symb' = [num_symb EXCEPT ![r] = page[att[r]].size]
     /\ UNCHANGED <<status, semvars, shmvars, pos, out>>
  \/ Segfault(r, "read_size") /\ UNCHANGED datavars

(* write() takes the bytes straight from the page. *)
Write(r) ==
  \/ /\ Go(r, "write", "v_empty")
     /\ out' = IF num_symb[r] > 0
                 THEN [out EXCEPT ![r] = Append(@, page[att[r]].data)]
                 ELSE out
     /\ UNCHANGED <<status, semvars, shmvars, pos, num_symb>>
  \/ IOError(r, "write")

VEmpty(r) ==
  /\ Semop(r, "v_empty", IF num_symb[r] > 0 THEN "p_full" ELSE "end_rd",
           TRUE, [EMPTY |-> 1], None)
  /\ UNCHANGED datavars

(* {NUM_PROC, -1, UNDO}, {EMPTY, -1, UNDO}, {ALONE_RD, -1, UNDO}; the      *)
(* writer may have removed the set by now, and EINVAL is let pass.  A      *)
(* removal while the call sleeps would be EIDRM and is not.                *)
EndRd(r) ==
  /\ \/ /\ Live(r)
        /\ \A x \in {"NUM_PROC", "EMPTY", "ALONE_RD"} : val[x] > 0
        /\ LET end_rd == [NUM_PROC |-> -1, EMPTY |-> -1, ALONE_RD |-> -1]
           IN  Apply(r, end_rd, end_rd)
        /\ \E from \in {"end_rd", "end_rd_sleep"} : Go(r, from, "unlink_shm")
        /\ UNCHANGED status
     \/ /\ Live(r)
        /\ \E x \in {"NUM_PROC", "EMPTY", "ALONE_RD"} : val[x] = 0
        /\ Go(r, "end_rd", "end_rd_sleep")
        /\ UNCHANGED <<status, val, adj>>
     \/ /\ ~Live(r)
        /\ Go(r, "end_rd", "unlink_shm")
        /\ UNCHANGED <<status, val, adj>>
     \/ /\ ~Live(r)
        /\ pc[r] = "end_rd_sleep"
        /\ Fail(r)
        /\ UNCHANGED <<val, adj>>
  /\ UNCHANGED <<semKey, semId, shmvars, datavars>>

UnlinkRd(r) == unlink_shm(r, "unlink_shm", "return") /\ UNCHANGED datavars

-----------------------------------------------------------------------------
ProcessEnd(p) ==
  (Exit(p) \/ Return(p, "return")) /\ UNCHANGED datavars

Killed(p) == Kill(p) /\ UNCHANGED datavars

Prologue(p) == CreateSem(p) \/ CreateShm(p) \/ LinkShm(p) \/ WaitPrevConnect(p)

Writer(w) ==
  \/ Prologue(w)
  \/ AloneWr(w) \/ SetFull(w) \/ WriterSync(w) \/ WriterConnect(w)
  \/ Open(w) \/ PEmpty(w) \/ CheckWr(w) \/ Fill(w) \/ Size(w) \/ VFull(w)
  \/ EndWr(w) \/ UnlinkWr(w) \/ DeleteShm(w) \/ DeleteSem(w)
  \/ ProcessEnd(w)

Reader(r) ==
  \/ Prologue(r)
  \/ AloneRd(r) \/ SetEmpty(r) \/ ReaderSync(r) \/ ReaderConnect(r)
  \/ PFull(r) \/ CheckRd(r) \/ ReadSize(r) \/ Write(r) \/ VEmpty(r)
  \/ EndRd(r) \/ UnlinkRd(r)
  \/ ProcessEnd(r)

Next ==
  \/ \E w \in Writers : Writer(w)
  \/ \E r \in Readers : Reader(r)
  \/ \E p \in Proc : Killed(p)

Spec == Init /\ [][Next]_vars

(* The system runs every process that is not asleep in a system call. *)
FairSpec ==
  /\ Spec
  /\ \A w \in Writers : WF_vars(Writer(w))
  /\ \A r \in Readers : WF_vars(Reader(r))
-----------------------------------------------------------------------------
(* Properties. *)

(* Where a process can be: before its ALONE_* semop(), from there to its   *)
(* end_* semop(), and after.                                               *)
Early   == {"create_sem", "create_shm", "link_shm", "alone"}
Session == {"wait_prev_connect", "setval", "sync", "connect",
            "open", "p_empty", "check_wr", "fill", "size", "v_full", "end_wr",
            "p_full", "check_rd", "read_size", "write", "v_empty",
            "end_rd", "end_rd_sleep"}
Late    == {"unlink_shm", "delete_shm", "delete_sem", "return", "exit", "done"}

(* Everything keeps its type, and no semaphore goes below zero: every      *)
(* decrement of the two programs waits for it, and every SEM_UNDO          *)
(* adjustment gives back what its process took.                            *)
Pages == {Chunk(w, i) : w \in Writers, i \in 1..FileLen}

TypeOK ==
  /\ pc \in [Proc -> Early \cup Session \cup Late]
  /\ status \in [Proc -> {"running", "success", "failure", "killed", "segfault"}]
  /\ semKey \in Proc \cup {NoId}
  /\ shmKey \in Proc \cup {NoId}
  /\ val \in [SEM -> Nat]
  /\ semId \in [Proc -> Proc \cup {NoId}]
  /\ shmId \in [Proc -> Proc \cup {NoId}]
  /\ att \in [Proc -> Proc \cup {NoId}]
  /\ adj \in [Proc -> [SEM -> Int]]
  /\ page \in [Proc -> [size : {0, 1}, data : Pages \cup {NoData}]]
  /\ pos \in [Writers -> 0..FileLen]
  /\ num_symb \in [Proc -> {0, 1}]
  /\ out \in [Readers -> Seq(Pages \cup {NoData})]

(* Any number of readers may be started; all but r are still on their way  *)
(* to the ALONE_RD semop() or asleep in it.  A second one gets past it     *)
(* when the first has ended, and may find the semaphores and the page as a *)
(* killed one has left them.                                               *)
OnlyReader(r) == \A s \in Readers \ {r} : pc[s] \in Early

OneReaderIn == \E r \in Readers : OnlyReader(r)

(* The critical regions of the two loops: between P (EMPTY) and V (FULL)   *)
(* the writer owns the page, between P (FULL) and V (EMPTY) the reader     *)
(* does.  Until a second reader gets in, a writer and a reader that have   *)
(* the same segment attached are never both in theirs, whoever is killed.  *)
PageExclusive ==
  OneReaderIn =>
    \A w \in Writers, r \in Readers :
      ~ /\ pc[w] \in {"fill", "size"}
        /\ pc[r] \in {"read_size", "write"}
        /\ att[w] = att[r]

InSession(p) == Live(p) /\ pc[p] \in Session

(* Of the writers of one semaphore set at most one is in session, and of   *)
(* its readers at most one, however their predecessors ended: ALONE_WR and *)
(* ALONE_RD come back through SEM_UNDO when a process is killed.           *)
SessionExclusive ==
  \A p, q \in Proc :
    /\ InSession(p) /\ InSession(q)
    /\ {p, q} \subseteq Writers \/ {p, q} \subseteq Readers
    => p = q

(* NUM_PROC, on which both ends decide whether the other one is alive,     *)
(* counts exactly the processes that are connected and not yet gone.       *)
NumProcExact ==
  semKey # NoId =>
    val["NUM_PROC"] = Cardinality({p \in Proc : Live(p) /\ adj[p]["NUM_PROC"] = -1})

(* Until a second reader gets in, and whoever is killed, the closing       *)
(* semop() of either program finds its operations possible: a process that *)
(* has finished its loop does not sleep there, so the reader cannot get    *)
(* EIDRM.                                                                  *)
EndNeverBlocks ==
  OneReaderIn =>
    \A p \in Proc :
      Live(p) =>
        /\ pc[p] = "end_wr" => val["NUM_PROC"] > 0 /\ val["ALONE_WR"] > 0
        /\ pc[p] = "end_rd" => \A x \in {"NUM_PROC", "EMPTY", "ALONE_RD"} : val[x] > 0

(* A writer that returns from main() has had its whole file printed, if no *)
(* second reader has got in.                                               *)
WriterSuccessMeansDelivered ==
  OneReaderIn =>
    \A w \in Writers :
      status[w] = "success" => \E r \in Readers : out[r] = File(w)

(* Readers are the copiers of the abstract specification.                  *)
Outcome(r) == IF status[r] \in {"running", "success"} THEN status[r]
                                                      ELSE "failure"

FC == INSTANCE FileCopy WITH
        Copier  <- Readers,
        Files   <- {File(w) : w \in Writers},
        copied  <- out,
        outcome <- [r \in Readers |-> Outcome(r)]

(* Until a second reader gets in, readers print page after page of one     *)
(* file and report success only for a whole one, whoever is killed or      *)
(* fails in between.  With one reader this is FC!Spec.                     *)
ImplementsFileCopy == FC!Init /\ [][OneReaderIn' => FC!Next]_(FC!vars)

(* A writer that has connected comes to an end even if its reader dies:    *)
(* the reader's SEM_UNDO posts EMPTY and takes NUM_PROC back.              *)
ConnectedWriterEnds == \A w \in Writers : pc[w] = "open" ~> pc[w] = "done"

(* The handshake does not deadlock: readers come to an end, whichever of   *)
(* several writers they meet, unless a process is killed or a writer gives *)
(* up, as it does when its NUM_PROC check comes too early.                 *)
ReaderEnds ==
  <>(\/ \A r \in Readers : pc[r] = "done"
     \/ \E p \in Proc : status[p] = "killed"
     \/ \E w \in Writers : status[w] = "failure")

(* The file is printed when one writer and one reader run undisturbed.     *)
PairDelivers == <>(\A r \in Readers : \E w \in Writers : out[r] = File(w))
=============================================================================
