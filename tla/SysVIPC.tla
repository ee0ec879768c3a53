------------------------------ MODULE SysVIPC -------------------------------
(***************************************************************************)
(* The System V semaphore set and shared memory segment of                 *)
(* 3_sem/Sharmem, as sharmem_config.c and the semop() calls of writer()    *)
(* and reader() use them.                                                  *)
(*                                                                         *)
(* A process is one run of write_sharmem or read_sharmem.  Every process   *)
(* calls create_sem() and create_shm() once, so a set or a segment is      *)
(* named by the process whose call created it.  Removing a set or a        *)
(* segment frees its key: the next create_sem() or create_shm() makes a    *)
(* new one while older processes keep the stale identifier.                *)
(***************************************************************************)
EXTENDS Integers, FiniteSets

CONSTANTS Proc,     \* every run of the two programs
          Faulty,   \* the runs whose open, read or write may return an error
          MaxKills, \* at most this many processes are killed by a signal
          NoId,     \* "no identifier"
          NoData    \* the content of a zeroed page

ASSUME ProcAssumption == /\ NoId \notin Proc
                         /\ Faulty \subseteq Proc
                         /\ MaxKills \in Nat

(* enum SEM *)
SEM == {"FULL", "EMPTY", "SYNC_RD", "SYNC_WR", "ALONE_RD", "ALONE_WR",
        "NUM_PROC"}

VARIABLES
  pc,       \* the next system call of each process
  status,   \* "running", or how the process ended
  semKey,   \* the set the key leads to, NoId when there is none
  val,      \* the values of that set
  semId,    \* what create_sem() returned to each process
  adj,      \* the SEM_UNDO adjustments of each process
  shmKey,   \* the segment the key leads to, NoId when there is none
  page,     \* content of each segment: the size word and the data
  shmId,    \* what create_shm() returned to each process
  att       \* the segment each process has attached, NoId when none

procvars == <<pc, status>>
semvars  == <<semKey, val, semId, adj>>
shmvars  == <<shmKey, page, shmId, att>>

ZeroPage == [size |-> 0, data |-> NoData]

IPCInit(start) ==
  /\ pc     = [p \in Proc |-> start]
  /\ status = [p \in Proc |-> "running"]
  /\ semKey = NoId
  /\ val    = [x \in SEM |-> 0]
  /\ semId  = [p \in Proc |-> NoId]
  /\ adj    = [p \in Proc |-> [x \in SEM |-> 0]]
  /\ shmKey = NoId
  /\ page   = [p \in Proc |-> ZeroPage]
  /\ shmId  = [p \in Proc |-> NoId]
  /\ att    = [p \in Proc |-> NoId]

Go(p, from, to) ==
  /\ pc[p] = from
  /\ pc' = [pc EXCEPT ![p] = to]

(* A call returns an error the code does not tolerate: exit (EXIT_FAILURE). *)
Fail(p) ==
  /\ pc' = [pc EXCEPT ![p] = "exit"]
  /\ status' = [status EXCEPT ![p] = "failure"]

-----------------------------------------------------------------------------
(* Semaphores. *)

(* p's set is still the one the kernel knows. *)
Live(p) == semId[p] # NoId /\ semId[p] = semKey

create_sem(p, from, to) ==
  /\ Go(p, from, to)
  /\ IF semKey = NoId
       THEN /\ semKey' = p
            /\ val' = [x \in SEM |-> 0]
            /\ semId' = [semId EXCEPT ![p] = p]
       ELSE /\ semId' = [semId EXCEPT ![p] = semKey]
            /\ UNCHANGED <<semKey, val>>
  /\ UNCHANGED <<status, adj, shmvars>>

(* The identifier is removed for everyone; on a set that is already gone   *)
(* semctl() answers EINVAL, which delete_sem() lets pass.                  *)
delete_sem(p, from, to) ==
  /\ Go(p, from, to)
  /\ semKey' = IF Live(p) THEN NoId ELSE semKey
  /\ UNCHANGED <<status, val, semId, adj, shmvars>>

(* f with the entries of the record d added, or subtracted. *)
Plus(f, d)  == [x \in SEM |-> IF x \in DOMAIN d THEN f[x] + d[x] ELSE f[x]]
Minus(f, d) == [x \in SEM |-> IF x \in DOMAIN d THEN f[x] - d[x] ELSE f[x]]

None == [x \in {} |-> 0]

(* The array of operations of one semop() call takes effect as a whole:    *)
(* "sum" is its effect on the values, "undo" the part flagged SEM_UNDO.    *)
Apply(p, sum, undo) ==
  /\ val' = Plus(val, sum)
  /\ adj' = [adj EXCEPT ![p] = Minus(@, undo)]

(* semop(): sleep until "ready", or fail when the set has been removed.    *)
Semop(p, from, to, ready, sum, undo) ==
  /\ pc[p] = from
  /\ \/ /\ Live(p) /\ ready
        /\ Apply(p, sum, undo)
        /\ pc' = [pc EXCEPT ![p] = to]
        /\ UNCHANGED status
     \/ /\ ~Live(p)
        /\ Fail(p)
        /\ UNCHANGED <<val, adj>>
  /\ UNCHANGED <<semKey, semId, shmvars>>

(* {NUM_PROC, -2, IPC_NOWAIT}, {NUM_PROC, 2, 0}: EAGAIN unless both ends   *)
(* are connected.                                                          *)
SemopNumProc(p, from, to) ==
  /\ pc[p] = from
  /\ IF Live(p) /\ val["NUM_PROC"] >= 2
       THEN Go(p, from, to) /\ UNCHANGED status
       ELSE Fail(p)
  /\ UNCHANGED <<semvars, shmvars>>

(* semctl (SETVAL) also clears everybody's adjustment of that semaphore.   *)
SetVal(p, from, to, x, n) ==
  /\ pc[p] = from
  /\ IF Live(p)
       THEN /\ val' = [val EXCEPT ![x] = n]
            /\ adj' = [q \in Proc |-> IF Live(q)
                                        THEN [adj[q] EXCEPT ![x] = 0]
                                        ELSE adj[q]]
            /\ Go(p, from, to)
            /\ UNCHANGED status
       ELSE Fail(p) /\ UNCHANGED <<val, adj>>
  /\ UNCHANGED <<semKey, semId, shmvars>>

-----------------------------------------------------------------------------
(* Shared memory. *)

(* A removed segment survives as long as somebody has it attached. *)
SegmentExists(m) == shmKey = m \/ \E q \in Proc : att[q] = m

create_shm(p, from, to) ==
  /\ Go(p, from, to)
  /\ IF shmKey = NoId
       THEN /\ shmKey' = p
            /\ page' = [page EXCEPT ![p] = ZeroPage]
            /\ shmId' = [shmId EXCEPT ![p] = p]
       ELSE /\ shmId' = [shmId EXCEPT ![p] = shmKey]
            /\ UNCHANGED <<shmKey, page>>
  /\ UNCHANGED <<status, semvars, att>>

(* shmat() on a destroyed segment returns -1, which link_shm() takes for   *)
(* an address: the process goes on with nothing attached.                  *)
link_shm(p, from, to) ==
  /\ Go(p, from, to)
  /\ att' = [att EXCEPT ![p] = IF SegmentExists(shmId[p])
                                 THEN shmId[p] ELSE NoId]
  /\ UNCHANGED <<status, semvars, shmKey, page, shmId>>

(* shmdt() fails on such an address. *)
unlink_shm(p, from, to) ==
  /\ pc[p] = from
  /\ IF att[p] # NoId
       THEN /\ att' = [att EXCEPT ![p] = NoId]
            /\ Go(p, from, to)
            /\ UNCHANGED status
       ELSE Fail(p) /\ UNCHANGED att
  /\ UNCHANGED <<semvars, shmKey, page, shmId>>

delete_shm(p, from, to) ==
  /\ Go(p, from, to)
  /\ shmKey' = IF shmId[p] = shmKey THEN NoId ELSE shmKey
  /\ UNCHANGED <<status, semvars, page, shmId, att>>

-----------------------------------------------------------------------------
(* The end of a process. *)

NonNeg(i) == IF i < 0 THEN 0 ELSE i

(* The kernel detaches the segment and applies the adjustments; a value    *)
(* that would become negative is set to 0.                                 *)
Reap(p) ==
  /\ val' = IF Live(p) THEN [x \in SEM |-> NonNeg(val[x] + adj[p][x])]
                       ELSE val
  /\ adj' = [adj EXCEPT ![p] = [x \in SEM |-> 0]]
  /\ att' = [att EXCEPT ![p] = NoId]
  /\ pc' = [pc EXCEPT ![p] = "done"]
  /\ UNCHANGED <<semKey, semId, shmKey, page, shmId>>

(* The end of a process that has called exit (EXIT_FAILURE). *)
Exit(p) ==
  /\ pc[p] = "exit"
  /\ Reap(p)
  /\ UNCHANGED status

(* main() returns 0. *)
Return(p, from) ==
  /\ pc[p] = from
  /\ Reap(p)
  /\ status' = [status EXCEPT ![p] = "success"]

(* A signal ends p between any two of its system calls. *)
Kill(p) ==
  /\ status[p] = "running"
  /\ semId[p] # NoId
  /\ Cardinality({q \in Proc : status[q] = "killed"}) < MaxKills
  /\ Reap(p)
  /\ status' = [status EXCEPT ![p] = "killed"]

(* Touching the address -1 raises SIGSEGV. *)
Segfault(p, from) ==
  /\ pc[p] = from
  /\ att[p] = NoId
  /\ Reap(p)
  /\ status' = [status EXCEPT ![p] = "segfault"]
=============================================================================
