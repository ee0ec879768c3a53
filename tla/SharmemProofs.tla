--------------------------- MODULE SharmemProofs ----------------------------
(***************************************************************************)
(* Theorems about Sharmem, for any number of pages and kills.              *)
(*                                                                         *)
(* For any number of writers and readers: type correctness, exclusion of   *)
(* the sessions of one program, and NUM_PROC counts the connected          *)
(* processes.  All three follow from what SEM_UNDO guarantees.  The        *)
(* adjustment of a lock is -1 for exactly the processes in session         *)
(* (Adjustments), a lock that somebody holds is 1 and has one holder       *)
(* (LockCount), and a process that creates a new set is the first to know  *)
(* its identifier (Fresh); a connected process is one whose NUM_PROC will  *)
(* be taken back (Undo), and NUM_PROC is their number (Count).             *)
(*                                                                         *)
(* For any number of writers and one reader: the page is used by one       *)
(* process at a time, the closing semop() never sleeps, success means a    *)
(* printed file, and the programs implement FileCopy.  SYNC_WR lets one    *)
(* writer meet the reader (Handshake), both have the same segment          *)
(* (Segments), one token goes round between EMPTY, the writer, FULL and    *)
(* the reader (Token), the writer is at most one page ahead of what is     *)
(* printed (Transfer), and what is printed is its file so far (Copy).      *)
(***************************************************************************)
EXTENDS Sharmem, FiniteSetTheorems, SequenceTheorems, TLAPS

(* A process about to use the page through its address has it attached. *)
Attached ==
  \A p \in Proc : pc[p] \in {"size", "write"} => att[p] \in Proc

TypeInv == TypeOK /\ Attached

LEMMA TypeInit == Init => TypeInv
<1> SUFFICES ASSUME Init PROVE TypeInv
    OBVIOUS
<1> USE SharmemAssumption DEF Init, IPCInit
<1>1. /\ pc \in [Proc -> Early \cup Session \cup Late]
      /\ status \in [Proc -> {"running", "success", "failure", "killed", "segfault"}]
      /\ val \in [SEM -> Nat]
      /\ adj \in [Proc -> [SEM -> Int]]
      /\ num_symb \in [Proc -> {0, 1}]
    BY DEF Early
<1>2. page \in [Proc -> [size : {0, 1}, data : Pages \cup {NoData}]]
    BY DEF ZeroPage
<1>3. out \in [Readers -> Seq(Pages \cup {NoData})] /\ pos \in [Writers -> 0..FileLen]
  OBVIOUS
<1>4. Attached
  BY DEF Attached
<1>5. QED BY <1>1, <1>2, <1>3, <1>4 DEF TypeInv, TypeOK

Labels == Early \cup Session \cup Late
Statuses == {"running", "success", "failure", "killed", "segfault"}

(* Labels at which the page is not about to be used. *)
Calm == Labels \ {"size", "write"}

LEMMA CalmLabels ==
  {"create_shm", "link_shm", "alone", "wait_prev_connect", "setval", "sync",
   "connect", "open", "p_empty", "check_wr", "fill", "v_full", "end_wr",
   "p_full", "check_rd", "read_size", "v_empty", "end_rd", "end_rd_sleep",
   "unlink_shm", "delete_shm", "delete_sem", "return", "exit", "done"}
  \subseteq Calm
BY DEF Calm, Labels, Early, Session, Late

LEMMA SemopTypes ==
  ASSUME TypeInv, UNCHANGED datavars,
         NEW p \in Proc, NEW from, NEW STATE to, to \in Calm,
         NEW STATE ready, NEW sum, NEW undo,
         Semop(p, from, to, ready, sum, undo),
         ready => Plus(val, sum) \in [SEM -> Nat],
         Minus(adj[p], undo) \in [SEM -> Int]
  PROVE  TypeInv'
<1>1. /\ pc' \in [Proc -> Labels]
      /\ \A q \in Proc : pc'[q] \in {"size", "write"} => pc'[q] = pc[q]
      /\ status' \in [Proc -> Statuses]
  <2>1. pc \in [Proc -> Labels] /\ status \in [Proc -> Statuses]
    BY DEF TypeInv, TypeOK, Labels, Statuses
  <2>2. "exit" \in Labels /\ to \in Labels /\ to \notin {"size", "write"}
    BY DEF Labels, Late, Calm
  <2>3. \/ pc' = [pc EXCEPT ![p] = to] /\ status' = status
        \/ /\ pc' = [pc EXCEPT ![p] = "exit"]
           /\ status' = [status EXCEPT ![p] = "failure"]
    BY DEF Semop, Go, Fail
  <2>4. QED
    BY ONLY <2>1, <2>2, <2>3 DEF Statuses
<1>2. val' \in [SEM -> Nat] /\ adj' \in [Proc -> [SEM -> Int]]
  <2>1. val \in [SEM -> Nat] /\ adj \in [Proc -> [SEM -> Int]]
    BY DEF TypeInv, TypeOK
  <2>2. CASE UNCHANGED <<val, adj>>
    BY <2>1, <2>2
  <2>3. CASE ready /\ Apply(p, sum, undo)
    <3>1. val' \in [SEM -> Nat]
      BY <2>3 DEF Apply
    <3>2. adj' \in [Proc -> [SEM -> Int]]
      BY <2>1, <2>3 DEF Apply
    <3>3. QED
      BY <3>1, <3>2
  <2>4. QED
    BY <2>2, <2>3 DEF Semop
<1>3. UNCHANGED <<semKey, semId, shmvars, datavars>>
  BY DEF Semop
<1>4. QED
  BY <1>1, <1>2, <1>3 DEF TypeInv, TypeOK, Attached, Labels, Statuses, shmvars, datavars

LEMMA WaitTypes ==
  ASSUME TypeInv, NEW p \in Proc,
         WaitPrevConnect(p)
  PROVE  TypeInv'
<1>1. p \in Proc /\ val \in [SEM -> Nat] /\ adj[p] \in [SEM -> Int]
  BY SharmemAssumption DEF TypeInv, TypeOK
<1>2. CASE WaitPrevConnect(p)
  <2>1. Plus(val, None) \in [SEM -> Nat]
    BY <1>1 DEF Plus, None, SEM
  <2>2. Minus(adj[p], None) \in [SEM -> Int]
    BY <1>1 DEF Minus, None, SEM
  <2>3. QED
    BY <1>1, <1>2, <2>1, <2>2, CalmLabels, SemopTypes DEF WaitPrevConnect
<1>3. QED
  BY <1>2

LEMMA WriterSemopTypes ==
  ASSUME TypeInv, NEW w \in Writers,
         \/ AloneWr(w)
         \/ WriterSync(w)
         \/ WriterConnect(w)
         \/ PEmpty(w)
         \/ VFull(w)
         \/ EndWr(w)
  PROVE  TypeInv'
<1>1. w \in Proc /\ val \in [SEM -> Nat] /\ adj[w] \in [SEM -> Int]
  BY SharmemAssumption DEF TypeInv, TypeOK
<1>2. CASE AloneWr(w)
  <2>1. Plus(val, [ALONE_WR |-> 1]) \in [SEM -> Nat]
    BY <1>1 DEF Plus, SEM
  <2>2. Minus(adj[w], [ALONE_WR |-> 1]) \in [SEM -> Int]
    BY <1>1 DEF Minus, SEM
  <2>3. QED
    BY <1>1, <1>2, <2>1, <2>2, CalmLabels, SemopTypes DEF AloneWr
<1>3. CASE WriterSync(w)
  <2>1. Plus(val, [SYNC_RD |-> 1]) \in [SEM -> Nat]
    BY <1>1 DEF Plus, SEM
  <2>2. Minus(adj[w], None) \in [SEM -> Int]
    BY <1>1 DEF Minus, None, SEM
  <2>3. QED
    BY <1>1, <1>3, <2>1, <2>2, CalmLabels, SemopTypes DEF WriterSync
<1>4. CASE WriterConnect(w)
  <2>1. val["SYNC_WR"] > 0 => Plus(val, [SYNC_WR |-> -1, NUM_PROC |-> 1]) \in [SEM -> Nat]
    BY <1>1 DEF Plus, SEM
  <2>2. Minus(adj[w], [NUM_PROC |-> 1, FULL |-> -1]) \in [SEM -> Int]
    BY <1>1 DEF Minus, SEM
  <2>3. QED
    BY <1>1, <1>4, <2>1, <2>2, CalmLabels, SemopTypes DEF WriterConnect
<1>5. CASE PEmpty(w)
  <2>1. val["EMPTY"] > 0 => Plus(val, [EMPTY |-> -1]) \in [SEM -> Nat]
    BY <1>1 DEF Plus, SEM
  <2>2. Minus(adj[w], None) \in [SEM -> Int]
    BY <1>1 DEF Minus, None, SEM
  <2>3. QED
    BY <1>1, <1>5, <2>1, <2>2, CalmLabels, SemopTypes DEF PEmpty
<1>6. CASE VFull(w)
  <2>1. Plus(val, [FULL |-> 1]) \in [SEM -> Nat]
    BY <1>1 DEF Plus, SEM
  <2>2. Minus(adj[w], None) \in [SEM -> Int]
    BY <1>1 DEF Minus, None, SEM
  <2>3. QED
    BY <1>1, <1>6, <2>1, <2>2, CalmLabels, SemopTypes DEF VFull
<1>7. CASE EndWr(w)
  <2>1. val["NUM_PROC"] > 0 /\ val["ALONE_WR"] > 0 => Plus(val, [NUM_PROC |-> -1, ALONE_WR |-> -1]) \in [SEM -> Nat]
    BY <1>1 DEF Plus, SEM
  <2>2. Minus(adj[w], [FULL |-> 1, NUM_PROC |-> -1, ALONE_WR |-> -1]) \in [SEM -> Int]
    BY <1>1 DEF Minus, SEM
  <2>3. QED
    BY <1>1, <1>7, <2>1, <2>2, CalmLabels, SemopTypes DEF EndWr
<1>8. QED
  BY <1>2, <1>3, <1>4, <1>5, <1>6, <1>7

LEMMA ReaderSemopTypes ==
  ASSUME TypeInv, NEW r \in Readers,
         \/ AloneRd(r)
         \/ ReaderSync(r)
         \/ ReaderConnect(r)
         \/ PFull(r)
         \/ VEmpty(r)
  PROVE  TypeInv'
<1>1. r \in Proc /\ val \in [SEM -> Nat] /\ adj[r] \in [SEM -> Int]
  BY SharmemAssumption DEF TypeInv, TypeOK
<1>2. CASE AloneRd(r)
  <2>1. Plus(val, [ALONE_RD |-> 1]) \in [SEM -> Nat]
    BY <1>1 DEF Plus, SEM
  <2>2. Minus(adj[r], [ALONE_RD |-> 1]) \in [SEM -> Int]
    BY <1>1 DEF Minus, SEM
  <2>3. QED
    BY <1>1, <1>2, <2>1, <2>2, CalmLabels, SemopTypes DEF AloneRd
<1>3. CASE ReaderSync(r)
  <2>1. Plus(val, [SYNC_WR |-> 1]) \in [SEM -> Nat]
    BY <1>1 DEF Plus, SEM
  <2>2. Minus(adj[r], None) \in [SEM -> Int]
    BY <1>1 DEF Minus, None, SEM
  <2>3. QED
    BY <1>1, <1>3, <2>1, <2>2, CalmLabels, SemopTypes DEF ReaderSync
<1>4. CASE ReaderConnect(r)
  <2>1. val["SYNC_RD"] > 0 => Plus(val, [SYNC_RD |-> -1, NUM_PROC |-> 1]) \in [SEM -> Nat]
    BY <1>1 DEF Plus, SEM
  <2>2. Minus(adj[r], [NUM_PROC |-> 1, EMPTY |-> -1]) \in [SEM -> Int]
    BY <1>1 DEF Minus, SEM
  <2>3. QED
    BY <1>1, <1>4, <2>1, <2>2, CalmLabels, SemopTypes DEF ReaderConnect
<1>5. CASE PFull(r)
  <2>1. val["FULL"] > 0 => Plus(val, [FULL |-> -1]) \in [SEM -> Nat]
    BY <1>1 DEF Plus, SEM
  <2>2. Minus(adj[r], None) \in [SEM -> Int]
    BY <1>1 DEF Minus, None, SEM
  <2>3. QED
    BY <1>1, <1>5, <2>1, <2>2, CalmLabels, SemopTypes DEF PFull
<1>6. CASE VEmpty(r)
  <2>1. Plus(val, [EMPTY |-> 1]) \in [SEM -> Nat]
    BY <1>1 DEF Plus, SEM
  <2>2. Minus(adj[r], None) \in [SEM -> Int]
    BY <1>1 DEF Minus, None, SEM
  <2>3. QED
    BY <1>1, <1>6, <2>1, <2>2, CalmLabels, SemopTypes DEF VEmpty
<1>7. QED
  BY <1>2, <1>3, <1>4, <1>5, <1>6

LEMMA EndRdTypes ==
  ASSUME TypeInv, NEW r \in Readers, EndRd(r)
  PROVE  TypeInv'
<1> DEFINE end_rd == [NUM_PROC |-> -1, EMPTY |-> -1, ALONE_RD |-> -1]
<1>1. r \in Proc /\ val \in [SEM -> Nat] /\ adj \in [Proc -> [SEM -> Int]]
  BY SharmemAssumption DEF TypeInv, TypeOK
<1>2. (\A x \in {"NUM_PROC", "EMPTY", "ALONE_RD"} : val[x] > 0)
        => Plus(val, end_rd) \in [SEM -> Nat]
  BY <1>1 DEF Plus, SEM
<1>3. Minus(adj[r], end_rd) \in [SEM -> Int]
  BY <1>1 DEF Minus, SEM
<1> HIDE DEF end_rd
<1>4. val' \in [SEM -> Nat] /\ adj' \in [Proc -> [SEM -> Int]]
  BY <1>1, <1>2, <1>3 DEF EndRd, Apply, end_rd
<1>5. /\ pc' \in [Proc -> Labels]
      /\ \A q \in Proc : pc'[q] \in {"size", "write"} => pc'[q] = pc[q]
      /\ status' \in [Proc -> Statuses]
  <2>1. pc \in [Proc -> Labels] /\ status \in [Proc -> Statuses]
    BY DEF TypeInv, TypeOK, Labels, Statuses
  <2>2. \E c \in Calm : pc' = [pc EXCEPT ![r] = c]
    BY CalmLabels DEF EndRd, Go, Fail
  <2>3. status' = status \/ status' = [status EXCEPT ![r] = "failure"]
    BY DEF EndRd, Fail
  <2>4. QED
    BY <2>1, <2>2, <2>3 DEF Calm, Statuses
<1>6. UNCHANGED <<semKey, semId, shmvars, datavars>>
  BY DEF EndRd
<1>7. QED
  BY <1>4, <1>5, <1>6
  DEF TypeInv, TypeOK, Attached, Labels, Statuses, shmvars, datavars

LEMMA SetValTypes ==
  ASSUME TypeInv, NEW p \in Proc, SetFull(p) \/ SetEmpty(p)
  PROVE  TypeInv'
<1>1. /\ pc' \in [Proc -> Labels]
      /\ \A q \in Proc : pc'[q] \in {"size", "write"} => pc'[q] = pc[q]
      /\ status' \in [Proc -> Statuses]
  <2>1. pc \in [Proc -> Labels] /\ status \in [Proc -> Statuses]
    BY DEF TypeInv, TypeOK, Labels, Statuses
  <2>2. \E c \in Calm : pc' = [pc EXCEPT ![p] = c]
    BY CalmLabels DEF SetFull, SetEmpty, SetVal, Go, Fail
  <2>3. status' = status \/ status' = [status EXCEPT ![p] = "failure"]
    BY DEF SetFull, SetEmpty, SetVal, Fail
  <2>4. QED
    BY <2>1, <2>2, <2>3 DEF Calm, Statuses
<1>2. val' \in [SEM -> Nat] /\ adj' \in [Proc -> [SEM -> Int]]
  <2>1. val \in [SEM -> Nat] /\ adj \in [Proc -> [SEM -> Int]]
    BY DEF TypeInv, TypeOK
  <2>2. CASE SetFull(p)
    BY <2>1, <2>2 DEF SetFull, SetVal
  <2>3. CASE SetEmpty(p)
    BY <2>1, <2>3 DEF SetEmpty, SetVal
  <2>4. QED
    BY <2>2, <2>3
<1>3. UNCHANGED <<semKey, semId, shmvars, datavars>>
  BY DEF SetFull, SetEmpty, SetVal
<1>4. QED
  BY <1>1, <1>2, <1>3
  DEF TypeInv, TypeOK, Attached, Labels, Statuses, shmvars, datavars

(* A process that dies leaves every variable well typed. *)
LEMMA ReapTypes ==
  ASSUME TypeInv, NEW p \in Proc, Reap(p), UNCHANGED datavars,
         status' \in [Proc -> Statuses]
  PROVE  TypeInv'
<1>1. val' \in [SEM -> Nat] /\ adj' \in [Proc -> [SEM -> Int]]
  <2>1. val \in [SEM -> Nat] /\ adj \in [Proc -> [SEM -> Int]]
    BY DEF TypeInv, TypeOK
  <2>2. \A x \in SEM : NonNeg(val[x] + adj[p][x]) \in Nat
    BY ONLY <2>1, p \in Proc DEF NonNeg
  <2>3. val' \in [SEM -> Nat]
    BY <2>1, <2>2 DEF Reap
  <2>4. adj' \in [Proc -> [SEM -> Int]]
    BY <2>1 DEF Reap
  <2>5. QED
    BY <2>3, <2>4
<1>2. /\ pc' \in [Proc -> Labels]
      /\ att' \in [Proc -> Proc \cup {NoId}]
      /\ Attached'
  BY CalmLabels DEF Reap, TypeInv, TypeOK, Attached, Labels, Calm
<1>3. QED
  BY <1>1, <1>2 DEF Reap, TypeInv, TypeOK, Labels, Statuses, datavars

LEMMA ProcessTypes ==
  ASSUME TypeInv, NEW p \in Proc,
         \/ CreateSem(p) \/ CreateShm(p) \/ LinkShm(p)
         \/ ProcessEnd(p) \/ Killed(p)
  PROVE  TypeInv'
<1> USE DEF TypeInv, TypeOK
<1>1. CASE CreateSem(p)
  <2>1. val' \in [SEM -> Nat]
    BY <1>1 DEF CreateSem, create_sem
  <2>2. pc' \in [Proc -> Labels] /\ Attached'
    BY <1>1, CalmLabels DEF CreateSem, create_sem, Go, Calm, Labels, Attached, shmvars
  <2>3. QED
    BY <1>1, <2>1, <2>2 DEF CreateSem, create_sem, Labels, shmvars, datavars
<1>2. CASE CreateShm(p)
  <2>1. page' \in [Proc -> [size : {0, 1}, data : Pages \cup {NoData}]]
    BY <1>2 DEF CreateShm, create_shm, ZeroPage
  <2>2. pc' \in [Proc -> Labels] /\ Attached'
    BY <1>2, CalmLabels DEF CreateShm, create_shm, Go, Calm, Labels, Attached
  <2>3. QED
    BY <1>2, <2>1, <2>2 DEF CreateShm, create_shm, Labels, semvars, datavars
<1>3. CASE LinkShm(p)
  <2>1. pc' \in [Proc -> Labels] /\ Attached'
    BY <1>3, CalmLabels DEF LinkShm, link_shm, Go, Calm, Labels, Attached
  <2>2. QED
    BY <1>3, <2>1 DEF LinkShm, link_shm, Labels, semvars, datavars
<1>4. CASE ProcessEnd(p)
  BY <1>4, ReapTypes DEF ProcessEnd, Exit, Return, Statuses
<1>5. CASE Killed(p)
  BY <1>5, ReapTypes DEF Killed, Kill, Statuses
<1>6. QED
  BY <1>1, <1>2, <1>3, <1>4, <1>5
(* Steps that only move the process on, or make it fail. *)
LEMMA MoveTypes ==
  ASSUME TypeInv, NEW p \in Proc,
         \E c \in Calm : pc' = [pc EXCEPT ![p] = c],
         status' = status \/ status' = [status EXCEPT ![p] = "failure"],
         UNCHANGED <<semvars, shmvars, datavars>>
  PROVE  TypeInv'
<1>1. /\ pc \in [Proc -> Labels] /\ status \in [Proc -> Statuses]
      /\ \A q \in Proc : pc[q] \in {"size", "write"} => att[q] \in Proc
  BY DEF TypeInv, TypeOK, Attached, Labels, Statuses
<1>2. pc' \in [Proc -> Labels] /\ status' \in [Proc -> Statuses]
  BY <1>1 DEF Calm, Statuses
<1>3. \A q \in Proc : pc'[q] \in {"size", "write"} => att'[q] \in Proc
  BY <1>1 DEF Calm, shmvars
<1>4. QED
  BY <1>2, <1>3
  DEF TypeInv, TypeOK, Attached, Labels, Statuses, semvars, shmvars, datavars

LEMMA MoveActionsTypes ==
  ASSUME TypeInv, NEW p \in Proc,
         \/ CheckWr(p) \/ CheckRd(p) \/ Open(p)
         \/ IOError(p, "fill") \/ IOError(p, "write")
  PROVE  TypeInv'
<1>1. \E c \in Calm : pc' = [pc EXCEPT ![p] = c]
  BY CalmLabels DEF CheckWr, CheckRd, Open, IOError, SemopNumProc, Go, Fail
<1>2. status' = status \/ status' = [status EXCEPT ![p] = "failure"]
  BY DEF CheckWr, CheckRd, Open, IOError, SemopNumProc, Fail
<1>3. UNCHANGED <<semvars, shmvars, datavars>>
  BY DEF CheckWr, CheckRd, Open, IOError, SemopNumProc
<1>4. QED
  BY <1>1, <1>2, <1>3, MoveTypes

LEMMA SegfaultTypes ==
  ASSUME TypeInv, NEW p \in Proc, NEW from, Segfault(p, from), UNCHANGED datavars
  PROVE  TypeInv'
<1>1. status \in [Proc -> Statuses]
  BY DEF Statuses, TypeInv, TypeOK
<1>2. status' \in [Proc -> Statuses]
  BY <1>1 DEF Segfault, Statuses
<1>3. QED
  BY <1>2, ReapTypes DEF Segfault

(* The accesses to the page and the file. *)
LEMMA WriterPageTypes ==
  ASSUME TypeInv, NEW w \in Writers, Fill(w) \/ Size(w)
  PROVE  TypeInv'
<1>1. w \in Proc
  BY SharmemAssumption
<1>2. CASE Fill(w)
  <2>1. CASE IOError(w, "fill")
    BY <1>1, <2>1, MoveActionsTypes
  <2>2. CASE Segfault(w, "fill") /\ UNCHANGED datavars
    BY <1>1, <2>2, SegfaultTypes
  <2>3. CASE /\ ~ IOError(w, "fill")
             /\ ~ (Segfault(w, "fill") /\ UNCHANGED datavars)
    <3>1. /\ pc \in [Proc -> Labels] /\ att[w] \in Proc
          /\ page \in [Proc -> [size : {0, 1}, data : Pages \cup {NoData}]]
          /\ pos \in [Writers -> 0..FileLen] /\ num_symb \in [Proc -> {0, 1}]
      BY <1>1, <1>2, <2>3 DEF Fill, TypeInv, TypeOK, Labels
    <3>2. /\ Go(w, "fill", "size")
          /\ page' = [page EXCEPT ![att[w]].data =
                        IF pos[w] < FileLen THEN Chunk(w, pos[w] + 1) ELSE NoData]
          /\ pos' = [pos EXCEPT ![w] = IF pos[w] < FileLen THEN @ + 1 ELSE @]
          /\ num_symb' = [num_symb EXCEPT ![w] = IF pos[w] < FileLen THEN 1 ELSE 0]
          /\ UNCHANGED <<status, semvars, shmKey, shmId, att, out>>
      BY <1>2, <2>3 DEF Fill
    <3>3. pos[w] < FileLen => /\ pos[w] + 1 \in 1..FileLen
                              /\ Chunk(w, pos[w] + 1) \in Pages
      BY <3>1, SharmemAssumption DEF Pages
    <3>4. page' \in [Proc -> [size : {0, 1}, data : Pages \cup {NoData}]]
      BY <3>1, <3>2, <3>3
    <3>5. pos' \in [Writers -> 0..FileLen]
      BY <3>1, <3>2, <3>3, SharmemAssumption
    <3>6. num_symb' \in [Proc -> {0, 1}]
      BY <1>1, <3>1, <3>2
    <3>7. pc' \in [Proc -> Labels] /\ Attached'
      BY <1>1, <3>1, <3>2 DEF Go, TypeInv, Attached, Labels, Session
    <3>8. QED
      BY <3>2, <3>4, <3>5, <3>6, <3>7 DEF TypeInv, TypeOK, Labels, semvars
  <2>4. QED
    BY <1>2, <2>1, <2>2, <2>3 DEF Fill
<1>3. CASE Size(w)
  <2>1. page' \in [Proc -> [size : {0, 1}, data : Pages \cup {NoData}]]
    <3>1. /\ page \in [Proc -> [size : {0, 1}, data : Pages \cup {NoData}]]
          /\ num_symb[w] \in {0, 1}
      BY <1>1 DEF TypeInv, TypeOK
    <3>2. page' = [page EXCEPT ![att[w]].size = num_symb[w]]
      BY <1>3 DEF Size
    <3>3. QED
      BY ONLY <3>1, <3>2
  <2>2. pc' \in [Proc -> Labels] /\ Attached'
    BY <1>1, <1>3, CalmLabels DEF Size, Go, TypeInv, TypeOK, Attached, Labels, Calm
  <2>3. QED
    BY <1>3, <2>1, <2>2 DEF Size, TypeInv, TypeOK, Labels, semvars, datavars
<1>4. QED
  BY <1>2, <1>3

LEMMA ReaderPageTypes ==
  ASSUME TypeInv, NEW r \in Readers, ReadSize(r) \/ Write(r)
  PROVE  TypeInv'
<1>1. r \in Proc
  BY SharmemAssumption
<1>2. CASE ReadSize(r)
  <2>1. CASE Segfault(r, "read_size") /\ UNCHANGED datavars
    BY <1>1, <2>1, SegfaultTypes
  <2>2. CASE /\ att[r] # NoId
             /\ Go(r, "read_size", "write")
             /\ num_symb' = [num_symb EXCEPT ![r] = page[att[r]].size]
             /\ UNCHANGED <<status, semvars, shmvars, pos, out>>
    <3>1. num_symb' \in [Proc -> {0, 1}]
      BY <1>1, <2>2 DEF TypeInv, TypeOK
    <3>2. pc' \in [Proc -> Labels] /\ Attached'
      BY <1>1, <2>2 DEF Go, TypeInv, TypeOK, Attached, Labels, Session, shmvars
    <3>3. QED
      BY <2>2, <3>1, <3>2 DEF TypeInv, TypeOK, Labels, semvars, shmvars
  <2>3. QED
    BY <1>2, <2>1, <2>2 DEF ReadSize
<1>3. CASE Write(r)
  <2>1. CASE IOError(r, "write")
    BY <1>1, <2>1, MoveActionsTypes
  <2>2. CASE /\ Go(r, "write", "v_empty")
             /\ out' = IF num_symb[r] > 0
                         THEN [out EXCEPT ![r] = Append(@, page[att[r]].data)]
                         ELSE out
             /\ UNCHANGED <<status, semvars, shmvars, pos, num_symb>>
    <3>1. att[r] \in Proc
      BY <1>1, <2>2 DEF Go, TypeInv, Attached
    <3>2. out' \in [Readers -> Seq(Pages \cup {NoData})]
      BY <1>1, <2>2, <3>1 DEF TypeInv, TypeOK
    <3>3. pc' \in [Proc -> Labels] /\ Attached'
      BY <1>1, <2>2, CalmLabels
      DEF Go, TypeInv, TypeOK, Attached, Labels, Calm, shmvars
    <3>4. QED
      BY <2>2, <3>2, <3>3 DEF TypeInv, TypeOK, Labels, semvars, shmvars
  <2>3. QED
    BY <1>3, <2>1, <2>2 DEF Write
<1>4. QED
  BY <1>2, <1>3

LEMMA RemovalTypes ==
  ASSUME TypeInv, NEW p \in Proc,
         UnlinkWr(p) \/ UnlinkRd(p) \/ DeleteShm(p) \/ DeleteSem(p)
  PROVE  TypeInv'
<1>1. \E c \in Calm : pc' = [pc EXCEPT ![p] = c]
  BY CalmLabels DEF UnlinkWr, UnlinkRd, DeleteShm, DeleteSem, unlink_shm,
                    delete_shm, delete_sem, Go, Fail
<1>2. status' = status \/ status' = [status EXCEPT ![p] = "failure"]
  BY DEF UnlinkWr, UnlinkRd, DeleteShm, DeleteSem, unlink_shm, delete_shm,
         delete_sem, Fail
<1>3. /\ semKey' \in {semKey, NoId} /\ shmKey' \in {shmKey, NoId}
      /\ att' = att \/ att' = [att EXCEPT ![p] = NoId]
      /\ UNCHANGED <<val, semId, adj, page, shmId, datavars>>
  BY DEF UnlinkWr, UnlinkRd, DeleteShm, DeleteSem, unlink_shm, delete_shm,
         delete_sem, semvars, shmvars
<1>4. pc' \in [Proc -> Labels] /\ status' \in [Proc -> Statuses]
  <2>1. pc \in [Proc -> Labels] /\ status \in [Proc -> Statuses]
    BY DEF TypeInv, TypeOK, Labels, Statuses
  <2>2. QED
    BY <1>1, <1>2, <2>1 DEF Calm, Statuses
<1>5. Attached' /\ att' \in [Proc -> Proc \cup {NoId}]
  <2>1. /\ pc \in [Proc -> Labels]
        /\ att \in [Proc -> Proc \cup {NoId}]
        /\ \A q \in Proc : pc[q] \in {"size", "write"} => att[q] \in Proc
    BY DEF TypeInv, TypeOK, Attached, Labels
  <2>2. \A q \in Proc : pc'[q] \in {"size", "write"} => att'[q] \in Proc
    BY <1>1, <1>3, <2>1 DEF Calm
  <2>3. QED
    BY <1>3, <2>1, <2>2 DEF Attached
<1>6. QED
  BY <1>3, <1>4, <1>5 DEF TypeInv, TypeOK, Labels, Statuses, datavars

LEMMA TypeStep == TypeInv /\ [Next]_vars => TypeInv'
<1> SUFFICES ASSUME TypeInv, [Next]_vars PROVE TypeInv'
    OBVIOUS
<1>1. ASSUME NEW w \in Writers, Writer(w) PROVE TypeInv'
  <2>1. w \in Proc
    BY SharmemAssumption
  <2>2. QED
    BY <1>1, <2>1, WaitTypes, WriterSemopTypes, SetValTypes, ProcessTypes,
       MoveActionsTypes, WriterPageTypes, RemovalTypes DEF Writer, Prologue
<1>2. ASSUME NEW r \in Readers, Reader(r) PROVE TypeInv'
  <2>1. r \in Proc
    BY SharmemAssumption
  <2>2. QED
    BY <1>2, <2>1, WaitTypes, ReaderSemopTypes, EndRdTypes, SetValTypes,
       ProcessTypes, MoveActionsTypes, ReaderPageTypes, RemovalTypes
    DEF Reader, Prologue
<1>3. ASSUME NEW p \in Proc, Killed(p) PROVE TypeInv'
  BY <1>3, ProcessTypes
<1>4. CASE UNCHANGED vars
  BY <1>4 DEF TypeInv, TypeOK, Attached, vars, procvars, semvars, shmvars, datavars
<1>5. QED
  BY <1>1, <1>2, <1>3, <1>4 DEF Next

(* Every variable keeps its type, whatever is killed and in whatever order *)
(* the processes of sharmem run; in particular no semaphore ever goes      *)
(* below zero.                                                             *)
THEOREM TypeCorrect == Spec => []TypeOK
<1>1. TypeInv => TypeOK
  BY DEF TypeInv
<1>2. QED
  BY <1>1, TypeInit, TypeStep, PTL DEF Spec

-----------------------------------------------------------------------------
(* Exclusion of sessions. *)

Lock(p) == IF p \in Writers THEN "ALONE_WR" ELSE "ALONE_RD"

(* Nobody has seen the identifiers of a process that is still to start. *)
Fresh ==
  \A p \in Proc : pc[p] = "create_sem" =>
    /\ semKey # p
    /\ \A q \in Proc : semId[q] # p

(* SEM_UNDO of the locks: a process takes only its own one, holds nothing  *)
(* before its session and holds it throughout.                             *)
Adjustments ==
  \A p \in Proc :
    /\ \A x \in {"ALONE_WR", "ALONE_RD"} : adj[p][x] \in {0, -1}
    /\ \A x \in {"ALONE_WR", "ALONE_RD"} : x # Lock(p) => adj[p][x] = 0
    /\ pc[p] \in Early => adj[p][Lock(p)] = 0
    /\ InSession(p) => adj[p][Lock(p)] = -1

Holds(p, x) == Live(p) /\ adj[p][x] = -1

(* A lock that somebody holds has the value 1, and one holder. *)
LockCount ==
  \A x \in {"ALONE_WR", "ALONE_RD"}, p \in Proc : Holds(p, x) =>
    /\ val[x] = 1
    /\ \A q \in Proc : Holds(q, x) => q = p

LockInv == Fresh /\ Adjustments /\ LockCount

LEMMA LockInit == Init => LockInv
BY ProcAssumption
DEF Init, IPCInit, LockInv, Fresh, Adjustments, LockCount, Holds, Live,
    InSession, Lock, SEM, Early, Session

(* Steps that leave the locks and the identifiers alone, and bring nobody  *)
(* back to its prologue or into a session.                                 *)
LEMMA QuietStep ==
  ASSUME LockInv,
         semKey' = semKey, semId' = semId,
         \A x \in {"ALONE_WR", "ALONE_RD"} :
            val'[x] = val[x] /\ \A q \in Proc : adj'[q][x] = adj[q][x],
         \A q \in Proc : \/ pc'[q] = pc[q]
                         \/ /\ pc'[q] \notin Early
                            /\ pc'[q] \in Session => pc[q] \in Session
  PROVE  LockInv'
<1>1. Fresh'
  BY DEF LockInv, Fresh, Early
<1>2. Adjustments'
  BY DEF LockInv, Adjustments, InSession, Live, Lock
<1>3. LockCount'
  BY DEF LockInv, LockCount, Holds, Live
<1>4. QED
  BY <1>1, <1>2, <1>3 DEF LockInv

(* A semop() inside the session that does not name the locks. *)
LEMMA QuietSemop ==
  ASSUME TypeInv, LockInv,
         NEW p \in Proc, NEW from \in Session, NEW STATE to, to \in Labels \ Early,
         NEW STATE ready, NEW sum, NEW undo,
         Semop(p, from, to, ready, sum, undo),
         {"ALONE_WR", "ALONE_RD"} \cap (DOMAIN sum \cup DOMAIN undo) = {}
  PROVE  LockInv'
<1>1. /\ pc \in [Proc -> Labels]
      /\ val \in [SEM -> Nat] /\ adj \in [Proc -> [SEM -> Int]]
  BY DEF TypeInv, TypeOK, Labels
<1>2. \A q \in Proc : \/ pc'[q] = pc[q]
                      \/ /\ pc'[q] \notin Early
                         /\ pc'[q] \in Session => pc[q] \in Session
  BY <1>1 DEF Semop, Fail, Early
<1>3. \A x \in {"ALONE_WR", "ALONE_RD"} :
         val'[x] = val[x] /\ \A q \in Proc : adj'[q][x] = adj[q][x]
  BY <1>1 DEF Semop, Apply, Plus, Minus, SEM
<1>4. QED
  BY <1>2, <1>3, QuietStep DEF Semop

LEMMA QuietSemops ==
  ASSUME TypeInv, LockInv, NEW p \in Proc,
         \/ WaitPrevConnect(p) \/ WriterSync(p) \/ WriterConnect(p)
         \/ PEmpty(p) \/ VFull(p)
         \/ ReaderSync(p) \/ ReaderConnect(p) \/ PFull(p) \/ VEmpty(p)
  PROVE  LockInv'
<1>1. {"wait_prev_connect", "sync", "connect", "p_empty", "v_full", "p_full",
       "v_empty"} \subseteq Session
  BY DEF Session
<1>2. {"setval", "connect", "open", "check_wr", "p_empty", "end_wr", "p_full",
       "check_rd", "end_rd"} \subseteq Labels \ Early
  BY DEF Labels, Session, Early
<1>3. CASE WaitPrevConnect(p)
  BY <1>1, <1>2, <1>3, QuietSemop DEF WaitPrevConnect, None
<1>4. CASE WriterSync(p)
  BY <1>1, <1>2, <1>4, QuietSemop DEF WriterSync, None
<1>5. CASE WriterConnect(p)
  BY <1>1, <1>2, <1>5, QuietSemop DEF WriterConnect
<1>6. CASE PEmpty(p)
  BY <1>1, <1>2, <1>6, QuietSemop DEF PEmpty, None
<1>7. CASE VFull(p)
  BY <1>1, <1>2, <1>7, QuietSemop DEF VFull, None
<1>8. CASE ReaderSync(p)
  BY <1>1, <1>2, <1>8, QuietSemop DEF ReaderSync, None
<1>9. CASE ReaderConnect(p)
  BY <1>1, <1>2, <1>9, QuietSemop DEF ReaderConnect
<1>10. CASE PFull(p)
  BY <1>1, <1>2, <1>10, QuietSemop DEF PFull, None
<1>11. CASE VEmpty(p)
  BY <1>1, <1>2, <1>11, QuietSemop DEF VEmpty, None
<1>12. QED
  BY <1>3, <1>4, <1>5, <1>6, <1>7, <1>8, <1>9, <1>10, <1>11

LEMMA QuietSetVal ==
  ASSUME TypeInv, LockInv, NEW p \in Proc, SetFull(p) \/ SetEmpty(p)
  PROVE  LockInv'
<1>1. /\ pc \in [Proc -> Labels]
      /\ val \in [SEM -> Nat] /\ adj \in [Proc -> [SEM -> Int]]
  BY DEF TypeInv, TypeOK, Labels
<1>2. \A q \in Proc : \/ pc'[q] = pc[q]
                      \/ /\ pc'[q] \notin Early
                         /\ pc'[q] \in Session => pc[q] \in Session
  BY <1>1 DEF SetFull, SetEmpty, SetVal, Go, Fail, Early, Session
<1>3. \A x \in {"ALONE_WR", "ALONE_RD"} :
         val'[x] = val[x] /\ \A q \in Proc : adj'[q][x] = adj[q][x]
  <2>1. CASE SetFull(p)
    BY <1>1, <2>1 DEF SetFull, SetVal, SEM
  <2>2. CASE SetEmpty(p)
    BY <1>1, <2>2 DEF SetEmpty, SetVal, SEM
  <2>3. QED
    BY <2>1, <2>2
<1>4. QED
  BY <1>2, <1>3, QuietStep DEF SetFull, SetEmpty, SetVal

LEMMA QuietMoves ==
  ASSUME TypeInv, LockInv, NEW p \in Proc,
         \/ CheckWr(p) \/ CheckRd(p) \/ Open(p) \/ Size(p)
         \/ IOError(p, "fill") \/ IOError(p, "write")
         \/ UnlinkWr(p) \/ UnlinkRd(p) \/ DeleteShm(p)
         \/ Go(p, "fill", "size") /\ UNCHANGED semvars
         \/ Go(p, "read_size", "write") /\ UNCHANGED semvars
         \/ Go(p, "write", "v_empty") /\ UNCHANGED semvars
  PROVE  LockInv'
<1>1. pc \in [Proc -> Labels]
  BY DEF TypeInv, TypeOK, Labels
<1>2. UNCHANGED semvars
  BY DEF CheckWr, CheckRd, Open, Size, IOError, SemopNumProc, UnlinkWr,
         UnlinkRd, DeleteShm, unlink_shm, delete_shm
<1>3. \A q \in Proc : \/ pc'[q] = pc[q]
                      \/ /\ pc'[q] \notin Early
                         /\ pc'[q] \in Session => pc[q] \in Session
  BY <1>1 DEF CheckWr, CheckRd, Open, Size, IOError, SemopNumProc, UnlinkWr,
              UnlinkRd, DeleteShm, unlink_shm, delete_shm, Go, Fail, Early,
              Session
<1>4. QED
  BY <1>2, <1>3, QuietStep DEF semvars

LEMMA PrologueLock ==
  ASSUME TypeInv, LockInv, NEW p \in Proc,
         CreateSem(p) \/ CreateShm(p) \/ LinkShm(p)
  PROVE  LockInv'
<1>1. /\ pc \in [Proc -> Labels] /\ semId \in [Proc -> Proc \cup {NoId}]
      /\ semKey \in Proc \cup {NoId}
  BY DEF TypeInv, TypeOK, Labels
<1>2. /\ pc[p] \in Early /\ adj' = adj
      /\ \E c \in Early \ {"create_sem"} : pc' = [pc EXCEPT ![p] = c]
  BY DEF CreateSem, CreateShm, LinkShm, create_sem, create_shm, link_shm, Go,
         Early, semvars
<1>3. CASE CreateSem(p)
  <2>1. pc[p] = "create_sem"
    BY <1>3 DEF CreateSem, create_sem, Go
  <2>2. \/ /\ semKey = NoId /\ semKey' = p
           /\ semId' = [semId EXCEPT ![p] = p]
        \/ /\ UNCHANGED <<semKey, val>>
           /\ semId' = [semId EXCEPT ![p] = semKey]
    BY <1>3 DEF CreateSem, create_sem
  <2>3. Fresh'
    BY <1>1, <1>2, <2>1, <2>2, ProcAssumption DEF LockInv, Fresh
  <2>4. \A q \in Proc : Live(q)' => q = p \/ Live(q)
    BY <1>1, <2>1, <2>2 DEF LockInv, Fresh, Live
  <2>5. \A x \in {"ALONE_WR", "ALONE_RD"} : adj[p][x] = 0
    BY <1>2 DEF LockInv, Adjustments
  <2>6. Adjustments'
    BY <1>1, <1>2, <2>4 DEF LockInv, Adjustments, InSession, Lock, Early, Session
  <2>7. LockCount'
    <3>1. \A q \in Proc, x \in {"ALONE_WR", "ALONE_RD"} :
             Holds(q, x)' => Holds(q, x) /\ UNCHANGED val
      BY <1>1, <1>2, <2>1, <2>2, <2>4, <2>5 DEF LockInv, Fresh, Holds, Live
    <3>2. QED
      BY <3>1 DEF LockInv, LockCount
  <2>8. QED
    BY <2>3, <2>6, <2>7 DEF LockInv
<1>4. CASE CreateShm(p) \/ LinkShm(p)
  <2>1. UNCHANGED semvars
    BY <1>4 DEF CreateShm, LinkShm, create_shm, link_shm
  <2>2. Fresh'
    BY <1>1, <1>2, <2>1 DEF LockInv, Fresh, semvars
  <2>3. Adjustments'
    BY <1>1, <1>2, <2>1
    DEF LockInv, Adjustments, InSession, Live, Lock, Early, Session, semvars
  <2>4. LockCount'
    BY <2>1 DEF LockInv, LockCount, Holds, Live, semvars
  <2>5. QED
    BY <2>2, <2>3, <2>4 DEF LockInv
<1>5. QED
  BY <1>3, <1>4

(* Taking the lock: it is 0, so nobody holds it. *)
LEMMA AcquireLock ==
  ASSUME TypeInv, LockInv, NEW p \in Proc,
         \/ p \in Writers /\ AloneWr(p)
         \/ p \in Readers /\ AloneRd(p)
  PROVE  LockInv'
<1> DEFINE L == Lock(p)
<1>1. /\ pc \in [Proc -> Labels] /\ semId \in [Proc -> Proc \cup {NoId}]
      /\ val \in [SEM -> Nat] /\ adj \in [Proc -> [SEM -> Int]]
      /\ UNCHANGED <<semKey, semId>>
  BY DEF TypeInv, TypeOK, Labels, AloneWr, AloneRd, Semop
<1>2. /\ pc[p] = "alone" /\ adj[p][L] = 0 /\ L \in {"ALONE_WR", "ALONE_RD"}
      /\ \A x \in {"ALONE_WR", "ALONE_RD"} : adj[p][x] = 0
  BY DEF LockInv, Adjustments, Early, AloneWr, AloneRd, Semop, Lock
<1>3. CASE ~Live(p)
  <2>1. UNCHANGED semvars /\ pc' = [pc EXCEPT ![p] = "exit"]
    BY <1>3 DEF AloneWr, AloneRd, Semop, Fail, semvars
  <2>2. QED
    BY <1>1, <2>1, QuietStep DEF semvars, Early, Session
<1>4. CASE Live(p)
  <2>1. /\ val[L] = 0
        /\ pc' = [pc EXCEPT ![p] = "wait_prev_connect"]
    BY <1>4, SharmemAssumption DEF AloneWr, AloneRd, Semop, Lock
  <2>2. /\ val'[L] = 1
        /\ \A x \in {"ALONE_WR", "ALONE_RD"} : x # L => val'[x] = val[x]
    BY <1>1, <1>4, <2>1, SharmemAssumption
    DEF AloneWr, AloneRd, Semop, Apply, Plus, SEM, Lock
  <2>3. /\ adj'[p][L] = -1
        /\ \A x \in {"ALONE_WR", "ALONE_RD"} : x # L => adj'[p][x] = adj[p][x]
        /\ \A q \in Proc : q # p => adj'[q] = adj[q]
    BY <1>1, <1>2, <1>4, SharmemAssumption
    DEF AloneWr, AloneRd, Semop, Apply, Minus, SEM, Lock
  <2>4. Fresh'
    BY <1>1, <2>1 DEF LockInv, Fresh
  <2>5. Adjustments'
    BY <1>1, <1>2, <2>1, <2>3
    DEF LockInv, Adjustments, InSession, Live, Lock, Early
  <2>6. \A q \in Proc : ~ Holds(q, L)
    BY <2>1, <1>2 DEF LockInv, LockCount
  <2>7. LockCount'
    <3>1. \A q \in Proc, x \in {"ALONE_WR", "ALONE_RD"} :
             Holds(q, x)' => IF x = L THEN q = p ELSE Holds(q, x)
      BY <1>1, <1>2, <2>3, <2>6 DEF Holds, Live
    <3>2. QED
      BY <1>2, <2>2, <3>1 DEF LockInv, LockCount
  <2>8. QED
    BY <2>4, <2>5, <2>7 DEF LockInv
<1>5. QED
  BY <1>3, <1>4

(* Giving the lock back, in a semop() or through SEM_UNDO. *)
LEMMA ReleaseLock ==
  ASSUME TypeInv, LockInv, NEW p \in Proc,
         semKey' = semKey, semId' = semId,
         \E c \in Late : pc' = [pc EXCEPT ![p] = c],
         \A x \in {"ALONE_WR", "ALONE_RD"} :
            /\ adj'[p][x] = 0
            /\ val'[x] = IF Holds(p, x) THEN 0 ELSE val[x],
         \A q \in Proc : q # p => adj'[q] = adj[q]
  PROVE  LockInv'
<1>1. pc \in [Proc -> Labels]
  BY DEF TypeInv, TypeOK, Labels
<1>2. Fresh'
  BY <1>1 DEF LockInv, Fresh, Late
<1>3. Adjustments'
  BY <1>1 DEF LockInv, Adjustments, InSession, Live, Lock, Late, Session
<1>4. LockCount'
  <2>1. \A q \in Proc, x \in {"ALONE_WR", "ALONE_RD"} :
           Holds(q, x)' => q # p /\ Holds(q, x)
    BY DEF Holds, Live
  <2>2. QED
    BY <2>1 DEF LockInv, LockCount
<1>5. QED
  BY <1>2, <1>3, <1>4 DEF LockInv

LEMMA ReapLock ==
  ASSUME TypeInv, LockInv, NEW p \in Proc, Reap(p)
  PROVE  LockInv'
<1>1. /\ val \in [SEM -> Nat] /\ adj \in [Proc -> [SEM -> Int]]
      /\ \A x \in {"ALONE_WR", "ALONE_RD"} :
            /\ adj[p][x] \in {0, -1}
            /\ Holds(p, x) => val[x] = 1
  BY DEF TypeInv, TypeOK, LockInv, Adjustments, LockCount
<1>2. \A x \in {"ALONE_WR", "ALONE_RD"} :
         /\ adj'[p][x] = 0
         /\ val'[x] = IF Holds(p, x) THEN 0 ELSE val[x]
  BY <1>1 DEF Reap, NonNeg, Holds, SEM
<1>3. /\ semKey' = semKey /\ semId' = semId
      /\ \E c \in Late : pc' = [pc EXCEPT ![p] = c]
      /\ \A q \in Proc : q # p => adj'[q] = adj[q]
  BY <1>1 DEF Reap, Late
<1>4. QED
  BY <1>2, <1>3, ReleaseLock

LEMMA EndLock ==
  ASSUME TypeInv, LockInv, NEW p \in Proc,
         \/ p \in Writers /\ EndWr(p)
         \/ p \in Readers /\ EndRd(p)
  PROVE  LockInv'
<1>1. /\ pc \in [Proc -> Labels]
      /\ val \in [SEM -> Nat] /\ adj \in [Proc -> [SEM -> Int]]
      /\ UNCHANGED <<semKey, semId>>
      /\ pc[p] \in Session
  BY DEF TypeInv, TypeOK, Labels, EndWr, EndRd, Semop, Go, Session
<1>2. CASE UNCHANGED <<val, adj>>
  <2>1. \E c \in {"exit", "end_rd_sleep", "unlink_shm"} :
           pc' = [pc EXCEPT ![p] = c]
    BY <1>1, <1>2 DEF EndWr, EndRd, Semop, Go, Fail
  <2>2. QED
    BY <1>1, <1>2, <2>1, QuietStep DEF Early, Session
<1>3. CASE ~ UNCHANGED <<val, adj>>
  <2>1. Live(p) /\ pc' = [pc EXCEPT ![p] = "unlink_shm"]
    BY <1>1, <1>3 DEF EndWr, EndRd, Semop, Go
  <2>2. /\ adj[p][Lock(p)] = -1 /\ val[Lock(p)] = 1
        /\ \A x \in {"ALONE_WR", "ALONE_RD"} : x # Lock(p) => adj[p][x] = 0
    BY <1>1, <2>1 DEF LockInv, Adjustments, InSession, LockCount, Holds, Lock
  <2>3. CASE p \in Writers /\ EndWr(p)
    <3>1. /\ val' = Plus(val, [NUM_PROC |-> -1, ALONE_WR |-> -1])
          /\ adj' = [adj EXCEPT ![p] = Minus(@, [FULL |-> 1, NUM_PROC |-> -1, ALONE_WR |-> -1])]
      BY <1>3, <2>1, <2>3 DEF EndWr, Semop, Apply
    <3>2. /\ val'["ALONE_WR"] = val["ALONE_WR"] - 1
          /\ val'["ALONE_RD"] = val["ALONE_RD"]
      BY <1>1, <3>1 DEF Plus, SEM
    <3>3. /\ adj'[p]["ALONE_WR"] = adj[p]["ALONE_WR"] + 1
          /\ adj'[p]["ALONE_RD"] = adj[p]["ALONE_RD"]
          /\ \A q \in Proc : q # p => adj'[q] = adj[q]
      BY <1>1, <3>1 DEF Minus, SEM
    <3>4. Lock(p) = "ALONE_WR"
      BY <2>3, SharmemAssumption DEF Lock
    <3>5. \A x \in {"ALONE_WR", "ALONE_RD"} :
             /\ adj'[p][x] = 0
             /\ val'[x] = IF Holds(p, x) THEN 0 ELSE val[x]
      BY <2>1, <2>2, <3>2, <3>3, <3>4 DEF Holds
    <3>6. \E c \in Late : pc' = [pc EXCEPT ![p] = c]
      BY <2>1 DEF Late
    <3>7. QED
      BY <1>1, <3>3, <3>5, <3>6, ReleaseLock
  <2>4. CASE p \in Readers /\ EndRd(p)
    <3>1. /\ val' = Plus(val, [NUM_PROC |-> -1, EMPTY |-> -1, ALONE_RD |-> -1])
          /\ adj' = [adj EXCEPT ![p] = Minus(@, [NUM_PROC |-> -1, EMPTY |-> -1, ALONE_RD |-> -1])]
      BY <1>3, <2>1, <2>4 DEF EndRd, Apply
    <3>2. /\ val'["ALONE_RD"] = val["ALONE_RD"] - 1
          /\ val'["ALONE_WR"] = val["ALONE_WR"]
      BY <1>1, <3>1 DEF Plus, SEM
    <3>3. /\ adj'[p]["ALONE_RD"] = adj[p]["ALONE_RD"] + 1
          /\ adj'[p]["ALONE_WR"] = adj[p]["ALONE_WR"]
          /\ \A q \in Proc : q # p => adj'[q] = adj[q]
      BY <1>1, <3>1 DEF Minus, SEM
    <3>4. Lock(p) = "ALONE_RD"
      BY <2>4, SharmemAssumption DEF Lock
    <3>5. \A x \in {"ALONE_WR", "ALONE_RD"} :
             /\ adj'[p][x] = 0
             /\ val'[x] = IF Holds(p, x) THEN 0 ELSE val[x]
      BY <2>1, <2>2, <3>2, <3>3, <3>4 DEF Holds
    <3>6. \E c \in Late : pc' = [pc EXCEPT ![p] = c]
      BY <2>1 DEF Late
    <3>7. QED
      BY <1>1, <3>3, <3>5, <3>6, ReleaseLock
  <2>5. QED
    BY <2>3, <2>4
<1>4. QED
  BY <1>2, <1>3

(* After IPC_RMID nobody's identifier is live. *)
LEMMA DeleteSemLock ==
  ASSUME TypeInv, LockInv, NEW p \in Proc, DeleteSem(p)
  PROVE  LockInv'
<1>1. /\ pc \in [Proc -> Labels] /\ pc' = [pc EXCEPT ![p] = "return"]
      /\ pc[p] = "delete_sem" /\ UNCHANGED <<val, adj, semId>>
      /\ semKey' = IF Live(p) THEN NoId ELSE semKey
  BY DEF TypeInv, TypeOK, Labels, DeleteSem, delete_sem, Go
<1>2. \A q \in Proc : Live(q)' => Live(q)
  BY <1>1 DEF Live
<1>3. Fresh'
  BY <1>1, ProcAssumption DEF LockInv, Fresh
<1>4. Adjustments'
  BY <1>1, <1>2 DEF LockInv, Adjustments, InSession, Lock, Early, Session
<1>5. LockCount'
  BY <1>1, <1>2 DEF LockInv, LockCount, Holds
<1>6. QED
  BY <1>3, <1>4, <1>5 DEF LockInv

LEMMA ProcessLock ==
  ASSUME TypeInv, LockInv, NEW p \in Proc, Prologue(p) \/ ProcessEnd(p) \/ Killed(p)
  PROVE  LockInv'
BY PrologueLock, QuietSemops, ReapLock
DEF Prologue, ProcessEnd, Exit, Return, Killed, Kill

LEMMA PageLock ==
  ASSUME TypeInv, LockInv, NEW p \in Proc, Fill(p) \/ ReadSize(p) \/ Write(p)
  PROVE  LockInv'
<1>1. CASE Segfault(p, "fill") \/ Segfault(p, "read_size")
  BY <1>1, ReapLock DEF Segfault
<1>2. CASE /\ ~ Segfault(p, "fill")
           /\ ~ Segfault(p, "read_size")
  BY <1>2, QuietMoves DEF Fill, ReadSize, Write, shmvars
<1>3. QED
  BY <1>1, <1>2

LEMMA LockStep == TypeInv /\ LockInv /\ [Next]_vars => LockInv'
<1> SUFFICES ASSUME TypeInv, LockInv, [Next]_vars PROVE LockInv'
    OBVIOUS
<1>1. ASSUME NEW w \in Writers, Writer(w) PROVE LockInv'
  BY <1>1, SharmemAssumption, ProcessLock, AcquireLock, QuietSetVal,
     QuietSemops, QuietMoves, PageLock, EndLock, DeleteSemLock DEF Writer
<1>2. ASSUME NEW r \in Readers, Reader(r) PROVE LockInv'
  BY <1>2, SharmemAssumption, ProcessLock, AcquireLock, QuietSetVal,
     QuietSemops, QuietMoves, PageLock, EndLock DEF Reader
<1>3. ASSUME NEW p \in Proc, Killed(p) PROVE LockInv'
  BY <1>3, ProcessLock
<1>4. CASE UNCHANGED vars
  BY <1>4, QuietStep DEF vars, procvars, semvars
<1>5. QED
  BY <1>1, <1>2, <1>3, <1>4 DEF Next

(* However many writers and readers run and are killed, of the writers of  *)
(* one semaphore set at most one is between its ALONE_WR semop() and the   *)
(* end of its session, and of the readers at most one.                     *)
THEOREM SessionsExclude == Spec => []SessionExclusive
<1>1. LockInv => SessionExclusive
  <2> SUFFICES ASSUME LockInv, NEW p \in Proc, NEW q \in Proc,
                      InSession(p), InSession(q),
                      {p, q} \subseteq Writers \/ {p, q} \subseteq Readers
               PROVE  p = q
      BY DEF SessionExclusive
  <2>1. Lock(p) = Lock(q) /\ Lock(p) \in {"ALONE_WR", "ALONE_RD"}
    BY SharmemAssumption DEF Lock
  <2>2. Holds(p, Lock(p)) /\ Holds(q, Lock(q))
    BY DEF LockInv, Adjustments, Holds, InSession
  <2>3. QED
    BY <2>1, <2>2 DEF LockInv, LockCount
<1>2. QED
  BY <1>1, TypeInit, TypeStep, LockInit, LockStep, PTL DEF Spec

-----------------------------------------------------------------------------
(* The steps, flattened for the proofs below: what a semop() that is not  *)
(* refused does to the values and to the adjustments.                      *)
Moves(p, to) ==
  /\ pc' = [pc EXCEPT ![p] = to]
  /\ UNCHANGED <<status, semKey, semId, shmvars, datavars>>

Refused(p) ==
  /\ ~Live(p)
  /\ pc' = [pc EXCEPT ![p] = "exit"]
  /\ status' = [status EXCEPT ![p] = "failure"]
  /\ UNCHANGED <<semvars, shmvars, datavars>>

LEMMA WaitPrevConnectEffect ==
  ASSUME TypeInv, NEW p \in Proc, WaitPrevConnect(p)
  PROVE  /\ pc[p] = "wait_prev_connect"
         /\ \/ Refused(p)
            \/ /\ Live(p) /\ val["NUM_PROC"] = 0 /\ Moves(p, "setval")
               /\ val' = val
               /\ adj' = adj
<1>1. /\ p \in Proc /\ val \in [SEM -> Nat] /\ adj \in [Proc -> [SEM -> Int]]
      /\ Semop(p, "wait_prev_connect", "setval",
               val["NUM_PROC"] = 0,
               None, None)
      /\ UNCHANGED datavars /\ pc[p] = "wait_prev_connect"
  BY SharmemAssumption DEF TypeInv, TypeOK, Semop, WaitPrevConnect
<1>2. CASE Refused(p)
  BY <1>1, <1>2
<1>3. CASE ~Refused(p)
  <2>1. /\ Live(p) /\ val["NUM_PROC"] = 0 /\ Moves(p, "setval")
        /\ val' = Plus(val, None)
        /\ adj' = [adj EXCEPT ![p] = Minus(@, None)]
    BY <1>1, <1>3 DEF Semop, Apply, Fail, Refused, Moves, semvars
  <2>2. QED
    BY <1>1, <2>1 DEF Plus, Minus, SEM, None
<1>4. QED
  BY <1>2, <1>3

LEMMA AloneWrEffect ==
  ASSUME TypeInv, NEW w \in Writers, AloneWr(w)
  PROVE  /\ pc[w] = "alone"
         /\ \/ Refused(w)
            \/ /\ Live(w) /\ val["ALONE_WR"] = 0 /\ Moves(w, "wait_prev_connect")
               /\ val'["ALONE_WR"] = val["ALONE_WR"] + 1
               /\ \A x \in SEM \ {"ALONE_WR"} : val'[x] = val[x]
               /\ adj'[w]["ALONE_WR"] = adj[w]["ALONE_WR"] - 1
               /\ \A x \in SEM \ {"ALONE_WR"} : adj'[w][x] = adj[w][x]
               /\ \A q \in Proc : q # w => adj'[q] = adj[q]
<1>1. /\ w \in Proc /\ val \in [SEM -> Nat] /\ adj \in [Proc -> [SEM -> Int]]
      /\ Semop(w, "alone", "wait_prev_connect",
               val["ALONE_WR"] = 0,
               [ALONE_WR |-> 1], [ALONE_WR |-> 1])
      /\ UNCHANGED datavars /\ pc[w] = "alone"
  BY SharmemAssumption DEF TypeInv, TypeOK, Semop, AloneWr
<1>2. CASE Refused(w)
  BY <1>1, <1>2
<1>3. CASE ~Refused(w)
  <2>1. /\ Live(w) /\ val["ALONE_WR"] = 0 /\ Moves(w, "wait_prev_connect")
        /\ val' = Plus(val, [ALONE_WR |-> 1])
        /\ adj' = [adj EXCEPT ![w] = Minus(@, [ALONE_WR |-> 1])]
    BY <1>1, <1>3 DEF Semop, Apply, Fail, Refused, Moves, semvars
  <2>2. QED
    BY <1>1, <2>1 DEF Plus, Minus, SEM
<1>4. QED
  BY <1>2, <1>3

LEMMA WriterSyncEffect ==
  ASSUME TypeInv, NEW w \in Writers, WriterSync(w)
  PROVE  /\ pc[w] = "sync"
         /\ \/ Refused(w)
            \/ /\ Live(w) /\ Moves(w, "connect")
               /\ val'["SYNC_RD"] = val["SYNC_RD"] + 1
               /\ \A x \in SEM \ {"SYNC_RD"} : val'[x] = val[x]
               /\ adj' = adj
<1>1. /\ w \in Proc /\ val \in [SEM -> Nat] /\ adj \in [Proc -> [SEM -> Int]]
      /\ Semop(w, "sync", "connect",
               TRUE,
               [SYNC_RD |-> 1], None)
      /\ UNCHANGED datavars /\ pc[w] = "sync"
  BY SharmemAssumption DEF TypeInv, TypeOK, Semop, WriterSync
<1>2. CASE Refused(w)
  BY <1>1, <1>2
<1>3. CASE ~Refused(w)
  <2>1. /\ Live(w) /\ Moves(w, "connect")
        /\ val' = Plus(val, [SYNC_RD |-> 1])
        /\ adj' = [adj EXCEPT ![w] = Minus(@, None)]
    BY <1>1, <1>3 DEF Semop, Apply, Fail, Refused, Moves, semvars
  <2>2. QED
    BY <1>1, <2>1 DEF Plus, Minus, SEM, None
<1>4. QED
  BY <1>2, <1>3

LEMMA WriterConnectEffect ==
  ASSUME TypeInv, NEW w \in Writers, WriterConnect(w)
  PROVE  /\ pc[w] = "connect"
         /\ \/ Refused(w)
            \/ /\ Live(w) /\ val["SYNC_WR"] > 0 /\ Moves(w, "open")
               /\ val'["SYNC_WR"] = val["SYNC_WR"] - 1
               /\ val'["NUM_PROC"] = val["NUM_PROC"] + 1
               /\ \A x \in SEM \ {"SYNC_WR", "NUM_PROC"} : val'[x] = val[x]
               /\ adj'[w]["NUM_PROC"] = adj[w]["NUM_PROC"] - 1
               /\ adj'[w]["FULL"] = adj[w]["FULL"] + 1
               /\ \A x \in SEM \ {"NUM_PROC", "FULL"} : adj'[w][x] = adj[w][x]
               /\ \A q \in Proc : q # w => adj'[q] = adj[q]
<1>1. /\ w \in Proc /\ val \in [SEM -> Nat] /\ adj \in [Proc -> [SEM -> Int]]
      /\ Semop(w, "connect", "open",
               val["SYNC_WR"] > 0,
               [SYNC_WR |-> -1, NUM_PROC |-> 1], [NUM_PROC |-> 1, FULL |-> -1])
      /\ UNCHANGED datavars /\ pc[w] = "connect"
  BY SharmemAssumption DEF TypeInv, TypeOK, Semop, WriterConnect
<1>2. CASE Refused(w)
  BY <1>1, <1>2
<1>3. CASE ~Refused(w)
  <2>1. /\ Live(w) /\ val["SYNC_WR"] > 0 /\ Moves(w, "open")
        /\ val' = Plus(val, [SYNC_WR |-> -1, NUM_PROC |-> 1])
        /\ adj' = [adj EXCEPT ![w] = Minus(@, [NUM_PROC |-> 1, FULL |-> -1])]
    BY <1>1, <1>3 DEF Semop, Apply, Fail, Refused, Moves, semvars
  <2>2. QED
    BY <1>1, <2>1 DEF Plus, Minus, SEM
<1>4. QED
  BY <1>2, <1>3

LEMMA PEmptyEffect ==
  ASSUME TypeInv, NEW w \in Writers, PEmpty(w)
  PROVE  /\ pc[w] = "p_empty"
         /\ \/ Refused(w)
            \/ /\ Live(w) /\ val["EMPTY"] > 0 /\ Moves(w, "check_wr")
               /\ val'["EMPTY"] = val["EMPTY"] - 1
               /\ \A x \in SEM \ {"EMPTY"} : val'[x] = val[x]
               /\ adj' = adj
<1>1. /\ w \in Proc /\ val \in [SEM -> Nat] /\ adj \in [Proc -> [SEM -> Int]]
      /\ Semop(w, "p_empty", "check_wr",
               val["EMPTY"] > 0,
               [EMPTY |-> -1], None)
      /\ UNCHANGED datavars /\ pc[w] = "p_empty"
  BY SharmemAssumption DEF TypeInv, TypeOK, Semop, PEmpty
<1>2. CASE Refused(w)
  BY <1>1, <1>2
<1>3. CASE ~Refused(w)
  <2>1. /\ Live(w) /\ val["EMPTY"] > 0 /\ Moves(w, "check_wr")
        /\ val' = Plus(val, [EMPTY |-> -1])
        /\ adj' = [adj EXCEPT ![w] = Minus(@, None)]
    BY <1>1, <1>3 DEF Semop, Apply, Fail, Refused, Moves, semvars
  <2>2. QED
    BY <1>1, <2>1 DEF Plus, Minus, SEM, None
<1>4. QED
  BY <1>2, <1>3

LEMMA VFullEffect ==
  ASSUME TypeInv, NEW w \in Writers, VFull(w)
  PROVE  /\ pc[w] = "v_full"
         /\ \/ Refused(w)
            \/ /\ Live(w) /\ Moves(w, IF num_symb[w] > 0 THEN "p_empty" ELSE "end_wr")
               /\ val'["FULL"] = val["FULL"] + 1
               /\ \A x \in SEM \ {"FULL"} : val'[x] = val[x]
               /\ adj' = adj
<1>1. /\ w \in Proc /\ val \in [SEM -> Nat] /\ adj \in [Proc -> [SEM -> Int]]
      /\ Semop(w, "v_full", IF num_symb[w] > 0 THEN "p_empty" ELSE "end_wr",
               TRUE,
               [FULL |-> 1], None)
      /\ UNCHANGED datavars /\ pc[w] = "v_full"
  BY SharmemAssumption DEF TypeInv, TypeOK, Semop, VFull
<1>2. CASE Refused(w)
  BY <1>1, <1>2
<1>3. CASE ~Refused(w)
  <2>1. /\ Live(w) /\ Moves(w, IF num_symb[w] > 0 THEN "p_empty" ELSE "end_wr")
        /\ val' = Plus(val, [FULL |-> 1])
        /\ adj' = [adj EXCEPT ![w] = Minus(@, None)]
    BY <1>1, <1>3 DEF Semop, Apply, Fail, Refused, Moves, semvars
  <2>2. QED
    BY <1>1, <2>1 DEF Plus, Minus, SEM, None
<1>4. QED
  BY <1>2, <1>3

LEMMA EndWrEffect ==
  ASSUME TypeInv, NEW w \in Writers, EndWr(w)
  PROVE  /\ pc[w] = "end_wr"
         /\ \/ Refused(w)
            \/ /\ Live(w) /\ val["NUM_PROC"] > 0 /\ val["ALONE_WR"] > 0 /\ Moves(w, "unlink_shm")
               /\ val'["NUM_PROC"] = val["NUM_PROC"] - 1
               /\ val'["ALONE_WR"] = val["ALONE_WR"] - 1
               /\ \A x \in SEM \ {"NUM_PROC", "ALONE_WR"} : val'[x] = val[x]
               /\ adj'[w]["FULL"] = adj[w]["FULL"] - 1
               /\ adj'[w]["NUM_PROC"] = adj[w]["NUM_PROC"] + 1
               /\ adj'[w]["ALONE_WR"] = adj[w]["ALONE_WR"] + 1
               /\ \A x \in SEM \ {"FULL", "NUM_PROC", "ALONE_WR"} : adj'[w][x] = adj[w][x]
               /\ \A q \in Proc : q # w => adj'[q] = adj[q]
<1>1. /\ w \in Proc /\ val \in [SEM -> Nat] /\ adj \in [Proc -> [SEM -> Int]]
      /\ Semop(w, "end_wr", "unlink_shm",
               val["NUM_PROC"] > 0 /\ val["ALONE_WR"] > 0,
               [NUM_PROC |-> -1, ALONE_WR |-> -1], [FULL |-> 1, NUM_PROC |-> -1, ALONE_WR |-> -1])
      /\ UNCHANGED datavars /\ pc[w] = "end_wr"
  BY SharmemAssumption DEF TypeInv, TypeOK, Semop, EndWr
<1>2. CASE Refused(w)
  BY <1>1, <1>2
<1>3. CASE ~Refused(w)
  <2>1. /\ Live(w) /\ val["NUM_PROC"] > 0 /\ val["ALONE_WR"] > 0 /\ Moves(w, "unlink_shm")
        /\ val' = Plus(val, [NUM_PROC |-> -1, ALONE_WR |-> -1])
        /\ adj' = [adj EXCEPT ![w] = Minus(@, [FULL |-> 1, NUM_PROC |-> -1, ALONE_WR |-> -1])]
    BY <1>1, <1>3 DEF Semop, Apply, Fail, Refused, Moves, semvars
  <2>2. QED
    BY <1>1, <2>1 DEF Plus, Minus, SEM
<1>4. QED
  BY <1>2, <1>3

LEMMA AloneRdEffect ==
  ASSUME TypeInv, NEW r \in Readers, AloneRd(r)
  PROVE  /\ pc[r] = "alone"
         /\ \/ Refused(r)
            \/ /\ Live(r) /\ val["ALONE_RD"] = 0 /\ Moves(r, "wait_prev_connect")
               /\ val'["ALONE_RD"] = val["ALONE_RD"] + 1
               /\ \A x \in SEM \ {"ALONE_RD"} : val'[x] = val[x]
               /\ adj'[r]["ALONE_RD"] = adj[r]["ALONE_RD"] - 1
               /\ \A x \in SEM \ {"ALONE_RD"} : adj'[r][x] = adj[r][x]
               /\ \A q \in Proc : q # r => adj'[q] = adj[q]
<1>1. /\ r \in Proc /\ val \in [SEM -> Nat] /\ adj \in [Proc -> [SEM -> Int]]
      /\ Semop(r, "alone", "wait_prev_connect",
               val["ALONE_RD"] = 0,
               [ALONE_RD |-> 1], [ALONE_RD |-> 1])
      /\ UNCHANGED datavars /\ pc[r] = "alone"
  BY SharmemAssumption DEF TypeInv, TypeOK, Semop, AloneRd
<1>2. CASE Refused(r)
  BY <1>1, <1>2
<1>3. CASE ~Refused(r)
  <2>1. /\ Live(r) /\ val["ALONE_RD"] = 0 /\ Moves(r, "wait_prev_connect")
        /\ val' = Plus(val, [ALONE_RD |-> 1])
        /\ adj' = [adj EXCEPT ![r] = Minus(@, [ALONE_RD |-> 1])]
    BY <1>1, <1>3 DEF Semop, Apply, Fail, Refused, Moves, semvars
  <2>2. QED
    BY <1>1, <2>1 DEF Plus, Minus, SEM
<1>4. QED
  BY <1>2, <1>3

LEMMA ReaderSyncEffect ==
  ASSUME TypeInv, NEW r \in Readers, ReaderSync(r)
  PROVE  /\ pc[r] = "sync"
         /\ \/ Refused(r)
            \/ /\ Live(r) /\ Moves(r, "connect")
               /\ val'["SYNC_WR"] = val["SYNC_WR"] + 1
               /\ \A x \in SEM \ {"SYNC_WR"} : val'[x] = val[x]
               /\ adj' = adj
<1>1. /\ r \in Proc /\ val \in [SEM -> Nat] /\ adj \in [Proc -> [SEM -> Int]]
      /\ Semop(r, "sync", "connect",
               TRUE,
               [SYNC_WR |-> 1], None)
      /\ UNCHANGED datavars /\ pc[r] = "sync"
  BY SharmemAssumption DEF TypeInv, TypeOK, Semop, ReaderSync
<1>2. CASE Refused(r)
  BY <1>1, <1>2
<1>3. CASE ~Refused(r)
  <2>1. /\ Live(r) /\ Moves(r, "connect")
        /\ val' = Plus(val, [SYNC_WR |-> 1])
        /\ adj' = [adj EXCEPT ![r] = Minus(@, None)]
    BY <1>1, <1>3 DEF Semop, Apply, Fail, Refused, Moves, semvars
  <2>2. QED
    BY <1>1, <2>1 DEF Plus, Minus, SEM, None
<1>4. QED
  BY <1>2, <1>3

LEMMA ReaderConnectEffect ==
  ASSUME TypeInv, NEW r \in Readers, ReaderConnect(r)
  PROVE  /\ pc[r] = "connect"
         /\ \/ Refused(r)
            \/ /\ Live(r) /\ val["SYNC_RD"] > 0 /\ Moves(r, "p_full")
               /\ val'["SYNC_RD"] = val["SYNC_RD"] - 1
               /\ val'["NUM_PROC"] = val["NUM_PROC"] + 1
               /\ \A x \in SEM \ {"SYNC_RD", "NUM_PROC"} : val'[x] = val[x]
               /\ adj'[r]["NUM_PROC"] = adj[r]["NUM_PROC"] - 1
               /\ adj'[r]["EMPTY"] = adj[r]["EMPTY"] + 1
               /\ \A x \in SEM \ {"NUM_PROC", "EMPTY"} : adj'[r][x] = adj[r][x]
               /\ \A q \in Proc : q # r => adj'[q] = adj[q]
<1>1. /\ r \in Proc /\ val \in [SEM -> Nat] /\ adj \in [Proc -> [SEM -> Int]]
      /\ Semop(r, "connect", "p_full",
               val["SYNC_RD"] > 0,
               [SYNC_RD |-> -1, NUM_PROC |-> 1], [NUM_PROC |-> 1, EMPTY |-> -1])
      /\ UNCHANGED datavars /\ pc[r] = "connect"
  BY SharmemAssumption DEF TypeInv, TypeOK, Semop, ReaderConnect
<1>2. CASE Refused(r)
  BY <1>1, <1>2
<1>3. CASE ~Refused(r)
  <2>1. /\ Live(r) /\ val["SYNC_RD"] > 0 /\ Moves(r, "p_full")
        /\ val' = Plus(val, [SYNC_RD |-> -1, NUM_PROC |-> 1])
        /\ adj' = [adj EXCEPT ![r] = Minus(@, [NUM_PROC |-> 1, EMPTY |-> -1])]
    BY <1>1, <1>3 DEF Semop, Apply, Fail, Refused, Moves, semvars
  <2>2. QED
    BY <1>1, <2>1 DEF Plus, Minus, SEM
<1>4. QED
  BY <1>2, <1>3

LEMMA PFullEffect ==
  ASSUME TypeInv, NEW r \in Readers, PFull(r)
  PROVE  /\ pc[r] = "p_full"
         /\ \/ Refused(r)
            \/ /\ Live(r) /\ val["FULL"] > 0 /\ Moves(r, "check_rd")
               /\ val'["FULL"] = val["FULL"] - 1
               /\ \A x \in SEM \ {"FULL"} : val'[x] = val[x]
               /\ adj' = adj
<1>1. /\ r \in Proc /\ val \in [SEM -> Nat] /\ adj \in [Proc -> [SEM -> Int]]
      /\ Semop(r, "p_full", "check_rd",
               val["FULL"] > 0,
               [FULL |-> -1], None)
      /\ UNCHANGED datavars /\ pc[r] = "p_full"
  BY SharmemAssumption DEF TypeInv, TypeOK, Semop, PFull
<1>2. CASE Refused(r)
  BY <1>1, <1>2
<1>3. CASE ~Refused(r)
  <2>1. /\ Live(r) /\ val["FULL"] > 0 /\ Moves(r, "check_rd")
        /\ val' = Plus(val, [FULL |-> -1])
        /\ adj' = [adj EXCEPT ![r] = Minus(@, None)]
    BY <1>1, <1>3 DEF Semop, Apply, Fail, Refused, Moves, semvars
  <2>2. QED
    BY <1>1, <2>1 DEF Plus, Minus, SEM, None
<1>4. QED
  BY <1>2, <1>3

LEMMA VEmptyEffect ==
  ASSUME TypeInv, NEW r \in Readers, VEmpty(r)
  PROVE  /\ pc[r] = "v_empty"
         /\ \/ Refused(r)
            \/ /\ Live(r) /\ Moves(r, IF num_symb[r] > 0 THEN "p_full" ELSE "end_rd")
               /\ val'["EMPTY"] = val["EMPTY"] + 1
               /\ \A x \in SEM \ {"EMPTY"} : val'[x] = val[x]
               /\ adj' = adj
<1>1. /\ r \in Proc /\ val \in [SEM -> Nat] /\ adj \in [Proc -> [SEM -> Int]]
      /\ Semop(r, "v_empty", IF num_symb[r] > 0 THEN "p_full" ELSE "end_rd",
               TRUE,
               [EMPTY |-> 1], None)
      /\ UNCHANGED datavars /\ pc[r] = "v_empty"
  BY SharmemAssumption DEF TypeInv, TypeOK, Semop, VEmpty
<1>2. CASE Refused(r)
  BY <1>1, <1>2
<1>3. CASE ~Refused(r)
  <2>1. /\ Live(r) /\ Moves(r, IF num_symb[r] > 0 THEN "p_full" ELSE "end_rd")
        /\ val' = Plus(val, [EMPTY |-> 1])
        /\ adj' = [adj EXCEPT ![r] = Minus(@, None)]
    BY <1>1, <1>3 DEF Semop, Apply, Fail, Refused, Moves, semvars
  <2>2. QED
    BY <1>1, <2>1 DEF Plus, Minus, SEM, None
<1>4. QED
  BY <1>2, <1>3

(* The closing semop() of the reader in its four outcomes. *)
LEMMA EndRdEffect ==
  ASSUME TypeInv, NEW r \in Readers, EndRd(r)
  PROVE  /\ pc[r] \in {"end_rd", "end_rd_sleep"}
         /\ \/ Refused(r) /\ pc[r] = "end_rd_sleep"
            \/ /\ ~Live(r) /\ pc[r] = "end_rd"
               /\ Moves(r, "unlink_shm") /\ UNCHANGED <<val, adj>>
            \/ /\ Live(r) /\ pc[r] = "end_rd"
               /\ Moves(r, "end_rd_sleep") /\ UNCHANGED <<val, adj>>
            \/ /\ Live(r) /\ Moves(r, "unlink_shm")
               /\ val["NUM_PROC"] > 0 /\ val["EMPTY"] > 0 /\ val["ALONE_RD"] > 0
               /\ val'["NUM_PROC"] = val["NUM_PROC"] - 1
               /\ val'["EMPTY"] = val["EMPTY"] - 1
               /\ val'["ALONE_RD"] = val["ALONE_RD"] - 1
               /\ \A x \in SEM \ {"NUM_PROC", "EMPTY", "ALONE_RD"} : val'[x] = val[x]
               /\ adj'[r]["NUM_PROC"] = adj[r]["NUM_PROC"] + 1
               /\ adj'[r]["EMPTY"] = adj[r]["EMPTY"] + 1
               /\ adj'[r]["ALONE_RD"] = adj[r]["ALONE_RD"] + 1
               /\ \A x \in SEM \ {"NUM_PROC", "EMPTY", "ALONE_RD"} :
                     adj'[r][x] = adj[r][x]
               /\ \A q \in Proc : q # r => adj'[q] = adj[q]
<1> DEFINE end_rd == [NUM_PROC |-> -1, EMPTY |-> -1, ALONE_RD |-> -1]
<1>1. /\ r \in Proc /\ val \in [SEM -> Nat] /\ adj \in [Proc -> [SEM -> Int]]
      /\ pc[r] \in {"end_rd", "end_rd_sleep"}
      /\ UNCHANGED <<semKey, semId, shmvars, datavars>>
  BY SharmemAssumption DEF TypeInv, TypeOK, EndRd, Go
<1>2. CASE ~Live(r)
  BY <1>1, <1>2 DEF EndRd, Go, Fail, Refused, Moves, semvars
<1>3. CASE Live(r) /\ \E x \in {"NUM_PROC", "EMPTY", "ALONE_RD"} : val[x] = 0
  BY <1>1, <1>3 DEF EndRd, Go, Moves
<1>4. CASE Live(r) /\ \A x \in {"NUM_PROC", "EMPTY", "ALONE_RD"} : val[x] # 0
  <2>1. /\ Moves(r, "unlink_shm")
        /\ val["NUM_PROC"] > 0 /\ val["EMPTY"] > 0 /\ val["ALONE_RD"] > 0
        /\ val' = Plus(val, end_rd)
        /\ adj' = [adj EXCEPT ![r] = Minus(@, end_rd)]
    BY <1>1, <1>4 DEF EndRd, Apply, Go, Moves
  <2>2. /\ val'["NUM_PROC"] = val["NUM_PROC"] - 1
        /\ val'["EMPTY"] = val["EMPTY"] - 1
        /\ val'["ALONE_RD"] = val["ALONE_RD"] - 1
        /\ \A x \in SEM \ {"NUM_PROC", "EMPTY", "ALONE_RD"} : val'[x] = val[x]
    BY <1>1, <2>1 DEF Plus, SEM
  <2>3. /\ adj'[r]["NUM_PROC"] = adj[r]["NUM_PROC"] + 1
        /\ adj'[r]["EMPTY"] = adj[r]["EMPTY"] + 1
        /\ adj'[r]["ALONE_RD"] = adj[r]["ALONE_RD"] + 1
        /\ \A x \in SEM \ {"NUM_PROC", "EMPTY", "ALONE_RD"} : adj'[r][x] = adj[r][x]
        /\ \A q \in Proc : q # r => adj'[q] = adj[q]
    BY <1>1, <2>1 DEF Minus, SEM
  <2>4. QED
    BY <1>1, <1>4, <2>1, <2>2, <2>3
<1>5. QED
  BY <1>2, <1>3, <1>4

LEMMA SetValEffect ==
  ASSUME TypeInv, NEW p \in Proc, NEW x \in SEM, NEW n \in Nat,
         SetVal(p, "setval", "sync", x, n), UNCHANGED datavars
  PROVE  /\ pc[p] = "setval"
         /\ \/ Refused(p)
            \/ /\ Live(p) /\ Moves(p, "sync")
               /\ val'[x] = n
               /\ \A y \in SEM \ {x} : val'[y] = val[y]
               /\ \A q \in Proc :
                     /\ \A y \in SEM \ {x} : adj'[q][y] = adj[q][y]
                     /\ IF Live(q) THEN adj'[q][x] = 0 ELSE adj'[q] = adj[q]
<1>1. val \in [SEM -> Nat] /\ adj \in [Proc -> [SEM -> Int]] /\ pc[p] = "setval"
  BY DEF TypeInv, TypeOK, SetVal
<1>2. CASE ~Live(p)
  BY <1>1, <1>2 DEF SetVal, Fail, Refused, semvars
<1>3. CASE Live(p)
  BY <1>1, <1>3 DEF SetVal, Moves, Go
<1>4. QED
  BY <1>2, <1>3

-----------------------------------------------------------------------------
(* NUM_PROC. *)

Loop   == Session \ {"wait_prev_connect", "setval", "sync", "connect"}
Before == Labels \ (Loop \cup Late)

Connected(p) == Live(p) /\ adj[p]["NUM_PROC"] = -1

(* What SEM_UNDO will give back for p: its connection, its lock while it   *)
(* is connected, and the semaphore its partner sleeps on.                  *)
UndoAt(p) ==
  /\ adj[p]["NUM_PROC"] \in {0, -1}
  /\ pc[p] \in Before => adj[p]["NUM_PROC"] = 0
  /\ Live(p) /\ pc[p] \in Loop => adj[p]["NUM_PROC"] = -1
  /\ Live(p) /\ pc[p] \in Late \ {"exit"} => adj[p]["NUM_PROC"] = 0
  /\ Connected(p) => adj[p][Lock(p)] = -1
  /\ p \in Writers => adj[p]["FULL"] = 0 - adj[p]["NUM_PROC"] /\ adj[p]["EMPTY"] = 0
  /\ p \in Readers => adj[p]["FULL"] = 0
  /\ adj[p]["SYNC_WR"] = 0

Undo == \A p \in Proc : UndoAt(p)

(* The processes that NUM_PROC counts. *)
Peers == {p \in Proc : Connected(p)}

Count ==
  /\ IsFiniteSet(Peers)
  /\ semKey # NoId => val["NUM_PROC"] = Cardinality(Peers)

NumInv == Undo /\ Count

LEMMA NumInit == Init => NumInv
<1> SUFFICES ASSUME Init PROVE NumInv
    OBVIOUS
<1>1. Peers = {} /\ semKey = NoId
  BY DEF Init, IPCInit, Peers, Connected, Live
<1>2. Count
  BY <1>1, FS_EmptySet DEF Count
<1>3. Undo
  BY SharmemAssumption, <1>1
  DEF Init, IPCInit, Undo, UndoAt, Connected, Live, Before, Loop, Labels,
      Early, Session, Late, SEM
<1>4. QED
  BY <1>2, <1>3 DEF NumInv

(* A step of p leaves the others as they are, or removes their set. *)
LEMMA UndoStep ==
  ASSUME Undo, NEW p \in Proc, UndoAt(p)',
         \A q \in Proc : q # p => /\ pc'[q] = pc[q]
                                  /\ adj'[q] = adj[q]
                                  /\ Live(q)' => Live(q)
  PROVE  Undo'
<1> SUFFICES ASSUME NEW q \in Proc, q # p PROVE UndoAt(q)'
    BY DEF Undo
<1>1. UndoAt(q) /\ pc'[q] = pc[q] /\ adj'[q] = adj[q] /\ (Live(q)' => Live(q))
  BY DEF Undo
<1>2. QED
  BY <1>1 DEF UndoAt, Connected

LEMMA CountSame ==
  ASSUME Count,
         \A q \in Proc : Connected(q)' <=> Connected(q),
         val'["NUM_PROC"] = val["NUM_PROC"], semKey' # NoId => semKey # NoId
  PROVE  Count'
<1>1. Peers' = Peers
  BY DEF Peers
<1>2. QED
  BY <1>1 DEF Count

LEMMA CountUp ==
  ASSUME Count, semKey # NoId, semKey' = semKey,
         NEW p \in Proc, ~Connected(p), Connected(p)',
         \A q \in Proc : q # p => (Connected(q)' <=> Connected(q)),
         val'["NUM_PROC"] = val["NUM_PROC"] + 1
  PROVE  Count'
<1>1. Peers' = Peers \cup {p} /\ p \notin Peers
  BY DEF Peers
<1>2. /\ IsFiniteSet(Peers \cup {p})
      /\ Cardinality(Peers \cup {p}) = Cardinality(Peers) + 1
  BY <1>1, FS_AddElement DEF Count
<1>3. QED
  BY <1>1, <1>2 DEF Count

LEMMA CountDown ==
  ASSUME Count, semKey # NoId, semKey' = semKey,
         NEW p \in Proc, Connected(p), ~Connected(p)',
         \A q \in Proc : q # p => (Connected(q)' <=> Connected(q)),
         val'["NUM_PROC"] = val["NUM_PROC"] - 1
  PROVE  Count'
<1>1. Peers' = Peers \ {p} /\ p \in Peers
  BY DEF Peers
<1>2. /\ IsFiniteSet(Peers \ {p})
      /\ Cardinality(Peers \ {p}) = Cardinality(Peers) - 1
  BY <1>1, FS_RemoveElement DEF Count
<1>3. QED
  BY <1>1, <1>2 DEF Count

LEMMA CountNone ==
  ASSUME \A q \in Proc : ~Connected(q)',
         semKey' # NoId => val'["NUM_PROC"] = 0
  PROVE  Count'
<1>1. Peers' = {}
  BY DEF Peers
<1>2. QED
  BY <1>1, FS_EmptySet DEF Count

(* A connected process is counted. *)
LEMMA CountedOne ==
  ASSUME Count, TypeInv, NEW p \in Proc, Connected(p)
  PROVE  val["NUM_PROC"] > 0
<1>1. p \in Peers /\ semKey # NoId /\ val["NUM_PROC"] \in Nat
  BY DEF Peers, Connected, Live, TypeInv, TypeOK, SEM
<1>2. Cardinality(Peers) # 0
  BY <1>1, FS_EmptySet DEF Count
<1>3. QED
  BY <1>1, <1>2 DEF Count

(* Steps that leave the connections alone. *)
LEMMA NumQuiet ==
  ASSUME TypeInv, NumInv, NEW p \in Proc, pc'[p] \in Labels,
         semKey' = semKey, semId' = semId, val'["NUM_PROC"] = val["NUM_PROC"],
         \A q \in Proc :
            /\ q # p => pc'[q] = pc[q]
            /\ \A x \in {"NUM_PROC", "FULL", "EMPTY", "SYNC_WR"} : adj'[q][x] = adj[q][x]
            /\ Connected(q) => adj'[q][Lock(q)] = adj[q][Lock(q)],
         pc'[p] \in Before => pc[p] \in Before,
         Live(p) /\ pc'[p] \in Loop => pc[p] \in Loop,
         Live(p) /\ pc'[p] \in Late \ {"exit"} =>
            pc[p] \in Late \ {"exit"} \/ adj[p]["NUM_PROC"] = 0
  PROVE  NumInv'
<1>1. \A q \in Proc : Connected(q)' <=> Connected(q)
  BY DEF Connected, Live
<1>2. Count'
  BY <1>1, CountSame DEF NumInv
<1>3. ASSUME NEW q \in Proc PROVE UndoAt(q)'
  <2>1. UndoAt(q)
    BY DEF NumInv, Undo
  <2>2. QED
    BY <1>1, <2>1 DEF UndoAt, Connected, Live
<1>4. QED
  BY <1>2, <1>3 DEF NumInv, Undo

LEMMA NumRefused ==
  ASSUME TypeInv, NumInv, NEW p \in Proc, Refused(p)
  PROVE  NumInv'
<1>1. pc \in [Proc -> Labels]
  BY DEF TypeInv, TypeOK, Labels
<1>2. QED
  BY <1>1, NumQuiet DEF Refused, semvars, Before, Loop, Labels, Late, Session, Live


LEMMA NumSemops ==
  ASSUME TypeInv, LockInv, NumInv, NEW p \in Proc,
         \/ WaitPrevConnect(p)
         \/ p \in Writers /\ (WriterSync(p) \/ PEmpty(p) \/ VFull(p))
         \/ p \in Readers /\ (ReaderSync(p) \/ PFull(p) \/ VEmpty(p))
  PROVE  NumInv'
<1>1. CASE Refused(p)
  BY <1>1, NumRefused
<1>2. CASE ~Refused(p)
  <2>1. /\ pc \in [Proc -> Labels]
        /\ semKey' = semKey /\ semId' = semId /\ adj' = adj
        /\ val'["NUM_PROC"] = val["NUM_PROC"]
        /\ \/ pc[p] = "wait_prev_connect" /\ pc' = [pc EXCEPT ![p] = "setval"]
           \/ pc[p] = "sync" /\ pc' = [pc EXCEPT ![p] = "connect"]
           \/ /\ pc[p] \in {"p_empty", "v_full", "p_full", "v_empty"}
              /\ \E c \in {"check_wr", "p_empty", "end_wr", "check_rd", "p_full", "end_rd"} :
                    pc' = [pc EXCEPT ![p] = c]
    BY <1>2, WaitPrevConnectEffect, WriterSyncEffect, PEmptyEffect, VFullEffect,
       ReaderSyncEffect, PFullEffect, VEmptyEffect
    DEF Moves, SEM, TypeInv, TypeOK, Labels
  <2>2. QED
    BY <2>1, NumQuiet DEF Before, Loop, Labels, Early, Late, Session
<1>3. QED
  BY <1>1, <1>2

LEMMA NumAlone ==
  ASSUME TypeInv, LockInv, NumInv, NEW p \in Proc,
         \/ p \in Writers /\ AloneWr(p)
         \/ p \in Readers /\ AloneRd(p)
  PROVE  NumInv'
<1>1. CASE Refused(p)
  BY <1>1, NumRefused
<1>2. CASE ~Refused(p)
  <2>1. /\ pc \in [Proc -> Labels] /\ pc[p] = "alone"
        /\ semKey' = semKey /\ semId' = semId
        /\ val'["NUM_PROC"] = val["NUM_PROC"]
        /\ \A q \in Proc : q # p => adj'[q] = adj[q]
        /\ \A x \in {"NUM_PROC", "FULL", "EMPTY", "SYNC_WR"} : adj'[p][x] = adj[p][x]
        /\ pc' = [pc EXCEPT ![p] = "wait_prev_connect"]
    <3>1. /\ pc \in [Proc -> Labels]
          /\ {"NUM_PROC", "SYNC_WR", "FULL", "EMPTY"} \subseteq SEM \ {"ALONE_WR", "ALONE_RD"}
      BY DEF TypeInv, TypeOK, Labels, SEM
    <3>2. CASE p \in Writers /\ AloneWr(p)
      BY <1>2, <3>1, <3>2, AloneWrEffect DEF Moves
    <3>3. CASE p \in Readers /\ AloneRd(p)
      BY <1>2, <3>1, <3>3, AloneRdEffect DEF Moves
    <3>4. QED
      BY <3>2, <3>3
  <2>2. ~Connected(p)
    BY <2>1 DEF NumInv, Undo, UndoAt, Connected, Before, Loop, Labels, Early,
                Late, Session
  <2>3. QED
    BY <2>1, <2>2, NumQuiet DEF Before, Loop, Labels, Early, Late, Session
<1>3. QED
  BY <1>1, <1>2

LEMMA NumMoves ==
  ASSUME TypeInv, LockInv, NumInv, NEW p \in Proc,
         \/ CreateShm(p) \/ LinkShm(p)
         \/ CheckWr(p) \/ CheckRd(p) \/ Open(p) \/ Size(p)
         \/ IOError(p, "fill") \/ IOError(p, "write")
         \/ UnlinkWr(p) \/ UnlinkRd(p) \/ DeleteShm(p)
         \/ Go(p, "fill", "size") /\ UNCHANGED semvars
         \/ Go(p, "read_size", "write") /\ UNCHANGED semvars
         \/ Go(p, "write", "v_empty") /\ UNCHANGED semvars
  PROVE  NumInv'
<1>1. pc \in [Proc -> Labels]
  BY DEF TypeInv, TypeOK, Labels
<1>2. UNCHANGED semvars
  BY DEF CreateShm, LinkShm, create_shm, link_shm, CheckWr, CheckRd, Open, Size,
         IOError, SemopNumProc, UnlinkWr, UnlinkRd, DeleteShm, unlink_shm, delete_shm
<1>3. \E c \in Labels :
         /\ pc' = [pc EXCEPT ![p] = c]
         /\ \/ c = "exit"
            \/ pc[p] \in Before \cap Early /\ c \in Before
            \/ pc[p] \in Loop /\ c \in Loop
            \/ pc[p] \in Late \ {"exit"} /\ c \in Late
  BY <1>1
  DEF CreateShm, LinkShm, create_shm, link_shm, CheckWr, CheckRd, Open, Size,
      IOError, SemopNumProc, UnlinkWr, UnlinkRd, DeleteShm, unlink_shm,
      delete_shm, Go, Fail, Before, Loop, Labels, Early, Late, Session
<1>4. QED
  BY <1>1, <1>2, <1>3, NumQuiet
  DEF semvars, Before, Loop, Labels, Early, Late, Session

LEMMA NumSetVal ==
  ASSUME TypeInv, LockInv, NumInv, NEW p \in Proc,
         \/ p \in Writers /\ SetFull(p)
         \/ p \in Readers /\ SetEmpty(p)
  PROVE  NumInv'
<1>1. CASE Refused(p)
  BY <1>1, NumRefused
<1>2. CASE ~Refused(p)
  <2> DEFINE X == IF p \in Writers THEN "FULL" ELSE "EMPTY"
  <2>1. /\ pc \in [Proc -> Labels] /\ pc[p] = "setval" /\ Live(p)
        /\ semKey' = semKey /\ semId' = semId
        /\ val'["NUM_PROC"] = val["NUM_PROC"]
        /\ pc' = [pc EXCEPT ![p] = "sync"]
        /\ \A q \in Proc :
              /\ \A y \in SEM \ {X} : adj'[q][y] = adj[q][y]
              /\ IF Live(q) THEN adj'[q][X] = 0 ELSE adj'[q] = adj[q]
    <3>1. pc \in [Proc -> Labels] /\ X \in SEM
      BY DEF TypeInv, TypeOK, Labels, SEM
    <3>2. SetVal(p, "setval", "sync", X, IF p \in Writers THEN 0 ELSE 1)
      BY SharmemAssumption DEF SetFull, SetEmpty
    <3>3. UNCHANGED datavars
      BY DEF SetFull, SetEmpty
    <3> HIDE DEF X
    <3>4. /\ pc[p] = "setval" /\ Live(p) /\ Moves(p, "sync")
          /\ \A y \in SEM \ {X} : val'[y] = val[y]
          /\ \A q \in Proc :
                /\ \A y \in SEM \ {X} : adj'[q][y] = adj[q][y]
                /\ IF Live(q) THEN adj'[q][X] = 0 ELSE adj'[q] = adj[q]
      BY <1>2, <3>1, <3>2, <3>3, SetValEffect
    <3>5. QED
      BY <3>1, <3>4 DEF Moves, SEM, X
  <2>2. /\ "setval" \in Before \cap Session /\ "sync" \in Before
        /\ "setval" \notin Loop \cup Late \cup Early /\ "sync" \notin Loop \cup Late
    BY DEF Before, Loop, Labels, Early, Late, Session
  <2>3. Holds(p, Lock(p)) /\ adj[p]["NUM_PROC"] = 0
    BY <2>1, <2>2 DEF LockInv, Adjustments, InSession, Holds, NumInv, Undo, UndoAt
  <2>4. p \in Writers => \A q \in Writers : ~Connected(q)
    <3> SUFFICES ASSUME p \in Writers, NEW q \in Writers, Connected(q) PROVE FALSE
        OBVIOUS
    <3>1. Holds(q, "ALONE_WR") /\ Lock(p) = "ALONE_WR" /\ q \in Proc
      BY SharmemAssumption DEF NumInv, Undo, UndoAt, Lock, Holds, Connected
    <3>2. p = q
      BY <2>3, <3>1 DEF LockInv, LockCount
    <3>3. QED
      BY <2>3, <3>2 DEF Connected
  <2>5. \A q \in Proc : Connected(q)' <=> Connected(q)
    BY <2>1 DEF Connected, Live, SEM
  <2>6. Count'
    BY <2>1, <2>5, CountSame DEF NumInv
  <2>7. ASSUME NEW q \in Proc PROVE UndoAt(q)'
    <3>1. UndoAt(q)
      BY DEF NumInv, Undo
    <3>2. /\ adj'[q]["NUM_PROC"] = adj[q]["NUM_PROC"]
          /\ adj'[q]["SYNC_WR"] = adj[q]["SYNC_WR"]
          /\ adj'[q][Lock(q)] = adj[q][Lock(q)]
      BY <2>1 DEF SEM, Lock
    <3>3. q \in Writers => /\ adj'[q]["FULL"] = 0 - adj[q]["NUM_PROC"]
                           /\ adj'[q]["EMPTY"] = 0
      BY <2>1, <2>4, <3>1 DEF SEM, UndoAt, Connected
    <3>4. q \in Readers => adj'[q]["FULL"] = 0
      BY <2>1, <3>1 DEF SEM, UndoAt
    <3>5. /\ pc'[q] \in Before => pc[q] \in Before
          /\ pc'[q] \in Loop => pc[q] \in Loop
          /\ pc'[q] \in Late => pc'[q] = pc[q]
      BY <2>1, <2>2
    <3>6. QED
      BY <2>1, <2>5, <3>1, <3>2, <3>3, <3>4, <3>5 DEF UndoAt, Live
  <2>8. QED
    BY <2>6, <2>7 DEF NumInv, Undo
<1>3. QED
  BY <1>1, <1>2

LEMMA NumConnect ==
  ASSUME TypeInv, LockInv, NumInv, NEW p \in Proc,
         \/ p \in Writers /\ WriterConnect(p)
         \/ p \in Readers /\ ReaderConnect(p)
  PROVE  NumInv'
<1>1. CASE Refused(p)
  BY <1>1, NumRefused
<1>2. CASE ~Refused(p)
  <2>1. /\ pc \in [Proc -> Labels] /\ pc[p] = "connect" /\ Live(p)
        /\ semKey' = semKey /\ semId' = semId
        /\ val'["NUM_PROC"] = val["NUM_PROC"] + 1
        /\ \E c \in {"open", "p_full"} : pc' = [pc EXCEPT ![p] = c]
        /\ \A q \in Proc : q # p => adj'[q] = adj[q]
        /\ adj'[p]["NUM_PROC"] = adj[p]["NUM_PROC"] - 1
        /\ adj'[p][Lock(p)] = adj[p][Lock(p)]
        /\ adj'[p]["SYNC_WR"] = adj[p]["SYNC_WR"]
        /\ p \in Writers => /\ adj'[p]["FULL"] = adj[p]["FULL"] + 1
                            /\ adj'[p]["EMPTY"] = adj[p]["EMPTY"]
        /\ p \in Readers => adj'[p]["FULL"] = adj[p]["FULL"]
    <3>1. pc \in [Proc -> Labels] /\ {Lock(p)} \subseteq SEM
      BY DEF TypeInv, TypeOK, Labels, SEM, Lock
    <3>2. CASE p \in Writers
      <4>1. WriterConnect(p) /\ p \notin Readers /\ Lock(p) = "ALONE_WR"
        BY <3>2, SharmemAssumption DEF Lock
      <4>2. QED
        BY <1>2, <3>1, <3>2, <4>1, WriterConnectEffect DEF Moves, SEM
    <3>3. CASE p \in Readers
      <4>1. ReaderConnect(p) /\ p \notin Writers /\ Lock(p) = "ALONE_RD"
        BY <3>3, SharmemAssumption DEF Lock
      <4>2. QED
        BY <1>2, <3>1, <3>3, <4>1, ReaderConnectEffect DEF Moves, SEM
    <3>4. QED
      BY <3>2, <3>3
  <2>2. /\ "connect" \in Before \cap Session
        /\ {"open", "p_full"} \subseteq Loop
        /\ {"open", "p_full"} \cap (Before \cup Late) = {}
    BY DEF Before, Loop, Labels, Early, Late, Session
  <2>3. /\ adj[p]["NUM_PROC"] = 0 /\ adj[p][Lock(p)] = -1
        /\ adj[p]["SYNC_WR"] = 0
        /\ p \in Writers => adj[p]["FULL"] = 0 /\ adj[p]["EMPTY"] = 0
        /\ p \in Readers => adj[p]["FULL"] = 0
    BY <2>1, <2>2 DEF LockInv, Adjustments, InSession, NumInv, Undo, UndoAt
  <2>4. UndoAt(p)'
    BY <2>1, <2>2, <2>3 DEF UndoAt
  <2>5. Undo'
    BY <2>1, <2>4, UndoStep DEF NumInv, Live
  <2>6. Count'
    BY <2>1, <2>3, CountUp DEF NumInv, Connected, Live
  <2>7. QED
    BY <2>5, <2>6 DEF NumInv
<1>3. QED
  BY <1>1, <1>2

LEMMA NumEnd ==
  ASSUME TypeInv, LockInv, NumInv, NEW p \in Proc,
         \/ p \in Writers /\ EndWr(p)
         \/ p \in Readers /\ EndRd(p)
  PROVE  NumInv'
<1>1. CASE Refused(p)
  BY <1>1, NumRefused
<1>2. CASE ~Refused(p) /\ UNCHANGED <<val, adj>>
  <2>1. /\ pc \in [Proc -> Labels]
        /\ semKey' = semKey /\ semId' = semId
        /\ \/ /\ pc[p] \in {"end_rd", "end_rd_sleep"}
              /\ pc' = [pc EXCEPT ![p] = "end_rd_sleep"]
           \/ ~Live(p) /\ pc' = [pc EXCEPT ![p] = "unlink_shm"]
    <3>1. pc \in [Proc -> Labels] /\ val["NUM_PROC"] \in Nat
      BY DEF TypeInv, TypeOK, Labels, SEM
    <3>2. QED
      BY <1>2, <3>1, EndWrEffect, EndRdEffect DEF Moves
  <2>2. /\ {"end_rd", "end_rd_sleep"} \subseteq Loop
        /\ {"end_rd", "end_rd_sleep"} \cap (Before \cup Late) = {}
        /\ "unlink_shm" \in Late /\ "unlink_shm" \notin Loop \cup Before
        /\ {"unlink_shm", "end_rd_sleep"} \subseteq Labels
    BY DEF Before, Loop, Labels, Early, Late, Session
  <2>3. QED
    BY <1>2, <2>1, <2>2, NumQuiet
<1>3. CASE ~Refused(p) /\ ~UNCHANGED <<val, adj>>
  <2>1. /\ pc \in [Proc -> Labels] /\ pc[p] \in Loop /\ Live(p)
        /\ semKey' = semKey /\ semId' = semId
        /\ val'["NUM_PROC"] = val["NUM_PROC"] - 1
        /\ pc' = [pc EXCEPT ![p] = "unlink_shm"]
        /\ \A q \in Proc : q # p => adj'[q] = adj[q]
        /\ adj'[p]["NUM_PROC"] = adj[p]["NUM_PROC"] + 1
        /\ adj'[p]["SYNC_WR"] = adj[p]["SYNC_WR"]
        /\ p \in Writers => /\ adj'[p]["FULL"] = adj[p]["FULL"] - 1
                            /\ adj'[p]["EMPTY"] = adj[p]["EMPTY"]
        /\ p \in Readers => adj'[p]["FULL"] = adj[p]["FULL"]
    <3>1. /\ pc \in [Proc -> Labels]
          /\ {"end_wr", "end_rd", "end_rd_sleep"} \subseteq Loop
          /\ {"NUM_PROC", "SYNC_WR", "FULL", "EMPTY"} \subseteq SEM
      BY DEF TypeInv, TypeOK, Labels, Loop, Session, SEM
    <3>2. CASE p \in Writers
      <4>1. EndWr(p) /\ p \notin Readers
        BY <3>2, SharmemAssumption
      <4>2. QED
        BY <1>3, <3>1, <3>2, <4>1, EndWrEffect DEF Moves
    <3>3. CASE p \in Readers
      <4>1. EndRd(p) /\ p \notin Writers
        BY <3>3, SharmemAssumption
      <4>2. QED
        BY <1>3, <3>1, <3>3, <4>1, EndRdEffect DEF Moves
    <3>4. QED
      BY <3>2, <3>3
  <2>2. "unlink_shm" \in Late /\ "unlink_shm" \notin Loop \cup Before
    BY DEF Before, Loop, Labels, Early, Late, Session
  <2>3. /\ adj[p]["NUM_PROC"] = -1 /\ adj[p]["SYNC_WR"] = 0
        /\ p \in Writers => adj[p]["FULL"] = 1 /\ adj[p]["EMPTY"] = 0
        /\ p \in Readers => adj[p]["FULL"] = 0
    BY <2>1 DEF NumInv, Undo, UndoAt
  <2>4. UndoAt(p)'
    BY <2>1, <2>2, <2>3 DEF UndoAt, Connected
  <2>5. Undo'
    BY <2>1, <2>4, UndoStep DEF NumInv, Live
  <2>6. Count'
    BY <2>1, <2>3, CountDown DEF NumInv, Connected, Live
  <2>7. QED
    BY <2>5, <2>6 DEF NumInv
<1>4. QED
  BY <1>1, <1>2, <1>3

LEMMA NumReap ==
  ASSUME TypeInv, LockInv, NumInv, NEW p \in Proc, Reap(p)
  PROVE  NumInv'
<1>1. /\ pc \in [Proc -> Labels] /\ val \in [SEM -> Nat]
      /\ adj \in [Proc -> [SEM -> Int]]
      /\ semKey' = semKey /\ semId' = semId
      /\ pc' = [pc EXCEPT ![p] = "done"]
      /\ \A q \in Proc : q # p => adj'[q] = adj[q]
      /\ \A x \in SEM : adj'[p][x] = 0
      /\ Live(p) => val'["NUM_PROC"] = NonNeg(val["NUM_PROC"] + adj[p]["NUM_PROC"])
      /\ ~Live(p) => val' = val
  BY DEF Reap, SEM, TypeInv, TypeOK, Labels
<1>2. /\ adj'[p]["NUM_PROC"] = 0 /\ adj'[p]["FULL"] = 0
      /\ adj'[p]["EMPTY"] = 0 /\ adj'[p]["SYNC_WR"] = 0
      /\ pc'[p] \in Late /\ pc'[p] \notin Loop \cup Before
  BY <1>1 DEF SEM, Before, Loop, Labels, Early, Late, Session
<1>3. UndoAt(p)'
  BY <1>2 DEF UndoAt, Connected
<1>4. Undo'
  BY <1>1, <1>3, UndoStep DEF NumInv, Live
<1>5. CASE Connected(p)
  <2>1. val["NUM_PROC"] > 0
    BY <1>5, CountedOne DEF NumInv
  <2>2. val'["NUM_PROC"] = val["NUM_PROC"] - 1
    BY <1>1, <1>5, <2>1 DEF Connected, NonNeg, SEM
  <2>3. Count'
    BY <1>1, <1>2, <1>5, <2>2, CountDown DEF NumInv, Connected, Live
  <2>4. QED
    BY <1>4, <2>3 DEF NumInv
<1>6. CASE ~Connected(p)
  <2>1. Live(p) => adj[p]["NUM_PROC"] = 0
    BY <1>6 DEF NumInv, Undo, UndoAt, Connected
  <2>2. val'["NUM_PROC"] = val["NUM_PROC"]
    BY <1>1, <2>1 DEF NonNeg, SEM
  <2>3. Count'
    BY <1>1, <1>2, <1>6, <2>2, CountSame DEF NumInv, Connected, Live
  <2>4. QED
    BY <1>4, <2>3 DEF NumInv
<1>7. QED
  BY <1>5, <1>6

LEMMA NumCreateSem ==
  ASSUME TypeInv, LockInv, NumInv, NEW p \in Proc, CreateSem(p)
  PROVE  NumInv'
<1>1. /\ pc \in [Proc -> Labels] /\ semId \in [Proc -> Proc \cup {NoId}]
      /\ pc[p] = "create_sem" /\ pc' = [pc EXCEPT ![p] = "create_shm"]
      /\ adj' = adj /\ p # NoId
      /\ \/ /\ semKey = NoId /\ semKey' = p /\ val' = [x \in SEM |-> 0]
            /\ semId' = [semId EXCEPT ![p] = p]
         \/ /\ semKey # NoId /\ UNCHANGED <<semKey, val>>
            /\ semId' = [semId EXCEPT ![p] = semKey]
  BY ProcAssumption DEF CreateSem, create_sem, Go, TypeInv, TypeOK, Labels
<1>2. \A q \in Proc : q # p => (Live(q)' <=> Live(q))
  BY <1>1 DEF LockInv, Fresh, Live
<1>3. {"create_sem", "create_shm"} \subseteq Before \ (Loop \cup Late)
  BY DEF Before, Loop, Labels, Early, Late, Session
<1>4. adj[p]["NUM_PROC"] = 0
  BY <1>1, <1>3 DEF NumInv, Undo, UndoAt
<1>5. UndoAt(p)'
  BY <1>1, <1>3, <1>4 DEF NumInv, Undo, UndoAt, Connected
<1>6. Undo'
  BY <1>1, <1>2, <1>5, UndoStep DEF NumInv
<1>7. \A q \in Proc : Connected(q)' <=> Connected(q)
  BY <1>1, <1>2, <1>4 DEF Connected
<1>8. CASE semKey = NoId
  BY <1>1, <1>6, <1>7, <1>8, CountNone DEF NumInv, Connected, Live, SEM
<1>9. CASE semKey # NoId
  BY <1>1, <1>6, <1>7, <1>9, CountSame DEF NumInv
<1>10. QED
  BY <1>8, <1>9

LEMMA NumDeleteSem ==
  ASSUME TypeInv, LockInv, NumInv, NEW p \in Proc, DeleteSem(p)
  PROVE  NumInv'
<1>1. /\ pc \in [Proc -> Labels] /\ pc[p] = "delete_sem"
      /\ pc' = [pc EXCEPT ![p] = "return"]
      /\ UNCHANGED <<val, adj, semId>>
      /\ semKey' = IF Live(p) THEN NoId ELSE semKey
  BY DEF DeleteSem, delete_sem, Go, TypeInv, TypeOK, Labels
<1>2. \A q \in Proc : Live(q)' => Live(q)
  BY <1>1 DEF Live
<1>3. {"delete_sem", "return"} \subseteq (Late \ {"exit"}) \ (Loop \cup Before)
  BY DEF Before, Loop, Labels, Early, Late, Session
<1>4. UndoAt(p)'
  BY <1>1, <1>2, <1>3 DEF NumInv, Undo, UndoAt, Connected
<1>5. Undo'
  BY <1>1, <1>2, <1>4, UndoStep DEF NumInv
<1>6. CASE Live(p)
  BY <1>1, <1>5, <1>6, CountNone DEF NumInv, Connected, Live
<1>7. CASE ~Live(p)
  BY <1>1, <1>5, <1>7, CountSame DEF NumInv, Connected, Live
<1>8. QED
  BY <1>6, <1>7

LEMMA NumPage ==
  ASSUME TypeInv, LockInv, NumInv, NEW p \in Proc, Fill(p) \/ ReadSize(p) \/ Write(p)
  PROVE  NumInv'
<1>1. CASE Segfault(p, "fill") \/ Segfault(p, "read_size")
  BY <1>1, NumReap DEF Segfault
<1>2. CASE /\ ~ Segfault(p, "fill")
           /\ ~ Segfault(p, "read_size")
  BY <1>2, NumMoves DEF Fill, ReadSize, Write, shmvars
<1>3. QED
  BY <1>1, <1>2

LEMMA NumProcess ==
  ASSUME TypeInv, LockInv, NumInv, NEW p \in Proc,
         Prologue(p) \/ ProcessEnd(p) \/ Killed(p)
  PROVE  NumInv'
BY NumCreateSem, NumMoves, NumSemops, NumReap
DEF Prologue, ProcessEnd, Exit, Return, Killed, Kill

LEMMA NumStep == TypeInv /\ LockInv /\ NumInv /\ [Next]_vars => NumInv'
<1> SUFFICES ASSUME TypeInv, LockInv, NumInv, [Next]_vars PROVE NumInv'
    OBVIOUS
<1>1. ASSUME NEW w \in Writers, Writer(w) PROVE NumInv'
  BY <1>1, SharmemAssumption, NumProcess, NumAlone, NumSetVal, NumSemops,
     NumConnect, NumMoves, NumPage, NumEnd, NumDeleteSem DEF Writer
<1>2. ASSUME NEW r \in Readers, Reader(r) PROVE NumInv'
  BY <1>2, SharmemAssumption, NumProcess, NumAlone, NumSetVal, NumSemops,
     NumConnect, NumMoves, NumPage, NumEnd DEF Reader
<1>3. ASSUME NEW p \in Proc, Killed(p) PROVE NumInv'
  BY <1>3, NumProcess
<1>4. CASE UNCHANGED vars
  <2>1. /\ \A p \in Proc : UndoAt(p)' <=> UndoAt(p)
        /\ \A p \in Proc : Connected(p)' <=> Connected(p)
        /\ UNCHANGED <<val, semKey>>
    BY <1>4 DEF vars, procvars, semvars, UndoAt, Connected, Live
  <2>2. QED
    BY <2>1, CountSame DEF NumInv, Undo
<1>5. QED
  BY <1>1, <1>2, <1>3, <1>4 DEF Next

(* However many writers and readers run and however they end, NUM_PROC is  *)
(* the number of processes that have connected and are not yet gone: the   *)
(* checks of both loops, and the wait for the previous pair, see the       *)
(* truth.                                                                  *)
THEOREM NumProcCounts == Spec => []NumProcExact
<1>1. NumInv => NumProcExact
  BY DEF NumInv, Count, NumProcExact, Peers, Connected
<1>2. QED
  BY <1>1, TypeInit, TypeStep, LockInit, LockStep, NumInit, NumStep, PTL DEF Spec

-----------------------------------------------------------------------------
(* From here on one reader, rd, has got past its ALONE_RD semop().  Any    *)
(* number of writers are in the handshake with it, and any number of other *)
(* readers may be started and sleep in that semop().                       *)


(* The way of a process through its program. *)
WriterFlow(a, b) ==
  \/ a = "connect"    /\ b = "open"
  \/ a = "open"       /\ b = "p_empty"
  \/ a = "p_empty"    /\ b = "check_wr"
  \/ a = "check_wr"   /\ b = "fill"
  \/ a = "fill"       /\ b = "size"
  \/ a = "size"       /\ b = "v_full"
  \/ a = "v_full"     /\ b \in {"p_empty", "end_wr"}
  \/ a = "end_wr"     /\ b = "unlink_shm"
  \/ a = "unlink_shm" /\ b = "delete_shm"
  \/ a = "delete_shm" /\ b = "delete_sem"
  \/ a = "delete_sem" /\ b = "return"

ReaderFlow(a, b) ==
  \/ a = "connect"   /\ b = "p_full"
  \/ a = "p_full"    /\ b = "check_rd"
  \/ a = "check_rd"  /\ b = "read_size"
  \/ a = "read_size" /\ b = "write"
  \/ a = "write"     /\ b = "v_empty"
  \/ a = "v_empty"   /\ b \in {"p_full", "end_rd"}
  \/ a = "end_rd"    /\ b \in {"end_rd_sleep", "unlink_shm"}
  \/ a = "end_rd_sleep" /\ b = "unlink_shm"
  \/ a = "unlink_shm"   /\ b = "return"

PrologueFlow(a, b) ==
  \/ a = "create_sem" /\ b = "create_shm"
  \/ a = "create_shm" /\ b = "link_shm"
  \/ a = "link_shm"   /\ b = "alone"
  \/ a = "alone"      /\ b = "wait_prev_connect"
  \/ a = "wait_prev_connect" /\ b = "setval"
  \/ a = "setval"     /\ b = "sync"
  \/ a = "sync"       /\ b = "connect"

(* What a step does to the control of the process p that takes it: one     *)
(* call further, a failure, or the end.                                    *)
Flow(p) ==
  \/ /\ pc[p] \notin {"exit", "done"} /\ pc'[p] \notin {"exit", "done"}
     /\ status' = status
     /\ \/ PrologueFlow(pc[p], pc'[p])
        \/ p \in Writers /\ WriterFlow(pc[p], pc'[p])
        \/ p \in Readers /\ ReaderFlow(pc[p], pc'[p])
  \/ /\ pc[p] \notin {"create_sem", "create_shm", "link_shm", "exit", "done"}
     /\ pc'[p] = "exit"
     /\ status' = [status EXCEPT ![p] = "failure"]
  \/ /\ pc'[p] = "done"
     /\ \/ pc[p] = "exit" /\ status' = status
        \/ pc[p] = "return" /\ status' = [status EXCEPT ![p] = "success"]
        \/ /\ status[p] = "running" \/ pc[p] \in {"fill", "read_size"}
           /\ \E s \in {"killed", "segfault"} : status' = [status EXCEPT ![p] = s]

Step(p) == /\ Flow(p)
           /\ \A q \in Proc : q # p => pc'[q] = pc[q]

LEMMA RefusedFlow ==
  ASSUME TypeInv, NEW p \in Proc, Refused(p),
         pc[p] \notin {"create_sem", "create_shm", "link_shm", "exit", "done"}
  PROVE  Step(p)
<1>1. pc \in [Proc -> Labels]
  BY DEF TypeInv, TypeOK, Labels
<1>2. QED
  BY <1>1 DEF Refused, Step, Flow

LEMMA PrologueFlows ==
  ASSUME TypeInv, NEW p \in Proc,
         Prologue(p) \/ ProcessEnd(p) \/ Killed(p)
  PROVE  Step(p)
<1>1. pc \in [Proc -> Labels]
  BY DEF TypeInv, TypeOK, Labels
<1>2. CASE CreateSem(p) \/ CreateShm(p) \/ LinkShm(p)
  BY <1>1, <1>2 DEF CreateSem, CreateShm, LinkShm, create_sem, create_shm, link_shm,
                    Go, Step, Flow, PrologueFlow
<1>3. CASE WaitPrevConnect(p)
  BY <1>1, <1>3, WaitPrevConnectEffect, RefusedFlow DEF Moves, Step, Flow, PrologueFlow
<1>4. CASE ProcessEnd(p)
  BY <1>1, <1>4 DEF ProcessEnd, Exit, Return, Reap, Step, Flow
<1>5. CASE Killed(p)
  BY <1>1, <1>5 DEF Killed, Kill, Reap, Step, Flow
<1>6. QED
  BY <1>2, <1>3, <1>4, <1>5 DEF Prologue

LEMMA WriterFlows ==
  ASSUME TypeInv, NEW w \in Writers, Writer(w)
  PROVE  Step(w)
<1>1. pc \in [Proc -> Labels] /\ w \in Proc
  BY SharmemAssumption DEF TypeInv, TypeOK, Labels
<1>2. CASE Prologue(w) \/ ProcessEnd(w)
  BY <1>1, <1>2, PrologueFlows
<1>3. CASE AloneWr(w) \/ WriterSync(w) \/ WriterConnect(w) \/ PEmpty(w) \/ VFull(w) \/ EndWr(w)
  <2>1. CASE Refused(w)
    BY <1>1, <1>3, <2>1, RefusedFlow, AloneWrEffect, WriterSyncEffect,
       WriterConnectEffect, PEmptyEffect, VFullEffect, EndWrEffect
  <2>2. CASE ~Refused(w)
    BY <1>1, <1>3, <2>2, AloneWrEffect, WriterSyncEffect, WriterConnectEffect,
       PEmptyEffect, VFullEffect, EndWrEffect
    DEF Moves, Step, Flow, PrologueFlow, WriterFlow
  <2>3. QED
    BY <2>1, <2>2
<1>4. CASE SetFull(w)
  <2>1. pc[w] = "setval" /\ (Refused(w) \/ Moves(w, "sync"))
    BY <1>1, <1>4, SetValEffect DEF SetFull, SEM
  <2>2. QED
    BY <1>1, <2>1, RefusedFlow DEF Moves, Step, Flow, PrologueFlow
<1>5. CASE Open(w) \/ CheckWr(w) \/ Size(w)
  BY <1>1, <1>5 DEF Open, IOError, CheckWr, SemopNumProc, Size, Go, Fail, Step, Flow, WriterFlow
<1>6. CASE Fill(w)
  <2>1. CASE Segfault(w, "fill")
    BY <1>1, <2>1 DEF Segfault, Reap, Step, Flow
  <2>2. CASE IOError(w, "fill")
    BY <1>1, <2>2 DEF IOError, Fail, Step, Flow
  <2>3. CASE Go(w, "fill", "size") /\ status' = status
    BY <1>1, <2>3 DEF Go, Step, Flow, WriterFlow
  <2>4. QED
    BY <1>6, <2>1, <2>2, <2>3 DEF Fill
<1>7. CASE UnlinkWr(w) \/ DeleteShm(w) \/ DeleteSem(w)
  BY <1>1, <1>7 DEF UnlinkWr, DeleteShm, DeleteSem, unlink_shm, delete_shm,
                    delete_sem, Go, Fail, Step, Flow, WriterFlow
<1>8. QED
  BY <1>2, <1>3, <1>4, <1>5, <1>6, <1>7 DEF Writer

LEMMA ReaderFlows ==
  ASSUME TypeInv, NEW r \in Readers, Reader(r)
  PROVE  Step(r)
<1>1. pc \in [Proc -> Labels] /\ r \in Proc
  BY SharmemAssumption DEF TypeInv, TypeOK, Labels
<1>2. CASE Prologue(r) \/ ProcessEnd(r)
  BY <1>1, <1>2, PrologueFlows
<1>3. CASE AloneRd(r) \/ ReaderSync(r) \/ ReaderConnect(r) \/ PFull(r) \/ VEmpty(r) \/ EndRd(r)
  <2>1. CASE Refused(r)
    BY <1>1, <1>3, <2>1, RefusedFlow, AloneRdEffect, ReaderSyncEffect,
       ReaderConnectEffect, PFullEffect, VEmptyEffect, EndRdEffect
  <2>2. CASE ~Refused(r) /\ EndRd(r)
    BY <1>1, <2>2, EndRdEffect DEF Moves, Step, Flow, ReaderFlow
  <2>3. CASE ~Refused(r) /\ ~EndRd(r)
    BY <1>1, <1>3, <2>3, AloneRdEffect, ReaderSyncEffect, ReaderConnectEffect,
       PFullEffect, VEmptyEffect
    DEF Moves, Step, Flow, PrologueFlow, ReaderFlow
  <2>4. QED
    BY <2>1, <2>2, <2>3
<1>4. CASE SetEmpty(r)
  <2>1. pc[r] = "setval" /\ (Refused(r) \/ Moves(r, "sync"))
    BY <1>1, <1>4, SetValEffect DEF SetEmpty, SEM
  <2>2. QED
    BY <1>1, <2>1, RefusedFlow DEF Moves, Step, Flow, PrologueFlow
<1>5. CASE CheckRd(r)
  BY <1>1, <1>5 DEF CheckRd, SemopNumProc, Go, Fail, Step, Flow, ReaderFlow
<1>6. CASE ReadSize(r)
  <2>1. CASE Segfault(r, "read_size")
    BY <1>1, <2>1 DEF Segfault, Reap, Step, Flow
  <2>2. CASE Go(r, "read_size", "write") /\ status' = status
    BY <1>1, <2>2 DEF Go, Step, Flow, ReaderFlow
  <2>3. QED
    BY <1>6, <2>1, <2>2 DEF ReadSize
<1>7. CASE Write(r)
  BY <1>1, <1>7 DEF Write, IOError, Fail, Go, Step, Flow, ReaderFlow
<1>8. CASE UnlinkRd(r)
  BY <1>1, <1>8 DEF UnlinkRd, unlink_shm, Go, Fail, Step, Flow, ReaderFlow
<1>9. QED
  BY <1>2, <1>3, <1>4, <1>5, <1>6, <1>7, <1>8 DEF Reader

(* A process has no exit status before it calls exit() or returns, a       *)
(* failed one never reports success, and each runs its own program.        *)
StatusInv ==
  \A p \in Proc :
    /\ pc[p] \notin {"exit", "done"} => status[p] = "running"
    /\ pc[p] = "exit" => status[p] = "failure"
    /\ p \in Writers => pc[p] \notin {"p_full", "check_rd", "read_size", "write",
                                     "v_empty", "end_rd", "end_rd_sleep"}
    /\ p \in Readers => pc[p] \notin {"open", "p_empty", "check_wr", "fill", "size",
                                     "v_full", "end_wr", "delete_shm", "delete_sem"}

LEMMA StatusInit == Init => StatusInv
BY DEF Init, IPCInit, StatusInv

LEMMA StatusStep ==
  ASSUME TypeInv, StatusInv, NEW p \in Proc, Step(p)
  PROVE  StatusInv'
<1>1. status \in [Proc -> Statuses]
  BY DEF TypeInv, TypeOK, Statuses
<1>2. ASSUME NEW q \in Proc, q # p
      PROVE  pc'[q] = pc[q] /\ status'[q] = status[q]
  BY <1>1, <1>2 DEF Step, Flow
<1>3. /\ pc'[p] \notin {"exit", "done"} => status'[p] = "running"
      /\ pc'[p] = "exit" => status'[p] = "failure"
  BY <1>1 DEF StatusInv, Step, Flow
<1>4. /\ p \in Writers => pc'[p] \notin {"p_full", "check_rd", "read_size", "write",
                                        "v_empty", "end_rd", "end_rd_sleep"}
      /\ p \in Readers => pc'[p] \notin {"open", "p_empty", "check_wr", "fill", "size",
                                        "v_full", "end_wr", "delete_shm", "delete_sem"}
  BY SharmemAssumption
  DEF Step, Flow, PrologueFlow, WriterFlow, ReaderFlow
<1>5. QED
  BY <1>2, <1>3, <1>4 DEF StatusInv


(* A step of the process p. *)
Act(p) ==
  \/ p \in Writers /\ Writer(p)
  \/ p \in Readers /\ Reader(p)
  \/ Killed(p)

LEMMA ActsStep ==
  ASSUME TypeInv, NEW p \in Proc, Act(p)
  PROVE  Step(p)
BY PrologueFlows, WriterFlows, ReaderFlows DEF Act

(* Memory, files and identifiers: a step of p leaves those of the other    *)
(* processes alone, and changes the shared ones in few places.             *)
MemoryFrame(p) ==
  /\ \A q \in Proc : q # p => /\ att'[q] = att[q]
                              /\ shmId'[q] = shmId[q]
                              /\ semId'[q] = semId[q]
                              /\ num_symb'[q] = num_symb[q]
  /\ semId' = semId \/ CreateSem(p)
  /\ semKey' = semKey \/ CreateSem(p) \/ (p \in Writers /\ DeleteSem(p))
  /\ shmId' = shmId \/ CreateShm(p)
  /\ \/ att' = att
     \/ LinkShm(p)
     \/ pc[p] = "unlink_shm" /\ att' = [att EXCEPT ![p] = NoId]
     \/ pc'[p] = "done" /\ att' = [att EXCEPT ![p] = NoId]
  /\ shmKey' = shmKey \/ CreateShm(p) \/ (p \in Writers /\ DeleteShm(p))
  /\ page' = page \/ CreateShm(p) \/ (p \in Writers /\ (Fill(p) \/ Size(p)))
  /\ pos' = pos \/ (p \in Writers /\ Fill(p))
  /\ num_symb' = num_symb \/ (p \in Writers /\ Fill(p)) \/ (p \in Readers /\ ReadSize(p))
  /\ out' = out \/ (p \in Readers /\ Write(p))

LEMMA StillFrame ==
  ASSUME NEW p \in Proc, UNCHANGED <<semKey, semId, shmvars, datavars>>
  PROVE  MemoryFrame(p)
BY DEF MemoryFrame, shmvars, datavars

LEMMA ReapFrame ==
  ASSUME TypeInv, NEW p \in Proc, Reap(p), UNCHANGED datavars
  PROVE  MemoryFrame(p)
BY DEF MemoryFrame, Reap, datavars, TypeInv, TypeOK

LEMMA SetValFrame ==
  ASSUME NEW p \in Proc, SetFull(p) \/ SetEmpty(p)
  PROVE  MemoryFrame(p)
BY StillFrame DEF SetFull, SetEmpty, SetVal

LEMMA SemopFrame ==
  ASSUME NEW p \in Proc,
         \/ WaitPrevConnect(p)
         \/ AloneWr(p) \/ WriterSync(p) \/ WriterConnect(p)
         \/ PEmpty(p) \/ VFull(p) \/ EndWr(p)
         \/ AloneRd(p) \/ ReaderSync(p) \/ ReaderConnect(p)
         \/ PFull(p) \/ VEmpty(p) \/ EndRd(p)
  PROVE  MemoryFrame(p)
<1>1. UNCHANGED <<semKey, semId, shmvars, datavars>>
  BY DEF WaitPrevConnect, AloneWr, WriterSync, WriterConnect, PEmpty, VFull, EndWr,
         AloneRd, ReaderSync, ReaderConnect, PFull, VEmpty, EndRd, Semop
<1>2. QED
  BY <1>1, StillFrame

LEMMA MoveFrame ==
  ASSUME NEW p \in Proc,
         \/ CheckWr(p) \/ CheckRd(p) \/ Open(p)
         \/ IOError(p, "fill") \/ IOError(p, "write")
  PROVE  MemoryFrame(p)
<1>1. UNCHANGED <<semKey, semId, shmvars, datavars>>
  BY DEF CheckWr, CheckRd, Open, IOError, SemopNumProc, semvars
<1>2. QED
  BY <1>1, StillFrame

LEMMA ProcessFrame ==
  ASSUME TypeInv, NEW p \in Proc, Prologue(p) \/ ProcessEnd(p) \/ Killed(p)
  PROVE  MemoryFrame(p)
<1>1. CASE CreateSem(p)
  BY <1>1 DEF CreateSem, create_sem, MemoryFrame, shmvars, datavars, TypeInv, TypeOK
<1>2. CASE CreateShm(p)
  BY <1>2 DEF CreateShm, create_shm, MemoryFrame, semvars, datavars, TypeInv, TypeOK
<1>3. CASE LinkShm(p)
  BY <1>3 DEF LinkShm, link_shm, MemoryFrame, semvars, datavars, TypeInv, TypeOK
<1>4. CASE WaitPrevConnect(p)
  BY <1>4, SemopFrame
<1>5. CASE ProcessEnd(p) \/ Killed(p)
  BY <1>5, ReapFrame DEF ProcessEnd, Exit, Return, Killed, Kill
<1>6. QED
  BY <1>1, <1>2, <1>3, <1>4, <1>5 DEF Prologue

LEMMA RemovalFrame ==
  ASSUME TypeInv, NEW p \in Proc,
         \/ UnlinkWr(p) \/ UnlinkRd(p)
         \/ p \in Writers /\ (DeleteShm(p) \/ DeleteSem(p))
  PROVE  MemoryFrame(p)
<1>1. CASE UnlinkWr(p) \/ UnlinkRd(p)
  BY <1>1 DEF UnlinkWr, UnlinkRd, unlink_shm, Go, MemoryFrame, semvars, datavars, TypeInv, TypeOK
<1>2. CASE p \in Writers /\ DeleteShm(p)
  BY <1>2 DEF DeleteShm, delete_shm, MemoryFrame, semvars, datavars
<1>3. CASE p \in Writers /\ DeleteSem(p)
  BY <1>3 DEF DeleteSem, delete_sem, MemoryFrame, shmvars, datavars
<1>4. QED
  BY <1>1, <1>2, <1>3

LEMMA PageFrame ==
  ASSUME TypeInv, NEW p \in Proc,
         \/ p \in Writers /\ (Fill(p) \/ Size(p))
         \/ p \in Readers /\ (ReadSize(p) \/ Write(p))
  PROVE  MemoryFrame(p)
<1>1. num_symb \in [Proc -> {0, 1}] /\ out \in [Readers -> Seq(Pages \cup {NoData})]
      /\ pos \in [Writers -> 0..FileLen]
  BY DEF TypeInv, TypeOK
<1>2. CASE (Segfault(p, "fill") \/ Segfault(p, "read_size")) /\ UNCHANGED datavars
  BY <1>2, ReapFrame DEF Segfault
<1>3. CASE IOError(p, "fill") \/ IOError(p, "write")
  BY <1>3, MoveFrame
<1>4. CASE /\ p \in Writers /\ Fill(p)
           /\ ~ (Segfault(p, "fill") /\ UNCHANGED datavars)
           /\ ~ IOError(p, "fill")
  <2>1. /\ num_symb' = [num_symb EXCEPT ![p] = IF pos[p] < FileLen THEN 1 ELSE 0]
        /\ UNCHANGED <<semvars, shmKey, shmId, att, out>>
    BY <1>4 DEF Fill
  <2>2. QED
    BY <1>1, <1>4, <2>1 DEF MemoryFrame, semvars
<1>5. CASE p \in Writers /\ Size(p)
  BY <1>5 DEF Size, MemoryFrame, semvars, datavars
<1>6. CASE /\ p \in Readers /\ ReadSize(p)
           /\ ~ (Segfault(p, "read_size") /\ UNCHANGED datavars)
  <2>1. /\ num_symb' = [num_symb EXCEPT ![p] = page[att[p]].size]
        /\ UNCHANGED <<semvars, shmvars, pos, out>>
    BY <1>6 DEF ReadSize
  <2>2. QED
    BY <1>1, <1>6, <2>1 DEF MemoryFrame, semvars, shmvars
<1>7. CASE p \in Readers /\ Write(p) /\ ~IOError(p, "write")
  <2>1. UNCHANGED <<semvars, shmvars, pos, num_symb>>
    BY <1>7 DEF Write
  <2>2. QED
    BY <1>7, <2>1 DEF MemoryFrame, semvars, shmvars
<1>8. QED
  BY <1>2, <1>3, <1>4, <1>5, <1>6, <1>7 DEF Fill, ReadSize

LEMMA ActsFrame ==
  ASSUME TypeInv, NEW p \in Proc, Act(p)
  PROVE  MemoryFrame(p)
<1>1. CASE p \in Writers /\ Writer(p)
  BY <1>1, ProcessFrame, SemopFrame, SetValFrame, MoveFrame, RemovalFrame, PageFrame
  DEF Writer
<1>2. CASE p \in Readers /\ Reader(p)
  BY <1>2, ProcessFrame, SemopFrame, SetValFrame, MoveFrame, RemovalFrame, PageFrame
  DEF Reader
<1>3. CASE Killed(p)
  BY <1>3, ProcessFrame
<1>4. QED
  BY <1>1, <1>2, <1>3 DEF Act

(* The three semaphores of the handshake and of the page. *)
SemFrame(p) ==
  /\ \/ val'["SYNC_WR"] = val["SYNC_WR"]
     \/ CreateSem(p) /\ semKey = NoId
     \/ p \in Readers /\ ReaderSync(p)
     \/ p \in Writers /\ WriterConnect(p)
  /\ \/ val'["FULL"] = val["FULL"]
     \/ CreateSem(p) /\ semKey = NoId
     \/ p \in Writers /\ (SetFull(p) \/ VFull(p))
     \/ p \in Readers /\ PFull(p)
     \/ /\ p \in Writers /\ Connected(p) /\ pc'[p] = "done"
        /\ val'["FULL"] = val["FULL"] + 1
  /\ \/ val'["EMPTY"] = val["EMPTY"]
     \/ CreateSem(p) /\ semKey = NoId
     \/ p \in Writers /\ PEmpty(p)
     \/ p \in Readers /\ (SetEmpty(p) \/ VEmpty(p) \/ EndRd(p))
     \/ p \in Readers /\ pc'[p] = "done"
  /\ \A q \in Proc : /\ q # p => (Connected(q)' => Connected(q))
                     /\ q # p /\ semKey' = semKey => (Connected(q)' <=> Connected(q))
  /\ Connected(p)' => \/ Connected(p)
                      \/ p \in Writers /\ WriterConnect(p)
                      \/ p \in Readers /\ ReaderConnect(p)

LEMMA ReapSem ==
  ASSUME TypeInv, NumInv, NEW p \in Proc, Reap(p)
  PROVE  SemFrame(p)
<1>1. /\ val \in [SEM -> Nat] /\ adj \in [Proc -> [SEM -> Int]]
      /\ pc \in [Proc -> Labels]
      /\ semKey' = semKey /\ semId' = semId
      /\ \A q \in Proc : q # p => adj'[q] = adj[q]
      /\ adj'[p]["NUM_PROC"] = 0
      /\ \A x \in SEM : val'[x] = IF Live(p) THEN NonNeg(val[x] + adj[p][x]) ELSE val[x]
      /\ pc' = [pc EXCEPT ![p] = "done"]
  BY DEF Reap, TypeInv, TypeOK, Labels, SEM
<1>2. UndoAt(p) /\ (p \in Writers \/ p \in Readers)
  BY SharmemAssumption DEF NumInv, Undo
<1>3. val'["SYNC_WR"] = val["SYNC_WR"]
  BY <1>1, <1>2 DEF UndoAt, NonNeg, SEM
<1>4. \/ val'["FULL"] = val["FULL"]
      \/ p \in Writers /\ Connected(p) /\ val'["FULL"] = val["FULL"] + 1
  BY <1>1, <1>2 DEF UndoAt, NonNeg, SEM, Connected
<1>5. p \in Writers => val'["EMPTY"] = val["EMPTY"]
  BY <1>1, <1>2 DEF UndoAt, NonNeg, SEM
<1>6. QED
  BY <1>1, <1>2, <1>3, <1>4, <1>5 DEF SemFrame, Connected, Live

LEMMA StillSem ==
  ASSUME NEW p \in Proc, UNCHANGED semvars
  PROVE  SemFrame(p)
BY DEF SemFrame, semvars, Connected, Live

LEMMA SemopSem ==
  ASSUME TypeInv, NumInv, NEW p \in Proc,
         \/ WaitPrevConnect(p)
         \/ p \in Writers /\ \/ AloneWr(p) \/ WriterSync(p) \/ WriterConnect(p)
                             \/ PEmpty(p) \/ VFull(p) \/ EndWr(p)
         \/ p \in Readers /\ \/ AloneRd(p) \/ ReaderSync(p) \/ ReaderConnect(p)
                             \/ PFull(p) \/ VEmpty(p) \/ EndRd(p)
  PROVE  SemFrame(p)
<1> USE DEF SemFrame, Connected, Live, Moves, SEM
<1>1. CASE Refused(p)
  BY <1>1, StillSem DEF Refused
<1>2. CASE ~Refused(p) /\ WaitPrevConnect(p)
  BY <1>2, WaitPrevConnectEffect
<1>3. CASE ~Refused(p) /\ p \in Writers /\ AloneWr(p)
  BY <1>3, AloneWrEffect
<1>4. CASE ~Refused(p) /\ p \in Writers /\ WriterSync(p)
  BY <1>4, WriterSyncEffect
<1>5. CASE ~Refused(p) /\ p \in Writers /\ WriterConnect(p)
  BY <1>5, WriterConnectEffect
<1>6. CASE ~Refused(p) /\ p \in Writers /\ PEmpty(p)
  BY <1>6, PEmptyEffect
<1>7. CASE ~Refused(p) /\ p \in Writers /\ VFull(p)
  BY <1>7, VFullEffect
<1>8. CASE ~Refused(p) /\ p \in Writers /\ EndWr(p)
  <2>1. Live(p) => adj[p]["NUM_PROC"] = -1
    BY <1>8, EndWrEffect DEF NumInv, Undo, UndoAt, Loop, Session
  <2>2. QED
    BY <1>8, <2>1, EndWrEffect
<1>9. CASE ~Refused(p) /\ p \in Readers /\ AloneRd(p)
  BY <1>9, AloneRdEffect
<1>10. CASE ~Refused(p) /\ p \in Readers /\ ReaderSync(p)
  BY <1>10, ReaderSyncEffect
<1>11. CASE ~Refused(p) /\ p \in Readers /\ ReaderConnect(p)
  BY <1>11, ReaderConnectEffect
<1>12. CASE ~Refused(p) /\ p \in Readers /\ PFull(p)
  BY <1>12, PFullEffect
<1>13. CASE ~Refused(p) /\ p \in Readers /\ VEmpty(p)
  BY <1>13, VEmptyEffect
<1>14. CASE ~Refused(p) /\ p \in Readers /\ EndRd(p)
  <2>1. Live(p) => adj[p]["NUM_PROC"] = -1
    BY <1>14, EndRdEffect DEF NumInv, Undo, UndoAt, Loop, Session
  <2>2. CASE UNCHANGED <<val, adj>>
    BY <1>14, <2>2, EndRdEffect
  <2>3. CASE ~UNCHANGED <<val, adj>>
    BY <1>14, <2>1, <2>3, EndRdEffect
  <2>4. QED
    BY <2>2, <2>3
<1>15. QED
  BY <1>1, <1>2, <1>3, <1>4, <1>5, <1>6, <1>7, <1>8, <1>9, <1>10, <1>11, <1>12,
     <1>13, <1>14

LEMMA SetValSem ==
  ASSUME TypeInv, NEW p \in Proc,
         \/ p \in Writers /\ SetFull(p)
         \/ p \in Readers /\ SetEmpty(p)
  PROVE  SemFrame(p)
<1>1. CASE Refused(p)
  BY <1>1, StillSem DEF Refused
<1>2. CASE ~Refused(p) /\ p \in Writers /\ SetFull(p)
  <2>1. UNCHANGED datavars /\ SetVal(p, "setval", "sync", "FULL", 0) /\ "FULL" \in SEM
    BY <1>2 DEF SetFull, SEM
  <2>2. /\ Live(p) /\ Moves(p, "sync")
        /\ \A y \in SEM \ {"FULL"} : val'[y] = val[y]
        /\ \A q \in Proc : \A y \in SEM \ {"FULL"} : adj'[q][y] = adj[q][y]
    BY <1>2, <2>1, SetValEffect
  <2>3. QED
    BY <1>2, <2>2 DEF SemFrame, Connected, Live, Moves, SEM
<1>3. CASE ~Refused(p) /\ p \in Readers /\ SetEmpty(p)
  <2>1. UNCHANGED datavars /\ SetVal(p, "setval", "sync", "EMPTY", 1) /\ "EMPTY" \in SEM
    BY <1>3 DEF SetEmpty, SEM
  <2>2. /\ Live(p) /\ Moves(p, "sync")
        /\ \A y \in SEM \ {"EMPTY"} : val'[y] = val[y]
        /\ \A q \in Proc : \A y \in SEM \ {"EMPTY"} : adj'[q][y] = adj[q][y]
    BY <1>3, <2>1, SetValEffect
  <2>3. QED
    BY <1>3, <2>2 DEF SemFrame, Connected, Live, Moves, SEM
<1>4. QED
  BY <1>1, <1>2, <1>3

LEMMA ProcessSem ==
  ASSUME TypeInv, LockInv, NumInv, NEW p \in Proc,
         Prologue(p) \/ ProcessEnd(p) \/ Killed(p)
  PROVE  SemFrame(p)
<1>1. CASE CreateSem(p)
  <2>1. /\ semId \in [Proc -> Proc \cup {NoId}]
        /\ pc[p] = "create_sem" /\ adj' = adj /\ p # NoId
        /\ \/ /\ semKey = NoId /\ semKey' = p
              /\ semId' = [semId EXCEPT ![p] = p]
           \/ /\ semKey # NoId /\ UNCHANGED <<semKey, val>>
              /\ semId' = [semId EXCEPT ![p] = semKey]
    BY <1>1, ProcAssumption DEF CreateSem, create_sem, Go, TypeInv, TypeOK
  <2>2. \A q \in Proc : q # p => (Live(q)' <=> Live(q))
    BY <2>1 DEF LockInv, Fresh, Live
  <2>3. adj[p]["NUM_PROC"] = 0
    BY <2>1 DEF NumInv, Undo, UndoAt, Before, Loop, Labels, Early, Late, Session
  <2>4. \A q \in Proc : Connected(q)' <=> Connected(q)
    BY <2>1, <2>2, <2>3 DEF Connected
  <2>5. CASE semKey = NoId
    BY <1>1, <2>4, <2>5 DEF SemFrame
  <2>6. CASE semKey # NoId
    BY <2>1, <2>4, <2>6 DEF SemFrame
  <2>7. QED
    BY <2>5, <2>6
<1>2. CASE CreateShm(p) \/ LinkShm(p)
  BY <1>2, StillSem DEF CreateShm, LinkShm, create_shm, link_shm
<1>3. CASE WaitPrevConnect(p)
  BY <1>3, SemopSem
<1>4. CASE ProcessEnd(p) \/ Killed(p)
  BY <1>4, ReapSem DEF ProcessEnd, Exit, Return, Killed, Kill
<1>5. QED
  BY <1>1, <1>2, <1>3, <1>4 DEF Prologue

LEMMA PageSem ==
  ASSUME TypeInv, NumInv, NEW p \in Proc,
         \/ CheckWr(p) \/ CheckRd(p) \/ Open(p)
         \/ Fill(p) \/ Size(p) \/ ReadSize(p) \/ Write(p)
         \/ UnlinkWr(p) \/ UnlinkRd(p) \/ DeleteShm(p)
  PROVE  SemFrame(p)
<1>1. CASE Segfault(p, "fill") \/ Segfault(p, "read_size")
  BY <1>1, ReapSem DEF Segfault
<1>2. CASE /\ ~ Segfault(p, "fill")
           /\ ~ Segfault(p, "read_size")
  <2>1. UNCHANGED semvars
    BY <1>2 DEF CheckWr, CheckRd, Open, IOError, SemopNumProc, Fill, Size, ReadSize,
                Write, UnlinkWr, UnlinkRd, DeleteShm, unlink_shm, delete_shm
  <2>2. QED
    BY <2>1, StillSem
<1>3. QED
  BY <1>1, <1>2

LEMMA DeleteSemSem ==
  ASSUME NEW p \in Proc, DeleteSem(p)
  PROVE  SemFrame(p)
<1>1. /\ UNCHANGED <<val, adj, semId>>
      /\ semKey' = IF Live(p) THEN NoId ELSE semKey
  BY DEF DeleteSem, delete_sem
<1>2. QED
  BY <1>1 DEF SemFrame, Connected, Live

LEMMA ActsSem ==
  ASSUME TypeInv, LockInv, NumInv, NEW p \in Proc, Act(p)
  PROVE  SemFrame(p)
<1>1. CASE p \in Writers /\ Writer(p)
  BY <1>1, ProcessSem, SemopSem, SetValSem, PageSem, DeleteSemSem DEF Writer
<1>2. CASE p \in Readers /\ Reader(p)
  BY <1>2, ProcessSem, SemopSem, SetValSem, PageSem DEF Reader
<1>3. CASE Killed(p)
  BY <1>3, ProcessSem
<1>4. QED
  BY <1>1, <1>2, <1>3 DEF Act

(* The call a process is at determines its action. *)
LEMMA WriterAt ==
  ASSUME TypeInv, NEW w \in Writers, Act(w), pc'[w] # "done"
  PROVE  /\ pc[w] = "create_sem" => CreateSem(w)
         /\ pc[w] = "create_shm" => CreateShm(w)
         /\ pc[w] = "link_shm" => LinkShm(w)
         /\ pc[w] = "alone" => AloneWr(w)
         /\ pc[w] = "wait_prev_connect" => WaitPrevConnect(w)
         /\ pc[w] = "setval" => SetFull(w)
         /\ pc[w] = "sync" => WriterSync(w)
         /\ pc[w] = "connect" => WriterConnect(w)
         /\ pc[w] = "open" => Open(w)
         /\ pc[w] = "p_empty" => PEmpty(w)
         /\ pc[w] = "check_wr" => CheckWr(w)
         /\ pc[w] = "fill" => Fill(w)
         /\ pc[w] = "size" => Size(w)
         /\ pc[w] = "v_full" => VFull(w)
         /\ pc[w] = "end_wr" => EndWr(w)
         /\ pc[w] = "unlink_shm" => UnlinkWr(w)
         /\ pc[w] = "delete_shm" => DeleteShm(w)
         /\ pc[w] = "delete_sem" => DeleteSem(w)
<1>1. /\ CreateSem(w) => pc[w] = "create_sem"
      /\ CreateShm(w) => pc[w] = "create_shm"
      /\ LinkShm(w) => pc[w] = "link_shm"
      /\ AloneWr(w) => pc[w] = "alone"
      /\ WaitPrevConnect(w) => pc[w] = "wait_prev_connect"
      /\ SetFull(w) => pc[w] = "setval"
      /\ WriterSync(w) => pc[w] = "sync"
      /\ WriterConnect(w) => pc[w] = "connect"
      /\ Open(w) => pc[w] = "open"
      /\ PEmpty(w) => pc[w] = "p_empty"
      /\ CheckWr(w) => pc[w] = "check_wr"
      /\ Fill(w) => pc[w] = "fill"
      /\ Size(w) => pc[w] = "size"
      /\ VFull(w) => pc[w] = "v_full"
      /\ EndWr(w) => pc[w] = "end_wr"
      /\ UnlinkWr(w) => pc[w] = "unlink_shm"
      /\ DeleteShm(w) => pc[w] = "delete_shm"
      /\ DeleteSem(w) => pc[w] = "delete_sem"
  BY DEF CreateSem, CreateShm, LinkShm, AloneWr, WaitPrevConnect,
      SetFull, WriterSync, WriterConnect, Open, PEmpty, CheckWr, Fill,
      Size, VFull, EndWr, UnlinkWr, DeleteShm, DeleteSem, Semop,
      SemopNumProc, SetVal, IOError, Segfault, create_sem, create_shm,
      link_shm, unlink_shm, delete_shm, delete_sem, Go
<1>2. ~ProcessEnd(w) /\ ~Killed(w) /\ w \in Proc
  BY SharmemAssumption
  DEF ProcessEnd, Exit, Return, Killed, Kill, Reap, TypeInv, TypeOK
<1>3. Writer(w)
  BY <1>2, SharmemAssumption DEF Act
<1>4. QED
  BY <1>1, <1>2, <1>3 DEF Writer, Prologue

LEMMA ReaderAt ==
  ASSUME TypeInv, NEW r \in Readers, Act(r), pc'[r] # "done"
  PROVE  /\ pc[r] = "create_sem" => CreateSem(r)
         /\ pc[r] = "create_shm" => CreateShm(r)
         /\ pc[r] = "link_shm" => LinkShm(r)
         /\ pc[r] = "alone" => AloneRd(r)
         /\ pc[r] = "wait_prev_connect" => WaitPrevConnect(r)
         /\ pc[r] = "setval" => SetEmpty(r)
         /\ pc[r] = "sync" => ReaderSync(r)
         /\ pc[r] = "connect" => ReaderConnect(r)
         /\ pc[r] = "p_full" => PFull(r)
         /\ pc[r] = "check_rd" => CheckRd(r)
         /\ pc[r] = "read_size" => ReadSize(r)
         /\ pc[r] = "write" => Write(r)
         /\ pc[r] = "v_empty" => VEmpty(r)
         /\ pc[r] = "unlink_shm" => UnlinkRd(r)
         /\ pc[r] \in {"end_rd", "end_rd_sleep"} => EndRd(r)
<1>1. /\ CreateSem(r) => pc[r] = "create_sem"
      /\ CreateShm(r) => pc[r] = "create_shm"
      /\ LinkShm(r) => pc[r] = "link_shm"
      /\ AloneRd(r) => pc[r] = "alone"
      /\ WaitPrevConnect(r) => pc[r] = "wait_prev_connect"
      /\ SetEmpty(r) => pc[r] = "setval"
      /\ ReaderSync(r) => pc[r] = "sync"
      /\ ReaderConnect(r) => pc[r] = "connect"
      /\ PFull(r) => pc[r] = "p_full"
      /\ CheckRd(r) => pc[r] = "check_rd"
      /\ ReadSize(r) => pc[r] = "read_size"
      /\ Write(r) => pc[r] = "write"
      /\ VEmpty(r) => pc[r] = "v_empty"
      /\ UnlinkRd(r) => pc[r] = "unlink_shm"
      /\ EndRd(r) => pc[r] \in {"end_rd", "end_rd_sleep"}
  BY DEF CreateSem, CreateShm, LinkShm, AloneRd, WaitPrevConnect,
      SetEmpty, ReaderSync, ReaderConnect, PFull, CheckRd, ReadSize,
      Write, VEmpty, UnlinkRd, Semop, SemopNumProc, SetVal, IOError,
      Segfault, create_sem, create_shm, link_shm, unlink_shm, delete_shm,
      delete_sem, Go, EndRd
<1>2. ~ProcessEnd(r) /\ ~Killed(r) /\ r \in Proc
  BY SharmemAssumption
  DEF ProcessEnd, Exit, Return, Killed, Kill, Reap, TypeInv, TypeOK
<1>3. Reader(r)
  BY <1>2, SharmemAssumption DEF Act
<1>4. QED
  BY <1>1, <1>2, <1>3 DEF Reader, Prologue

-----------------------------------------------------------------------------
(* The meeting of a writer with the reader. *)

WLoop   == {"open", "p_empty", "check_wr", "fill", "size", "v_full", "end_wr"}
Leaving == {"unlink_shm", "delete_shm", "delete_sem"}

(* The reader has not posted SYNC_WR. *)
PreSync(rd) == pc[rd] \in Early \cup {"wait_prev_connect", "setval", "sync"}

Inside(w) == pc[w] \in WLoop \cup Leaving

(* w has taken SYNC_WR and its end has not been noticed by the kernel. *)
Met(w) == Inside(w) \/ pc[w] = "return" \/ Connected(w)

(* SYNC_WR is posted once and lets one writer in.  Until then the page is  *)
(* untouched, and afterwards no second writer meets the reader.            *)
Handshake(rd) ==
  /\ val["SYNC_WR"] \in {0, 1}
  /\ PreSync(rd) => val["SYNC_WR"] = 0
  /\ PreSync(rd) \/ val["SYNC_WR"] = 1 => /\ \A w \in Writers : ~Met(w)
                                      /\ val["FULL"] = 0
                                      /\ out[rd] = <<>>
  /\ val["SYNC_WR"] = 1 => /\ Live(rd)
                           /\ pc[rd] \in {"connect", "p_full", "done"}
                           /\ pc[rd] # "done" => val["EMPTY"] = 1
  /\ pc[rd] = "sync" /\ Live(rd) => val["EMPTY"] = 1
  /\ \A w \in Writers : Met(w) => /\ semId[w] = semId[rd]
                                  /\ Inside(w) => Live(w)
                                  /\ \A v \in Writers : Met(v) => v = w

LEMMA ReaderIs ==
  ASSUME NEW rd \in Readers, OnlyReader(rd)
  PROVE  /\ rd \in Readers /\ rd \in Proc /\ rd \notin Writers
         /\ \A p \in Proc : p # rd /\ p \notin Writers => p \in Readers /\ pc[p] \in Early
         /\ \A r \in Readers : r # rd => pc[r] \in Early
BY SharmemAssumption DEF OnlyReader

(* Another reader stays where it is before its ALONE_RD semop(): all it    *)
(* can do is to create a semaphore set or a segment, or to attach one.     *)
LEMMA OtherReader ==
  ASSUME NEW rd \in Readers, OnlyReader(rd), OnlyReader(rd)', TypeInv,
         NEW p \in Proc, Act(p), p # rd, p \notin Writers
  PROVE  /\ p \in Readers /\ pc[p] \in Early /\ pc'[p] \in Early
         /\ CreateSem(p) \/ CreateShm(p) \/ LinkShm(p)
         /\ val' = val \/ (CreateSem(p) /\ semKey = NoId)
         /\ UNCHANGED <<status, datavars>>
<1>1. p \in Readers /\ Step(p) /\ pc \in [Proc -> Labels]
  BY ActsStep, SharmemAssumption DEF TypeInv, TypeOK, Labels
<1>2. pc[p] \in Early /\ pc'[p] \in Early
  BY <1>1 DEF OnlyReader
<1>3. pc[p] # "alone" /\ pc'[p] # "done"
  BY <1>1, <1>2 DEF Step, Flow, PrologueFlow, WriterFlow, ReaderFlow, Early
<1>4. CreateSem(p) \/ CreateShm(p) \/ LinkShm(p)
  BY <1>1, <1>2, <1>3, ReaderAt DEF Early
<1>5. UNCHANGED <<status, datavars>>
  BY <1>4 DEF CreateSem, create_sem, CreateShm, create_shm, LinkShm, link_shm
<1>6. val' = val \/ (CreateSem(p) /\ semKey = NoId)
  BY <1>4 DEF CreateSem, create_sem, CreateShm, create_shm, LinkShm, link_shm, semvars
<1>7. QED
  BY <1>1, <1>2, <1>4, <1>5, <1>6

(* So of the readers' calls only those of rd are made. *)
LEMMA ReadersAct ==
  ASSUME NEW rd \in Readers, OnlyReader(rd), OnlyReader(rd)', TypeInv,
         NEW p \in Proc, Act(p), p # rd, p \notin Writers
  PROVE  /\ ~SetEmpty(p) /\ ~ReaderSync(p) /\ ~ReaderConnect(p) /\ ~PFull(p)
         /\ ~Write(p) /\ ~VEmpty(p) /\ ~EndRd(p) /\ pc'[p] # "done"
BY OtherReader
DEF Early, SetEmpty, SetVal, ReaderSync, ReaderConnect, PFull, VEmpty, Semop, Write, IOError,
    EndRd, Go

(* A writer meets the reader in its connecting semop() only. *)
LEMMA MetStep ==
  ASSUME TypeInv, LockInv, NumInv, NEW p \in Proc, Act(p), NEW w \in Writers, Met(w)'
  PROVE  \/ Met(w) /\ (Inside(w)' => Inside(w))
         \/ p = w /\ WriterConnect(w) /\ Live(w) /\ pc'[w] = "open"
<1>1. Step(p) /\ SemFrame(p) /\ w \in Proc /\ w \notin Readers /\ pc \in [Proc -> Labels]
  BY ActsStep, ActsSem, SharmemAssumption DEF TypeInv, TypeOK, Labels
<1>2. CASE p # w
  BY <1>1, <1>2 DEF Step, SemFrame, Met, Inside
<1>3. CASE p = w /\ pc[w] = "connect"
  <2>1. CASE pc'[w] = "done"
    BY <1>1, <1>3, <2>1, ActsSem
    DEF SemFrame, WriterConnect, Semop, Fail, Met, Inside, WLoop, Leaving
  <2>2. CASE pc'[w] # "done"
    <3>1. WriterConnect(w)
      BY <1>3, <2>2, WriterAt
    <3>2. CASE Refused(w)
      <4>1. ~Connected(w)' /\ pc'[w] = "exit"
        BY <1>1, <3>2 DEF Refused, Connected, Live, semvars
      <4>2. QED
        BY <4>1 DEF Met, Inside, WLoop, Leaving
    <3>3. CASE ~Refused(w)
      BY <1>1, <1>3, <3>1, <3>3, WriterConnectEffect DEF Moves
    <3>4. QED
      BY <3>2, <3>3
  <2>3. QED
    BY <2>1, <2>2
<1>4. CASE p = w /\ pc[w] # "connect"
  <2>1. Connected(w)' => Connected(w)
    BY <1>1, <1>4 DEF SemFrame, WriterConnect, Semop
  <2>2. Inside(w)' => Inside(w)
    BY <1>1, <1>4 DEF Step, Flow, WriterFlow, ReaderFlow, PrologueFlow, Inside, WLoop, Leaving
  <2>3. pc'[w] = "return" => Inside(w)
    BY <1>1, <1>4 DEF Step, Flow, WriterFlow, ReaderFlow, PrologueFlow, Inside, WLoop, Leaving
  <2>4. QED
    BY <2>1, <2>2, <2>3 DEF Met
<1>5. QED
  BY <1>2, <1>3, <1>4


LEMMA PreSyncFlow ==
  ASSUME NEW rd \in Readers, OnlyReader(rd), OnlyReader(rd)', NEW p \in Proc,
         Step(p), PreSync(rd)'
  PROVE  PreSync(rd)
BY ReaderIs
DEF PreSync, Step, Flow, WriterFlow, ReaderFlow, PrologueFlow, Early

(* The first semaphore set begins with all values 0. *)
LEMMA NewSet ==
  ASSUME TypeInv, LockInv, NEW p \in Proc, CreateSem(p)
  PROVE  /\ pc[p] = "create_sem" /\ pc'[p] = "create_shm"
         /\ \/ /\ semKey = NoId /\ semKey' = p
               /\ val'["SYNC_WR"] = 0 /\ val'["FULL"] = 0 /\ val'["EMPTY"] = 0
            \/ semKey # NoId /\ UNCHANGED <<semKey, val>>
         /\ \A q \in Proc : Live(q)' => q = p \/ Live(q)
<1>1. /\ pc \in [Proc -> Labels] /\ semId \in [Proc -> Proc \cup {NoId}]
      /\ pc[p] = "create_sem" /\ pc' = [pc EXCEPT ![p] = "create_shm"]
      /\ \/ /\ semKey = NoId /\ semKey' = p /\ val' = [x \in SEM |-> 0]
            /\ semId' = [semId EXCEPT ![p] = p]
         \/ /\ semKey # NoId /\ UNCHANGED <<semKey, val>>
            /\ semId' = [semId EXCEPT ![p] = semKey]
  BY DEF CreateSem, create_sem, Go, TypeInv, TypeOK, Labels
<1>2. QED
  BY <1>1 DEF LockInv, Fresh, Live, SEM

LEMMA DeletedBy ==
  ASSUME TypeInv, NEW p \in Proc, DeleteSem(p)
  PROVE  /\ pc[p] = "delete_sem" /\ pc'[p] = "return"
         /\ UNCHANGED <<val, adj, semId>>
BY DEF DeleteSem, delete_sem, Go, TypeInv, TypeOK

LEMMA HandshakeMet ==
  ASSUME NEW rd \in Readers, OnlyReader(rd), OnlyReader(rd)', TypeInv, LockInv,
         NumInv, Handshake(rd), NEW p \in Proc, Act(p), NEW w \in Writers, Met(w)
  PROVE  Handshake(rd)'
<1>1. /\ val["SYNC_WR"] = 0 /\ ~PreSync(rd) /\ w \in Proc
      /\ Step(p) /\ SemFrame(p) /\ MemoryFrame(p)
  BY ActsStep, ActsSem, ActsFrame, SharmemAssumption DEF Handshake
<1>2. ~PreSync(rd)' /\ pc'[rd] # "sync"
  BY <1>1, PreSyncFlow DEF PreSync
<1>3. val'["SYNC_WR"] = 0
  <2>1. ASSUME p \in Readers, ReaderSync(p) PROVE FALSE
    BY <1>1, <2>1, ReaderSyncEffect, ReaderIs, ReadersAct, SharmemAssumption DEF PreSync
  <2>2. ASSUME p \in Writers, WriterConnect(p) PROVE val' = val
    BY <1>1, <2>2, WriterConnectEffect DEF Refused, semvars
  <2>3. QED
    BY <1>1, <2>1, <2>2, NewSet DEF SemFrame
<1>4. \A v \in Writers : Met(v)' => /\ v = w
                                    /\ Inside(v)' => Inside(v)
  <2> SUFFICES ASSUME NEW v \in Writers, Met(v)' PROVE v = w /\ (Inside(v)' => Inside(v))
      OBVIOUS
  <2>1. CASE WriterConnect(v) /\ Live(v)
    BY <1>1, <2>1, WriterConnectEffect DEF Refused
  <2>2. CASE ~(WriterConnect(v) /\ Live(v))
    BY <2>2, MetStep DEF Handshake
  <2>3. QED
    BY <2>1, <2>2
<1>5. semId'[w] = semId[w] /\ semId'[rd] = semId[rd]
  <2>1. pc[rd] # "create_sem" /\ pc[w] # "create_sem"
    BY <1>1 DEF PreSync, Early, Met, Inside, WLoop, Leaving, Connected, NumInv, Undo,
                UndoAt, Before, Labels, Loop, Late, Session
  <2>2. QED
    BY <1>1, <2>1, NewSet, ReaderIs DEF MemoryFrame
<1>6. Inside(w)' => Live(w)'
  <2> SUFFICES ASSUME Inside(w)' PROVE Live(w)'
      OBVIOUS
  <2>1. Inside(w) /\ Live(w)
    BY <1>4 DEF Handshake, Met
  <2>2. ASSUME p \in Writers, DeleteSem(p) PROVE FALSE
    <3>1. Inside(p) /\ ~Inside(p)'
      BY <2>2, DeletedBy DEF Inside, WLoop, Leaving
    <3>2. p = w
      BY <2>2, <3>1 DEF Handshake, Met
    <3>3. QED
      BY <3>1, <3>2
  <2>3. semKey' = semKey
    BY <1>1, <2>1, <2>2, NewSet DEF MemoryFrame, Live
  <2>4. QED
    BY <1>5, <2>1, <2>3 DEF Live
<1>7. QED
  BY <1>2, <1>3, <1>4, <1>5, <1>6 DEF Handshake

(* The step in which a writer meets the reader. *)
LEMMA HandshakeMeets ==
  ASSUME NEW rd \in Readers, OnlyReader(rd), OnlyReader(rd)', TypeInv, LockInv,
         NumInv, Handshake(rd), NEW w \in Writers, Act(w), WriterConnect(w), Live(w)
  PROVE  Handshake(rd)'
<1>1. /\ val["SYNC_WR"] = 1 /\ ~PreSync(rd) /\ w \in Proc
      /\ semId' = semId /\ semKey' = semKey /\ val'["SYNC_WR"] = 0
      /\ pc'[rd] = pc[rd] /\ pc'[w] = "open"
  <2>1. /\ pc \in [Proc -> Labels] /\ val["SYNC_WR"] \in {0, 1} /\ w \in Proc
        /\ rd \in Proc /\ rd # w
    BY SharmemAssumption, ReaderIs DEF TypeInv, TypeOK, Labels, Handshake
  <2>2. ~Refused(w)
    BY DEF Refused
  <2>3. /\ Moves(w, "open") /\ val["SYNC_WR"] > 0
        /\ val'["SYNC_WR"] = val["SYNC_WR"] - 1
    BY <2>2, WriterConnectEffect
  <2>4. val["SYNC_WR"] = 1 /\ ~PreSync(rd)
    BY <2>1, <2>3 DEF Handshake
  <2>5. QED
    BY <2>1, <2>3, <2>4 DEF Moves
<1>2. ~PreSync(rd)' /\ pc'[rd] # "sync"
  BY <1>1 DEF PreSync
<1>3. \A v \in Writers : ~Met(v) /\ (Met(v)' => v = w)
  BY <1>1, MetStep DEF Handshake
<1>4. semId[w] = semId[rd]
  BY <1>1 DEF Handshake, Live
<1>5. Live(w)'
  BY <1>1 DEF Live
<1>6. QED
  BY <1>1, <1>2, <1>3, <1>4, <1>5 DEF Handshake

LEMMA HandshakeUnmet ==
  ASSUME NEW rd \in Readers, OnlyReader(rd), OnlyReader(rd)', TypeInv, LockInv,
         NumInv, Handshake(rd), NEW p \in Proc, Act(p),
         \A w \in Writers : ~Met(w) /\ ~Met(w)'
  PROVE  Handshake(rd)'
<1>1. /\ Step(p) /\ SemFrame(p) /\ MemoryFrame(p)
      /\ pc \in [Proc -> Labels] /\ val \in [SEM -> Nat]
  BY ActsStep, ActsSem, ActsFrame DEF TypeInv, TypeOK, Labels
<1>2. /\ ~(p \in Writers /\ DeleteSem(p))
      /\ ~(p \in Writers /\ VFull(p)) /\ ~(p \in Writers /\ PEmpty(p))
      /\ ~(p \in Writers /\ Connected(p))
      /\ p \in Writers /\ WriterConnect(p) => UNCHANGED val
  <2>1. ASSUME p \in Writers, WriterConnect(p), ~Refused(p) PROVE FALSE
    BY <2>1, WriterConnectEffect DEF Moves, Met, Inside, WLoop, TypeInv, TypeOK
  <2>2. QED
    BY <2>1, DeletedBy, VFullEffect, PEmptyEffect
    DEF Met, Inside, WLoop, Leaving, Refused, semvars
<1>3. PreSync(rd)' => PreSync(rd)
  BY <1>1, PreSyncFlow
<1>4. Live(rd)' => \/ Live(rd) /\ semKey' = semKey
                   \/ p = rd /\ CreateSem(rd)
  <2>1. CASE CreateSem(p)
    BY <2>1, NewSet, ReaderIs DEF Live
  <2>2. CASE ~CreateSem(p)
    BY <1>1, <1>2, <2>2 DEF MemoryFrame, Live
  <2>3. QED
    BY <2>1, <2>2
<1>5. CASE CreateSem(p) /\ semKey = NoId
  <2>1. /\ val'["SYNC_WR"] = 0 /\ val'["FULL"] = 0 /\ out' = out
        /\ pc'[p] = "create_shm"
    BY <1>5, NewSet DEF CreateSem, datavars
  <2>2. ~(pc'[rd] = "sync" /\ Live(rd)')
    BY <1>4, <1>5, <2>1 DEF Live
  <2>3. QED
    BY <1>3, <2>1, <2>2 DEF Handshake
<1>6. CASE p = rd /\ ReaderSync(p) /\ ~Refused(p)
  <2>1. /\ pc[rd] = "sync" /\ pc'[rd] = "connect" /\ Live(rd) /\ Live(rd)'
        /\ val'["SYNC_WR"] = val["SYNC_WR"] + 1
        /\ val'["FULL"] = val["FULL"] /\ val'["EMPTY"] = val["EMPTY"] /\ out' = out
    BY <1>1, <1>6, ReaderIs, ReaderSyncEffect DEF Moves, Live, SEM, datavars
  <2>2. PreSync(rd) /\ ~PreSync(rd)'
    BY <2>1 DEF PreSync, Early
  <2>3. QED
    BY <2>1, <2>2 DEF Handshake
<1>7. CASE /\ ~(CreateSem(p) /\ semKey = NoId)
           /\ ~(p = rd /\ ReaderSync(p) /\ ~Refused(p))
  <2>0. p # rd => val'["EMPTY"] = val["EMPTY"]
    <3>1. CASE p \in Writers
      BY <1>1, <1>2, <1>7, <3>1, SharmemAssumption DEF SemFrame
    <3>2. CASE p \notin Writers
      BY <1>7, <3>2, OtherReader
    <3>3. QED
      BY <3>1, <3>2
  <2>1. val'["SYNC_WR"] = val["SYNC_WR"]
    BY <1>1, <1>2, <1>7, ReadersAct, SharmemAssumption DEF SemFrame, Refused, semvars
  <2>2. ASSUME PreSync(rd)' \/ val'["SYNC_WR"] = 1 PROVE val'["FULL"] = 0 /\ out'[rd] = <<>>
    <3>1. val["FULL"] = 0 /\ out[rd] = <<>>
      BY <1>3, <2>1, <2>2 DEF Handshake
    <3>2. p \in Writers /\ SetFull(p) => val'["FULL"] = 0
      <4> SUFFICES ASSUME p \in Writers, SetFull(p) PROVE val'["FULL"] = 0
          OBVIOUS
      <4>1. SetVal(p, "setval", "sync", "FULL", 0) /\ "FULL" \in SEM /\ UNCHANGED datavars
        BY DEF SetFull, SEM
      <4>2. QED
        BY <3>1, <4>1, SetValEffect DEF Refused, semvars
    <3>3. p \in Readers /\ PFull(p) => val'["FULL"] = 0
      BY <3>1, PFullEffect DEF Refused, semvars
    <3>4. p \in Readers => ~Write(p)
      <4>1. pc[rd] # "write"
        BY <1>3, <2>1, <2>2 DEF Handshake, PreSync, Early
      <4>2. QED
        BY <4>1, ReadersAct, SharmemAssumption DEF Write, Go, IOError
    <3>5. QED
      BY <1>1, <1>2, <1>7, <3>1, <3>2, <3>3, <3>4 DEF SemFrame, MemoryFrame
  <2>3. ASSUME val'["SYNC_WR"] = 1
        PROVE  /\ Live(rd)'
               /\ pc'[rd] \in {"connect", "p_full", "done"}
               /\ pc'[rd] # "done" => val'["EMPTY"] = 1
    <3>1. /\ Live(rd) /\ pc[rd] \in {"connect", "p_full", "done"}
          /\ pc[rd] # "done" => val["EMPTY"] = 1
          /\ val["FULL"] = 0
      BY <2>1, <2>3 DEF Handshake
    <3>2. Live(rd)' /\ semKey' = semKey
      BY <1>1, <1>2, <1>7, <3>1, NewSet, ReaderIs DEF MemoryFrame, Live
    <3>3. CASE p # rd
      <4>1. pc'[rd] = pc[rd]
        BY <1>1, <3>3, ReaderIs DEF Step
      <4>2. QED
        BY <2>0, <3>1, <3>2, <3>3, <4>1
    <3>4. CASE p = rd /\ pc'[rd] = "done"
      BY <3>2, <3>4
    <3>5. CASE p = rd /\ pc'[rd] # "done"
      <4>1. pc[rd] # "done"
        BY <1>1, <3>5 DEF Step, Flow
      <4>2. ReaderConnect(rd) \/ PFull(rd)
        BY <3>1, <3>5, <4>1, ReaderIs, ReaderAt
      <4>3. ~PFull(rd)
        BY <3>1, ReaderIs, PFullEffect DEF Refused
      <4>4. Moves(rd, "p_full") /\ val'["EMPTY"] = val["EMPTY"]
        BY <3>1, <4>2, <4>3, ReaderIs, ReaderConnectEffect DEF Refused, SEM
      <4>5. QED
        BY <1>1, <3>1, <3>2, <4>1, <4>4, ReaderIs DEF Moves
    <3>6. QED
      BY <3>3, <3>4, <3>5
  <2>4. ASSUME pc'[rd] = "sync", Live(rd)' PROVE val'["EMPTY"] = 1
    <3>1. CASE p = rd
      <4>1. pc[rd] = "setval"
        BY <1>1, <2>4, <3>1 DEF Step, Flow, WriterFlow, ReaderFlow, PrologueFlow
      <4>2. SetEmpty(rd)
        BY <2>4, <3>1, <4>1, ReaderIs, ReaderAt
      <4>3. SetVal(rd, "setval", "sync", "EMPTY", 1) /\ "EMPTY" \in SEM /\ UNCHANGED datavars
        BY <4>2 DEF SetEmpty, SEM
      <4>4. ~Refused(rd)
        BY <1>1, <2>4, ReaderIs DEF Refused
      <4>5. QED
        BY <4>3, <4>4, SetValEffect, ReaderIs
    <3>2. CASE p # rd
      <4>1. pc[rd] = "sync" /\ Live(rd)
        BY <1>1, <1>4, <2>4, <3>2, ReaderIs DEF Step
      <4>2. QED
        BY <2>0, <3>2, <4>1 DEF Handshake
    <3>3. QED
      BY <3>1, <3>2
  <2>5. QED
    BY <1>3, <2>1, <2>2, <2>3, <2>4 DEF Handshake
<1>8. QED
  BY <1>1, <1>5, <1>6, <1>7

LEMMA HandshakeAct ==
  ASSUME NEW rd \in Readers, OnlyReader(rd), OnlyReader(rd)', TypeInv, LockInv,
         NumInv, Handshake(rd), NEW p \in Proc, Act(p)
  PROVE  Handshake(rd)'
<1>1. CASE \E w \in Writers : Met(w)
  BY <1>1, HandshakeMet
<1>2. CASE \E w \in Writers : ~Met(w) /\ Met(w)'
  BY <1>2, MetStep, HandshakeMeets
<1>3. CASE \A w \in Writers : ~Met(w) /\ ~Met(w)'
  BY <1>3, HandshakeUnmet
<1>4. QED
  BY <1>1, <1>2, <1>3

-----------------------------------------------------------------------------
(* The segment. *)

(* Nobody has seen the segment of a process that has not created one. *)
SegmentFresh ==
  \A p \in Proc : pc[p] \in {"create_sem", "create_shm"} =>
    /\ shmKey # p
    /\ \A q \in Proc : shmId[q] # p /\ att[q] # p

(* Until the writer that met the reader removes the segment. *)
Kept(rd) ==
  \/ PreSync(rd)
  \/ val["SYNC_WR"] = 1
  \/ \E w \in Writers : pc[w] \in WLoop \cup {"unlink_shm", "delete_shm"}

(* Meanwhile everybody uses the same segment. *)
SameSegment(rd) ==
  Kept(rd) => \A p \in Proc :
    /\ pc[p] \in {"link_shm", "alone"} \cup Session => shmId[p] = shmKey /\ shmKey # NoId
    /\ pc[p] \in {"alone"} \cup Session => att[p] = shmKey

Segments(rd) == SegmentFresh /\ SameSegment(rd)

LEMMA KeptStep ==
  ASSUME NEW rd \in Readers, OnlyReader(rd), OnlyReader(rd)', TypeInv, LockInv,
         NumInv, Handshake(rd), NEW p \in Proc, Act(p), Kept(rd)'
  PROVE  Kept(rd)
<1>1. Step(p) /\ SemFrame(p) /\ val["SYNC_WR"] \in {0, 1} /\ val["SYNC_WR"] \in Nat
  BY ActsStep, ActsSem DEF Handshake
<1>2. CASE PreSync(rd)'
  BY <1>1, <1>2, PreSyncFlow DEF Kept
<1>3. CASE val'["SYNC_WR"] = 1
  <2>1. CASE p \in Readers /\ ReaderSync(p)
    BY <2>1, ReaderSyncEffect, ReadersAct, SharmemAssumption DEF Kept, PreSync
  <2>2. CASE p \in Writers /\ WriterConnect(p)
    BY <1>1, <1>3, <2>2, WriterConnectEffect DEF Kept, Refused, semvars
  <2>3. CASE CreateSem(p)
    BY <1>3, <2>3, NewSet DEF Kept
  <2>4. QED
    BY <1>1, <1>3, <2>1, <2>2, <2>3 DEF SemFrame, Kept
<1>4. CASE \E w \in Writers : pc'[w] \in WLoop \cup {"unlink_shm", "delete_shm"}
  <2>1. PICK w \in Writers : pc'[w] \in WLoop \cup {"unlink_shm", "delete_shm"}
    BY <1>4
  <2>2. CASE p = w /\ WriterConnect(w) /\ Live(w) /\ pc'[w] = "open"
    <3>1. val["SYNC_WR"] > 0
      BY <2>2, WriterConnectEffect DEF Refused
    <3>2. QED
      BY <1>1, <3>1 DEF Kept
  <2>3. CASE ~(p = w /\ WriterConnect(w) /\ Live(w) /\ pc'[w] = "open")
    <3>1. Inside(w)' /\ Met(w)'
      BY <2>1 DEF Inside, Met, Leaving
    <3>2. Inside(w)
      BY <2>3, <3>1, MetStep
    <3>3. pc[w] # "delete_sem"
      BY <1>1, <2>1, SharmemAssumption
      DEF Step, Flow, WriterFlow, ReaderFlow, PrologueFlow, WLoop
    <3>4. QED
      BY <3>2, <3>3 DEF Inside, Leaving, Kept
  <2>4. QED
    BY <2>2, <2>3
<1>5. QED
  BY <1>2, <1>3, <1>4 DEF Kept

(* Removing the segment ends the phase in which it is needed. *)
LEMMA DeleteShmEnds ==
  ASSUME NEW rd \in Readers, OnlyReader(rd), OnlyReader(rd)', TypeInv,
         Handshake(rd)', NEW w \in Writers, DeleteShm(w)
  PROVE  ~Kept(rd)'
<1>1. pc'[w] = "delete_sem"
  BY SharmemAssumption DEF DeleteShm, delete_shm, Go, TypeInv, TypeOK
<1>2. Met(w)'
  BY <1>1 DEF Met, Inside, Leaving
<1>3. ~PreSync(rd)' /\ val'["SYNC_WR"] # 1
  BY <1>2 DEF Handshake
<1>4. ASSUME NEW v \in Writers, pc'[v] \in WLoop \cup {"unlink_shm", "delete_shm"}
      PROVE  FALSE
  <2>1. Met(v)'
    BY <1>4 DEF Met, Inside, Leaving
  <2>2. v = w
    BY <1>2, <2>1 DEF Handshake
  <2>3. QED
    BY <1>1, <1>4, <2>2 DEF WLoop
<1>5. QED
  BY <1>3, <1>4 DEF Kept

LEMMA CreateShmIs ==
  ASSUME TypeInv, NEW p \in Proc, CreateShm(p)
  PROVE  /\ pc[p] = "create_shm" /\ pc'[p] = "link_shm" /\ att' = att
         /\ \/ /\ shmKey = NoId /\ shmKey' = p /\ shmId'[p] = p
               /\ \A m \in Proc : m # p => page'[m] = page[m]
            \/ /\ shmKey # NoId /\ shmKey' = shmKey /\ shmId'[p] = shmKey
               /\ page' = page
BY DEF CreateShm, create_shm, Go, TypeInv, TypeOK

LEMMA LinkShmIs ==
  ASSUME TypeInv, NEW p \in Proc, LinkShm(p)
  PROVE  /\ pc[p] = "link_shm" /\ pc'[p] = "alone"
         /\ att'[p] = IF SegmentExists(shmId[p]) THEN shmId[p] ELSE NoId
         /\ UNCHANGED <<shmKey, shmId, page>>
BY DEF LinkShm, link_shm, Go, TypeInv, TypeOK

LEMMA SegmentsAct ==
  ASSUME NEW rd \in Readers, OnlyReader(rd), OnlyReader(rd)', TypeInv, LockInv,
         NumInv, Handshake(rd), Handshake(rd)', Segments(rd), NEW p \in Proc, Act(p)
  PROVE  Segments(rd)'
<1>1. /\ Step(p) /\ MemoryFrame(p) /\ NoId \notin Proc
      /\ \A q \in Proc : pc'[q] \in {"create_sem", "create_shm"} =>
            (q # p /\ pc[q] = pc'[q]) \/ (q = p /\ pc[p] = "create_sem")
  <2>1. Step(p) /\ MemoryFrame(p) /\ NoId \notin Proc
    BY ActsStep, ActsFrame, ProcAssumption
  <2>2. QED
    BY <2>1 DEF Step, Flow, WriterFlow, ReaderFlow, PrologueFlow
<1>2. p \in Writers /\ DeleteShm(p) => shmKey' \in {shmKey, NoId}
  BY DEF DeleteShm, delete_shm
<1>3. LinkShm(p) \/ \A q \in Proc : att'[q] \in {att[q], NoId}
  BY <1>1 DEF MemoryFrame, TypeInv, TypeOK
<1>4. SegmentFresh'
  <2> SUFFICES ASSUME NEW q \in Proc, pc'[q] \in {"create_sem", "create_shm"}, NEW s \in Proc
               PROVE  shmKey' # q /\ shmId'[s] # q /\ att'[s] # q
      BY DEF SegmentFresh
  <2>1. /\ shmKey # q /\ shmId[s] # q /\ att[s] # q /\ shmId[p] # q /\ att[p] # q
        /\ pc[q] \in {"create_sem", "create_shm"}
    BY <1>1 DEF Segments, SegmentFresh
  <2>2. CASE CreateShm(p)
    BY <1>1, <2>1, <2>2, CreateShmIs DEF MemoryFrame
  <2>3. CASE LinkShm(p)
    BY <1>1, <2>1, <2>3, LinkShmIs DEF MemoryFrame
  <2>4. CASE ~CreateShm(p) /\ ~LinkShm(p)
    <3>1. shmKey' # q /\ shmId' = shmId
      BY <1>1, <1>2, <2>1, <2>4 DEF MemoryFrame
    <3>2. att'[s] # q
      BY <1>1, <1>3, <2>1, <2>4 DEF MemoryFrame
    <3>3. QED
      BY <2>1, <3>1, <3>2
  <2>5. QED
    BY <2>2, <2>3, <2>4
<1>5. SameSegment(rd)'
  <2> DEFINE Linked == {"alone"} \cup Session
  <2> SUFFICES ASSUME Kept(rd)', NEW q \in Proc
               PROVE  /\ pc'[q] \in {"link_shm"} \cup Linked =>
                           shmId'[q] = shmKey' /\ shmKey' # NoId
                      /\ pc'[q] \in Linked => att'[q] = shmKey'
      BY DEF SameSegment
  <2>1. /\ \A s \in Proc :
             /\ pc[s] \in {"link_shm"} \cup Linked => shmId[s] = shmKey /\ shmKey # NoId
             /\ pc[s] \in Linked => att[s] = shmKey
        /\ ~(p \in Writers /\ DeleteShm(p))
    BY KeptStep, DeleteShmEnds DEF Segments, SameSegment
  <2>2. {"link_shm", "create_shm", "create_sem", "unlink_shm", "done"} \cap Linked = {}
    BY DEF Session
  <2>3. CASE CreateShm(p)
    <3>1. q # p => pc'[q] = pc[q] /\ shmId'[q] = shmId[q]
      BY <1>1 DEF Step, MemoryFrame
    <3>2. QED
      BY <1>1, <2>1, <2>2, <2>3, <3>1, CreateShmIs
  <2>4. CASE LinkShm(p)
    <3>1. q # p => pc'[q] = pc[q] /\ att'[q] = att[q]
      BY <1>1 DEF Step, MemoryFrame
    <3>2. QED
      BY <2>1, <2>2, <2>4, <3>1, LinkShmIs DEF SegmentExists
  <2>5. CASE ~CreateShm(p) /\ ~LinkShm(p)
    <3>1. shmKey' = shmKey /\ shmId' = shmId
      BY <1>1, <2>1, <2>5 DEF MemoryFrame
    <3>2. CASE q # p
      BY <1>1, <2>1, <3>1, <3>2 DEF Step, MemoryFrame
    <3>3. CASE q = p
      <4>1. pc'[p] \in {"link_shm", "alone"} => pc'[p] # "link_shm" /\ pc'[p] # "alone"
        <5>1. pc[p] # "create_shm" \/ pc'[p] # "link_shm"
          BY <2>5, SharmemAssumption, WriterAt, ReaderAt
        <5>2. pc[p] # "link_shm" \/ pc'[p] # "alone"
          BY <2>5, SharmemAssumption, WriterAt, ReaderAt
        <5>3. QED
          BY <1>1, <5>1, <5>2 DEF Step, Flow, WriterFlow, ReaderFlow, PrologueFlow
      <4>2. pc'[p] \in Linked => pc[p] \in Linked
        BY <1>1, <4>1 DEF Step, Flow, WriterFlow, ReaderFlow, PrologueFlow, Session
      <4>3. pc'[p] \in Linked => att' = att
        BY <1>1, <2>2, <2>5, <4>2 DEF MemoryFrame
      <4>4. QED
        BY <2>1, <3>1, <3>3, <4>1, <4>2, <4>3
    <3>4. QED
      BY <3>2, <3>3
  <2>6. QED
    BY <2>3, <2>4, <2>5
<1>6. QED
  BY <1>4, <1>5 DEF Segments

-----------------------------------------------------------------------------
(* The token. *)

(* The reader has taken the page by P (FULL) and not given it back; one    *)
(* that has failed meanwhile keeps it until the kernel reaps it.           *)
ReaderHolds(rd) ==
  \/ pc[rd] \in {"check_rd", "read_size", "write", "v_empty"}
  \/ pc[rd] = "exit" /\ Connected(rd)

ReaderIn(rd) ==
  \/ pc[rd] \in {"connect", "p_full", "end_rd", "end_rd_sleep"}
  \/ ReaderHolds(rd)

WriterHolds(w) == pc[w] \in {"check_wr", "fill", "size", "v_full"}

Ended(w) == pc[w] \in {"end_wr", "return"} \cup Leaving

(* The reader has seen the page that ends the file. *)
SeenEnd(rd) ==
  \/ pc[rd] \in {"end_rd", "end_rd_sleep"}
  \/ pc[rd] \in {"write", "v_empty"} /\ num_symb[rd] = 0

One(b) == IF b THEN 1 ELSE 0

(* There is one token: EMPTY, FULL, the writer or the reader has it. *)
TokenAt(rd, w) ==
  /\ ReaderIn(rd) /\ Inside(w) =>
       val["EMPTY"] + val["FULL"] + One(WriterHolds(w)) + One(ReaderHolds(rd)) = 1
  /\ ReaderIn(rd) /\ pc[w] = "open" => val["EMPTY"] = 1
  /\ ReaderIn(rd) /\ pc[w] = "exit" /\ Connected(w) =>
       val["FULL"] = 0 /\ pc[rd] \in {"connect", "p_full"}
  /\ Inside(w) /\ pc[w] \notin {"open", "p_empty", "check_wr"} => pc[rd] # "connect"
  /\ \A v \in Writers : Inside(w) /\ pc[v] = "setval" /\ Live(v) => ~ReaderIn(rd)
  /\ SeenEnd(rd) /\ Met(w) => Ended(w)

(* The reader finds EMPTY posted when it closes the session. *)
ReaderEnd(rd) ==
  pc[rd] \in {"end_rd", "end_rd_sleep"} /\ Live(rd) => val["EMPTY"] > 0

Token(rd) == ReaderEnd(rd) /\ \A w \in Writers : TokenAt(rd, w)

-----------------------------------------------------------------------------
(* The contents. *)

Got(rd) == Len(out[rd])

(* The reader's copy so far, and what it is about to append, are w's. *)
Good(rd, w) ==
  /\ Got(rd) \in 0..FileLen
  /\ \A i \in 1..Got(rd) : out[rd][i] = Chunk(w, i)
  /\ pc[rd] = "read_size" =>
       /\ att[rd] \in Proc
       /\ IF page[att[rd]].size = 1
            THEN Got(rd) < FileLen /\ page[att[rd]].data = Chunk(w, Got(rd) + 1)
            ELSE Got(rd) = FileLen
  /\ pc[rd] = "write" =>
       IF num_symb[rd] = 1
         THEN Got(rd) < FileLen /\ page[att[rd]].data = Chunk(w, Got(rd) + 1)
         ELSE Got(rd) = FileLen
  /\ pc[rd] = "v_empty" /\ num_symb[rd] = 0 => Got(rd) = FileLen
  /\ pc[rd] \in {"end_rd", "end_rd_sleep", "unlink_shm", "return"} => Got(rd) = FileLen
  /\ status[rd] = "success" => Got(rd) = FileLen

Nothing(rd) ==
  /\ out[rd] = <<>>
  /\ pc[rd] \notin {"read_size", "write", "v_empty", "end_rd", "end_rd_sleep",
                    "unlink_shm", "return"}
  /\ status[rd] # "success"

Copy(rd) ==
  /\ Nothing(rd) \/ \E w \in Writers : Good(rd, w)
  /\ \A w \in Writers : Met(w) => Good(rd, w)
  /\ \A w \in Writers : status[w] = "success" \/ Ended(w) => out[rd] = File(w)

(* The segment m holds what w has read last and the reader not yet printed. *)
Ahead(rd, w, m) ==
  IF num_symb[w] = 1
    THEN pos[w] = Got(rd) + 1 /\ page[m].data = Chunk(w, Got(rd) + 1)
    ELSE pos[w] = Got(rd) /\ Got(rd) = FileLen

TransferAt(rd, w) ==
  /\ pc[w] \in Before \cup {"open"} => pos[w] = 0
  /\ pc[w] = "fill" => pos[w] = Got(rd)
  /\ pc[w] \in {"size", "v_full"} => Ahead(rd, w, att[w])
  /\ pc[w] = "v_full" => page[att[w]].size = num_symb[w]
  /\ Ended(w) => num_symb[w] = 0
  /\ Inside(w) /\ ReaderIn(rd) =>
       /\ val["EMPTY"] = 1 \/ pc[w] = "check_wr" => pos[w] = Got(rd)
       /\ val["FULL"] = 1 \/ pc[rd] \in {"check_rd", "read_size", "write"} =>
            Ahead(rd, w, att[rd]) /\ page[att[rd]].size = num_symb[w]
       /\ pc[rd] \in {"write", "v_empty"} => num_symb[rd] = num_symb[w]
       /\ pc[rd] = "v_empty" => pos[w] = Got(rd)
       /\ val["FULL"] = 1 \/ ReaderHolds(rd) =>
            (pc[w] = "p_empty" => num_symb[w] = 1)

Transfer(rd) == \A w \in Writers : TransferAt(rd, w)

(* The reader uses the segment it has attached. *)
ReaderAttached(rd) == pc[rd] \in {"alone"} \cup Session => att[rd] \in Proc

(* Who is where, and with which semaphores and segment. *)
Base(rd) == /\ TypeInv /\ LockInv /\ NumInv
        /\ StatusInv /\ Handshake(rd) /\ Segments(rd) /\ ReaderAttached(rd)

PairInv(rd) == Base(rd) /\ Token(rd) /\ Copy(rd) /\ Transfer(rd)

LEMMA AttachedAct ==
  ASSUME NEW rd \in Readers, OnlyReader(rd), OnlyReader(rd)', TypeInv,
         ReaderAttached(rd), Segments(rd)', TypeInv', NEW p \in Proc, Act(p)
  PROVE  ReaderAttached(rd)'
<1>1. Step(p) /\ MemoryFrame(p) /\ rd \in Proc /\ pc \in [Proc -> Labels]
      /\ pc' \in [Proc -> Labels]
  BY ActsStep, ActsFrame, ReaderIs DEF TypeInv, TypeOK, Labels
<1> SUFFICES ASSUME pc'[rd] \in {"alone"} \cup Session PROVE att'[rd] \in Proc
    BY DEF ReaderAttached
<1>2. CASE p # rd
  BY <1>1, <1>2 DEF Step, MemoryFrame, ReaderAttached
<1>3. CASE p = rd /\ LinkShm(rd)
  <2>1. PreSync(rd)'
    BY <1>1, <1>3, LinkShmIs DEF PreSync, Early
  <2>2. att'[rd] = shmKey' /\ shmKey' # NoId
    BY <1>1, <1>3, <2>1, LinkShmIs DEF Segments, SameSegment, Kept
  <2>3. QED
    BY <2>2 DEF TypeInv, TypeOK
<1>4. CASE p = rd /\ ~LinkShm(rd)
  <2>1. /\ pc'[rd] # "done" /\ pc[rd] # "unlink_shm"
        /\ pc'[rd] = "alone" => pc[rd] = "link_shm"
    BY <1>1, <1>4 DEF Step, Flow, PrologueFlow, WriterFlow, ReaderFlow, Session
  <2>2. pc[rd] # "link_shm"
    BY <1>1, <1>4, <2>1, ReaderIs, ReaderAt
  <2>3. pc[rd] \in {"alone"} \cup Session
    BY <1>1, <1>4, <2>1, <2>2 DEF Step, Flow, PrologueFlow, WriterFlow, ReaderFlow, Session
  <2>4. att'[rd] = att[rd]
    BY <1>1, <1>4, <2>1, <2>2 DEF MemoryFrame
  <2>5. QED
    BY <2>3, <2>4 DEF ReaderAttached
<1>5. QED
  BY <1>2, <1>3, <1>4

LEMMA BaseAct ==
  ASSUME NEW rd \in Readers, OnlyReader(rd), OnlyReader(rd)', Base(rd),
         NEW p \in Proc, Act(p)
  PROVE  Base(rd)'
<1>1. Next
  BY SharmemAssumption DEF Act, Next
<1>2. TypeInv' /\ LockInv' /\ NumInv'
  BY <1>1, TypeStep, LockStep, NumStep DEF Base
<1>3. StatusInv' /\ Handshake(rd)'
  BY ActsStep, StatusStep, HandshakeAct DEF Base
<1>4. Segments(rd)'
  BY <1>3, SegmentsAct DEF Base
<1>5. ReaderAttached(rd)'
  BY <1>2, <1>4, AttachedAct DEF Base
<1>6. QED
  BY <1>2, <1>3, <1>4, <1>5 DEF Base

(* NUM_PROC tells who is in the loops. *)
LEMMA ConnectedAt ==
  ASSUME TypeInv, NumInv, NEW p \in Proc
  PROVE  /\ Connected(p) => pc[p] \in Loop \cup {"exit"}
         /\ Live(p) /\ pc[p] \in Loop => Connected(p)
<1>1. UndoAt(p) /\ pc[p] \in Labels
  BY DEF TypeInv, TypeOK, NumInv, Undo, Labels
<1>2. Live(p) /\ pc[p] \in Loop => Connected(p)
  BY <1>1 DEF UndoAt, Connected
<1>3. Connected(p) => pc[p] \in Loop \cup {"exit"}
  BY <1>1 DEF UndoAt, Connected, Before
<1>4. QED
  BY <1>2, <1>3

LEMMA WritersExclude ==
  ASSUME LockInv, NumInv, NEW v \in Writers, NEW w \in Writers,
         Connected(v), Connected(w)
  PROVE  v = w
<1>1. v \in Proc /\ w \in Proc /\ Lock(v) = "ALONE_WR" /\ Lock(w) = "ALONE_WR"
  BY SharmemAssumption DEF Lock
<1>2. Holds(v, "ALONE_WR") /\ Holds(w, "ALONE_WR")
  BY <1>1 DEF NumInv, Undo, UndoAt, Connected, Holds
<1>3. QED
  BY <1>1, <1>2 DEF LockInv, LockCount

(* Both ends are there when NUM_PROC is 2. *)
LEMMA TwoPeers ==
  ASSUME NEW rd \in Readers, OnlyReader(rd), TypeInv, LockInv, NumInv,
         semKey # NoId, val["NUM_PROC"] >= 2
  PROVE  /\ Connected(rd)
         /\ \E w \in Writers : Connected(w)
<1>0. \A p \in Proc : Connected(p) => p = rd \/ p \in Writers
  BY ReaderIs, ConnectedAt DEF Early, Loop, Session
<1>1. ~ \E q : Peers \subseteq {q}
  <2> SUFFICES ASSUME NEW q, Peers \subseteq {q} PROVE FALSE
      OBVIOUS
  <2>1. IsFiniteSet({q}) /\ Cardinality({q}) = 1
    BY FS_Singleton
  <2>2. Cardinality(Peers) <= 1 /\ Cardinality(Peers) \in Nat
    BY <2>1, FS_Subset, FS_CardinalityType
  <2>3. QED
    BY <2>2 DEF NumInv, Count
<1>2. \E w \in Writers : Connected(w)
  <2> SUFFICES ASSUME \A w \in Writers : ~Connected(w) PROVE Peers \subseteq {rd}
      BY <1>1
  <2>1. QED
    BY <1>0 DEF Peers
<1>3. Connected(rd)
  <2> SUFFICES ASSUME ~Connected(rd) PROVE FALSE
      OBVIOUS
  <2>1. PICK w \in Writers : Connected(w)
    BY <1>2
  <2>2. Peers \subseteq {w}
    BY <1>0, <2>1, WritersExclude DEF Peers
  <2>3. QED
    BY <1>1, <2>2
<1>4. QED
  BY <1>2, <1>3

-----------------------------------------------------------------------------
(* Token and Transfer, step by step. *)

LEMMA OtherPos ==
  ASSUME TypeInv, NEW p \in Proc, Act(p), NEW w \in Writers, w # p
  PROVE  pos'[w] = pos[w]
<1>1. pos' = pos \/ (p \in Writers /\ Fill(p))
  BY ActsFrame DEF MemoryFrame
<1>2. Fill(p) => \/ pos' = pos
                 \/ pos' = [pos EXCEPT ![p] = IF pos[p] < FileLen THEN @ + 1 ELSE @]
  BY DEF Fill, IOError, Segfault, datavars
<1>3. QED
  BY <1>1, <1>2 DEF TypeInv, TypeOK

(* A writer that has not met the reader has read nothing. *)
LEMMA UnmetStep ==
  ASSUME NEW rd \in Readers, Base(rd), NEW p \in Proc, Act(p), NEW w \in Writers,
         TransferAt(rd, w), ~Met(w)'
  PROVE  TokenAt(rd, w)' /\ TransferAt(rd, w)'
<1>1. /\ Step(p) /\ w \in Proc /\ w \notin Readers /\ pc \in [Proc -> Labels]
      /\ pos' = pos \/ Fill(p)
  BY ActsStep, ActsFrame, SharmemAssumption DEF Base, TypeInv, TypeOK, Labels, MemoryFrame
<1>2. TokenAt(rd, w)'
  BY DEF TokenAt, Met, Inside, WLoop
<1>3. pc'[w] \in Before => pc[w] \in Before
  BY <1>1 DEF Step, Flow, PrologueFlow, WriterFlow, ReaderFlow, Before, Labels, Loop,
              Late, Session, Early
<1>4. pc'[w] \in Before => pos'[w] = 0
  <2>1. CASE p # w
    BY <1>3, <2>1, OtherPos DEF Base, TransferAt
  <2>2. CASE p = w /\ pc'[w] \in Before
    <3>1. ~Fill(w)
      BY <1>1, <1>3, <2>2
      DEF Fill, Go, IOError, Segfault, Before, Labels, Loop, Session
    <3>2. QED
      BY <1>1, <1>3, <2>2, <3>1 DEF TransferAt
  <2>3. QED
    BY <2>1, <2>2
<1>5. TransferAt(rd, w)'
  BY <1>4 DEF TransferAt, Met, Inside, WLoop, Ended
<1>6. QED
  BY <1>2, <1>5

(* What a step of another process leaves alone for the pair. *)
Still(rd, w) ==
  /\ pc'[w] = pc[w] /\ num_symb'[w] = num_symb[w] /\ att'[w] = att[w] /\ pos'[w] = pos[w]
  /\ pc'[rd] = pc[rd] /\ num_symb'[rd] = num_symb[rd] /\ att'[rd] = att[rd] /\ out' = out
  /\ val'["EMPTY"] = val["EMPTY"]
  /\ (Connected(w)' <=> Connected(w)) /\ (Connected(rd)' <=> Connected(rd))
  /\ page'[att[rd]] = page[att[rd]] \/ att[rd] = NoId
  /\ page'[att[w]] = page[att[w]] \/ att[w] = NoId

LEMMA WriterStill ==
  ASSUME NEW rd \in Readers, OnlyReader(rd), OnlyReader(rd)', Base(rd), Base(rd)',
         NEW p \in Writers, Act(p), NEW w \in Writers, p # w, Met(w), semKey # NoId
  PROVE  /\ Still(rd, w) /\ semKey' = semKey /\ ~Inside(p) /\ ~Inside(p)'
         /\ \/ val'["FULL"] = val["FULL"]
            \/ pc[p] = "setval" /\ Live(p) /\ val'["FULL"] = 0
<1>1. /\ p \in Proc /\ w \in Proc /\ rd \in Proc /\ p # rd /\ w # rd
      /\ TypeInv /\ LockInv /\ NumInv /\ Handshake(rd) /\ Handshake(rd)' /\ p \notin Readers
  BY ReaderIs, SharmemAssumption DEF Base
<1>2. Step(p) /\ MemoryFrame(p) /\ SemFrame(p)
  BY <1>1, ActsStep, ActsFrame, ActsSem
<1>3. ~Met(p) /\ ~Inside(p)
  BY <1>1 DEF Handshake, Met
<1>4. ~(WriterConnect(p) /\ Live(p))
  <2> SUFFICES ASSUME WriterConnect(p), Live(p) PROVE FALSE
      OBVIOUS
  <2>1. val["SYNC_WR"] = 1
    BY <1>1, WriterConnectEffect DEF Handshake, Refused
  <2>2. QED
    BY <1>1, <2>1 DEF Handshake
<1>5. ~Met(p)'
  BY <1>1, <1>3, <1>4, MetStep
<1>6. ~DeleteSem(p) /\ ~VFull(p) /\ ~PEmpty(p) /\ ~Fill(p) /\ ~Size(p) /\ ~Connected(p)
  BY <1>3 DEF DeleteSem, delete_sem, VFull, PEmpty, Semop, Fill, Size, IOError, Segfault, Go,
              Met, Inside, WLoop, Leaving
<1>7. semKey' = semKey
  BY <1>1, <1>2, <1>6, NewSet DEF MemoryFrame
<1>8. val'["EMPTY"] = val["EMPTY"]
  BY <1>1, <1>2, <1>6 DEF SemFrame
<1>9. \/ val'["FULL"] = val["FULL"]
      \/ pc[p] = "setval" /\ Live(p) /\ val'["FULL"] = 0
  <2>1. SetFull(p) => \/ val'["FULL"] = val["FULL"]
                      \/ pc[p] = "setval" /\ Live(p) /\ val'["FULL"] = 0
    <3> SUFFICES ASSUME SetFull(p)
                 PROVE  \/ val'["FULL"] = val["FULL"]
                        \/ pc[p] = "setval" /\ Live(p) /\ val'["FULL"] = 0
        OBVIOUS
    <3>1. SetVal(p, "setval", "sync", "FULL", 0) /\ "FULL" \in SEM /\ UNCHANGED datavars
      BY DEF SetFull, SEM
    <3>2. QED
      BY <1>1, <3>1, SetValEffect DEF Refused, semvars
  <2>2. QED
    BY <1>1, <1>2, <1>6, <2>1 DEF SemFrame
<1>10. /\ Connected(w)' <=> Connected(w)
       /\ Connected(rd)' <=> Connected(rd)
  BY <1>1, <1>2, <1>7 DEF SemFrame
<1>11. \A q \in {w, rd} : page'[att[q]] = page[att[q]] \/ att[q] = NoId
  <2>1. CASE page' = page
    BY <2>1
  <2>2. CASE CreateShm(p) /\ page' # page
    <3>1. pc[p] = "create_shm" /\ \A m \in Proc : m # p => page'[m] = page[m]
      BY <1>1, <2>2, CreateShmIs
    <3>2. \A q \in Proc : att[q] # p
      BY <1>1, <3>1 DEF Base, Segments, SegmentFresh
    <3>3. att[w] \in Proc \cup {NoId} /\ att[rd] \in Proc \cup {NoId}
      BY <1>1 DEF TypeInv, TypeOK
    <3>4. QED
      BY <1>1, <3>1, <3>2, <3>3
  <2>3. QED
    BY <1>2, <1>6, <2>1, <2>2 DEF MemoryFrame
<1>12. out' = out /\ pos'[w] = pos[w]
  BY <1>1, <1>2, OtherPos DEF MemoryFrame
<1>13. Still(rd, w)
  BY <1>1, <1>2, <1>8, <1>10, <1>11, <1>12 DEF Still, Step, MemoryFrame
<1>14. ~Inside(p)'
  BY <1>5 DEF Met
<1>15. QED
  BY <1>3, <1>7, <1>9, <1>13, <1>14

LEMMA ReaderStill ==
  ASSUME NEW rd \in Readers, OnlyReader(rd), OnlyReader(rd)', Base(rd), Base(rd)',
         NEW p \in Proc, Act(p), p # rd, p \notin Writers, NEW w \in Writers,
         Met(w), semKey # NoId
  PROVE  /\ Still(rd, w) /\ semKey' = semKey /\ ~Inside(p) /\ ~Inside(p)'
         /\ val'["FULL"] = val["FULL"]
<1>1. /\ w \in Proc /\ rd \in Proc /\ p # w /\ TypeInv /\ NoId \notin Proc
      /\ Step(p) /\ MemoryFrame(p) /\ SemFrame(p)
  BY ReaderIs, ActsStep, ActsFrame, ActsSem, SharmemAssumption, ProcAssumption DEF Base
<1>2. /\ val' = val /\ UNCHANGED datavars
      /\ pc[p] \in Early /\ pc'[p] \in Early
      /\ CreateSem(p) \/ CreateShm(p) \/ LinkShm(p)
  BY <1>1, OtherReader
<1>3. semKey' = semKey
  BY <1>2 DEF CreateSem, create_sem, CreateShm, create_shm, LinkShm, link_shm, semvars
<1>4. /\ pc'[w] = pc[w] /\ att'[w] = att[w] /\ pc'[rd] = pc[rd] /\ att'[rd] = att[rd]
      /\ Connected(w)' <=> Connected(w)
      /\ Connected(rd)' <=> Connected(rd)
  BY <1>1, <1>3 DEF Step, MemoryFrame, SemFrame
<1>5. \A q \in {w, rd} : page'[att[q]] = page[att[q]] \/ att[q] = NoId
  <2>1. CASE page' = page
    BY <2>1
  <2>2. CASE CreateShm(p)
    <3>1. pc[p] = "create_shm" /\ \A m \in Proc : m # p => page'[m] = page[m]
      BY <1>1, <2>2, CreateShmIs
    <3>2. \A q \in Proc : att[q] # p /\ att[q] \in Proc \cup {NoId}
      BY <1>1, <3>1 DEF Base, Segments, SegmentFresh, TypeInv, TypeOK
    <3>3. QED
      BY <1>1, <3>1, <3>2
  <2>3. QED
    BY <1>2, <2>1, <2>2 DEF CreateSem, create_sem, LinkShm, link_shm, shmvars
<1>6. Still(rd, w)
  BY <1>2, <1>4, <1>5 DEF Still, datavars
<1>7. QED
  BY <1>2, <1>3, <1>6 DEF Inside, WLoop, Leaving, Early

(* Whatever another process does, the pair does not notice. *)
LEMMA AsideStill ==
  ASSUME NEW rd \in Readers, OnlyReader(rd), OnlyReader(rd)', Base(rd), Base(rd)',
         NEW p \in Proc, Act(p), p # rd, NEW w \in Writers, p # w, Met(w),
         semKey # NoId
  PROVE  /\ Still(rd, w) /\ semKey' = semKey /\ ~Inside(p) /\ ~Inside(p)'
         /\ \/ val'["FULL"] = val["FULL"]
            \/ p \in Writers /\ pc[p] = "setval" /\ Live(p) /\ val'["FULL"] = 0
BY WriterStill, ReaderStill

(* The segment that the pair uses. *)
LEMMA PairAttached ==
  ASSUME NEW rd \in Readers, OnlyReader(rd), Base(rd), NEW w \in Writers
  PROVE  /\ pc[w] \in {"size", "v_full"} => att[w] \in Proc
         /\ pc[rd] \in Session => att[rd] \in Proc
         /\ pc[w] \in WLoop /\ pc[rd] \in Session => att[w] = att[rd]
<1>1. w \in Proc /\ rd \in Proc /\ shmKey \in Proc \cup {NoId}
  BY ReaderIs, SharmemAssumption DEF Base, TypeInv, TypeOK
<1>2. pc[w] \in WLoop => Kept(rd) /\ pc[w] \in Session
  BY DEF Kept, WLoop, Session
<1>3. QED
  BY <1>1, <1>2
  DEF Base, Segments, SameSegment, TypeInv, Attached, ReaderAttached, WLoop

-----------------------------------------------------------------------------
(* A step of another process: a writer that has not met the reader, another reader. *)

LEMMA OneToken ==
  ASSUME NEW rd \in Readers, Base(rd), NEW w \in Writers, TokenAt(rd, w),
         ReaderIn(rd), Inside(w)
  PROVE  \/ val["EMPTY"] = 1 /\ val["FULL"] = 0 /\ ~WriterHolds(w) /\ ~ReaderHolds(rd)
         \/ val["EMPTY"] = 0 /\ val["FULL"] = 1 /\ ~WriterHolds(w) /\ ~ReaderHolds(rd)
         \/ val["EMPTY"] = 0 /\ val["FULL"] = 0 /\ WriterHolds(w) /\ ~ReaderHolds(rd)
         \/ val["EMPTY"] = 0 /\ val["FULL"] = 0 /\ ~WriterHolds(w) /\ ReaderHolds(rd)
<1>1. val["EMPTY"] \in Nat /\ val["FULL"] \in Nat
  BY DEF Base, TypeInv, TypeOK, SEM
<1>2. val["EMPTY"] + val["FULL"] + One(WriterHolds(w)) + One(ReaderHolds(rd)) = 1
  BY DEF TokenAt
<1>3. /\ One(WriterHolds(w)) = IF WriterHolds(w) THEN 1 ELSE 0
      /\ One(ReaderHolds(rd)) = IF ReaderHolds(rd) THEN 1 ELSE 0
  BY DEF One
<1>4. QED
  BY <1>1, <1>2, <1>3

(* While nobody is counted the reader cannot be at the page. *)
LEMMA NobodyIn ==
  ASSUME NEW rd \in Readers, OnlyReader(rd), Base(rd), NEW w \in Writers,
         TokenAt(rd, w), Inside(w), val["NUM_PROC"] = 0
  PROVE  ~ReaderIn(rd)
<1>1. w \in Proc /\ rd \in Proc /\ Live(w) /\ Live(rd)
  BY ReaderIs, SharmemAssumption DEF Base, Handshake, Met, Live
<1>2. ~Connected(w) /\ ~Connected(rd)
  BY <1>1, CountedOne DEF Base, NumInv
<1>3. pc[w] \notin Loop /\ pc[rd] \notin Loop
  BY <1>1, <1>2, ConnectedAt DEF Base
<1>4. pc[w] \notin {"open", "p_empty", "check_wr"}
  BY <1>3 DEF Loop, Session
<1>5. pc[rd] # "connect"
  BY <1>4 DEF TokenAt
<1>6. QED
  BY <1>2, <1>3, <1>5 DEF ReaderIn, ReaderHolds, Loop, Session

LEMMA AsideToken ==
  ASSUME NEW rd \in Readers, OnlyReader(rd), OnlyReader(rd)', Base(rd), Base(rd)',
         NEW p \in Proc, Act(p), p # rd, NEW w \in Writers, p # w, Met(w),
         semKey # NoId, TokenAt(rd, w)
  PROVE  TokenAt(rd, w)'
<1>1. /\ Still(rd, w) /\ semKey' = semKey /\ ~Inside(p) /\ ~Inside(p)'
      /\ \/ val'["FULL"] = val["FULL"]
         \/ p \in Writers /\ pc[p] = "setval" /\ Live(p) /\ val'["FULL"] = 0
  BY AsideStill
<1>2. /\ ReaderIn(rd)' <=> ReaderIn(rd)
      /\ ReaderHolds(rd)' <=> ReaderHolds(rd)
      /\ Inside(w)' <=> Inside(w)
      /\ WriterHolds(w)' <=> WriterHolds(w)
      /\ SeenEnd(rd)' <=> SeenEnd(rd)
      /\ Ended(w)' <=> Ended(w)
      /\ Met(w)' => Met(w)
  BY <1>1 DEF Still, ReaderIn, ReaderHolds, Inside, WriterHolds, SeenEnd, Ended, Met
<1>3. ReaderIn(rd)' /\ Inside(w)' => val'["FULL"] = val["FULL"]
  BY <1>1, <1>2 DEF TokenAt
<1>4. ReaderIn(rd)' /\ Inside(w)' =>
        val'["EMPTY"] + val'["FULL"] + One(WriterHolds(w)') + One(ReaderHolds(rd)') = 1
  BY <1>1, <1>2, <1>3 DEF TokenAt, One, Still
<1>5. ReaderIn(rd)' /\ pc'[w] = "open" => val'["EMPTY"] = 1
  BY <1>1, <1>2 DEF TokenAt, Still
<1>6. ReaderIn(rd)' /\ pc'[w] = "exit" /\ Connected(w)' =>
        val'["FULL"] = 0 /\ pc'[rd] \in {"connect", "p_full"}
  BY <1>1, <1>2 DEF TokenAt, Still
<1>7. Inside(w)' /\ pc'[w] \notin {"open", "p_empty", "check_wr"} => pc'[rd] # "connect"
  BY <1>1, <1>2 DEF TokenAt, Still
<1>8. ASSUME NEW v \in Writers, Inside(w)', pc'[v] = "setval", Live(v)'
      PROVE  ~ReaderIn(rd)'
  <2>1. p \in Proc /\ v \in Proc /\ Step(p) /\ MemoryFrame(p) /\ TypeInv
    BY ActsStep, ActsFrame, SharmemAssumption DEF Base
  <2>2. CASE v # p
    <3>1. pc[v] = "setval" /\ Live(v)
      BY <1>1, <1>8, <2>1, <2>2 DEF Step, MemoryFrame, Live
    <3>2. QED
      BY <1>2, <1>8, <3>1 DEF TokenAt
  <2>3. CASE v = p
    <3>1. pc[p] = "wait_prev_connect"
      BY <1>8, <2>1, <2>3 DEF Step, Flow, PrologueFlow, WriterFlow, ReaderFlow
    <3>2. WaitPrevConnect(p) /\ pc'[p] # "exit"
      BY <1>8, <2>1, <2>3, <3>1, WriterAt
    <3>3. val["NUM_PROC"] = 0
      BY <2>1, <3>2, WaitPrevConnectEffect DEF Refused, TypeInv, TypeOK
    <3>4. QED
      BY <1>2, <1>8, <3>3, NobodyIn
  <2>4. QED
    BY <2>2, <2>3
<1>9. SeenEnd(rd)' /\ Met(w)' => Ended(w)'
  BY <1>2 DEF TokenAt
<1>10. QED
  BY <1>4, <1>5, <1>6, <1>7, <1>8, <1>9 DEF TokenAt

LEMMA AsideTransfer ==
  ASSUME NEW rd \in Readers, OnlyReader(rd), OnlyReader(rd)', Base(rd), Base(rd)',
         NEW p \in Proc, Act(p), p # rd, NEW w \in Writers, p # w, Met(w),
         semKey # NoId, TokenAt(rd, w), TransferAt(rd, w)
  PROVE  TransferAt(rd, w)'
<1>1. /\ Still(rd, w)
      /\ \/ val'["FULL"] = val["FULL"]
         \/ p \in Writers /\ pc[p] = "setval" /\ Live(p) /\ val'["FULL"] = 0
  BY AsideStill
<1>2. /\ ReaderIn(rd)' <=> ReaderIn(rd)
      /\ ReaderHolds(rd)' <=> ReaderHolds(rd)
      /\ Inside(w)' <=> Inside(w)
      /\ Ended(w)' <=> Ended(w)
      /\ Got(rd)' = Got(rd)
  BY <1>1 DEF Still, ReaderIn, ReaderHolds, Inside, Ended, Got
<1>3. ReaderIn(rd)' /\ Inside(w)' => val'["FULL"] = val["FULL"]
  BY <1>1, <1>2 DEF TokenAt
<1>4. NoId \notin Proc
  BY ProcAssumption
<1>5. /\ pc[w] \in {"size", "v_full"} =>
           page'[att'[w]] = page[att[w]]
      /\ pc[rd] \in Session => page'[att'[rd]] = page[att[rd]]
  BY <1>1, <1>4, PairAttached DEF Still
<1>6. pc'[w] \in {"size", "v_full"} => Ahead(rd, w, att[w])'
  BY <1>1, <1>2, <1>5 DEF TransferAt, Ahead, Still
<1>7. pc'[w] = "v_full" => page'[att'[w]].size = num_symb'[w]
  BY <1>1, <1>2, <1>5 DEF TransferAt, Still
<1>8. ASSUME Inside(w)', ReaderIn(rd)', val'["FULL"] = 1 \/ pc'[rd] \in {"check_rd", "read_size", "write"}
      PROVE  Ahead(rd, w, att[rd])' /\ page'[att'[rd]].size = num_symb'[w]
  <2>1. Ahead(rd, w, att[rd]) /\ page[att[rd]].size = num_symb[w]
    BY <1>1, <1>2, <1>3, <1>8 DEF TransferAt, Still
  <2>2. pc[rd] \in Session
    <3>1. CASE pc[rd] \in {"check_rd", "read_size", "write"}
      BY <3>1 DEF Session
    <3>2. CASE pc[rd] \notin {"check_rd", "read_size", "write"}
      <4>1. val["FULL"] = 1
        BY <1>1, <1>2, <1>3, <1>8, <3>2 DEF Still
      <4>2. ~ReaderHolds(rd)
        BY <1>2, <1>8, <4>1, OneToken
      <4>3. QED
        BY <1>2, <1>8, <4>2 DEF ReaderIn, Session
    <3>3. QED
      BY <3>1, <3>2
  <2>3. QED
    BY <1>1, <1>2, <1>5, <2>1, <2>2 DEF Ahead, Still
<1>9. ASSUME Inside(w)', ReaderIn(rd)'
      PROVE  /\ val'["EMPTY"] = 1 \/ pc'[w] = "check_wr" => pos'[w] = Got(rd)'
             /\ pc'[rd] \in {"write", "v_empty"} => num_symb'[rd] = num_symb'[w]
             /\ pc'[rd] = "v_empty" => pos'[w] = Got(rd)'
             /\ val'["FULL"] = 1 \/ ReaderHolds(rd)' =>
                  (pc'[w] = "p_empty" => num_symb'[w] = 1)
  BY <1>1, <1>2, <1>3, <1>9 DEF TransferAt, Still
<1>10. /\ pc'[w] \in Before \cup {"open"} => pos'[w] = 0
       /\ pc'[w] = "fill" => pos'[w] = Got(rd)'
       /\ Ended(w)' => num_symb'[w] = 0
  BY <1>1, <1>2 DEF TransferAt, Still
<1>11. QED
  BY <1>6, <1>7, <1>8, <1>9, <1>10 DEF TransferAt

(* A writer that has returned all but ends the session. *)
LEMMA ReturnedStep ==
  ASSUME NEW rd \in Readers, OnlyReader(rd), OnlyReader(rd)', Base(rd), Base(rd)',
         NEW p \in Proc, Act(p), NEW w \in Writers, p # w, pc[w] = "return",
         TransferAt(rd, w)
  PROVE  TokenAt(rd, w)' /\ TransferAt(rd, w)'
<1>1. w \in Proc /\ Step(p) /\ MemoryFrame(p)
  BY ActsStep, ActsFrame, SharmemAssumption DEF Base
<1>2. pc'[w] = "return" /\ num_symb'[w] = num_symb[w] /\ num_symb[w] = 0
  BY <1>1 DEF Step, MemoryFrame, TransferAt, Ended
<1>3. TokenAt(rd, w)'
  BY <1>2 DEF TokenAt, Inside, Ended, WLoop, Leaving
<1>4. TransferAt(rd, w)'
  BY <1>2 DEF TransferAt, Inside, Ended, WLoop, Leaving, Before, Labels, Loop, Late, Session, Early
<1>5. QED
  BY <1>3, <1>4

LEMMA AsideStep ==
  ASSUME NEW rd \in Readers, OnlyReader(rd), OnlyReader(rd)', Base(rd), Base(rd)',
         NEW p \in Proc, Act(p), p # rd, NEW w \in Writers, p # w, Met(w),
         TokenAt(rd, w), TransferAt(rd, w)
  PROVE  TokenAt(rd, w)' /\ TransferAt(rd, w)'
<1>1. p \in Proc
  BY SharmemAssumption
<1>2. CASE semKey # NoId
  BY <1>2, AsideToken, AsideTransfer
<1>3. CASE semKey = NoId
  <2>1. ~Live(w)
    BY <1>3 DEF Live
  <2>2. pc[w] = "return"
    BY <2>1 DEF Met, Connected, Base, Handshake
  <2>3. QED
    BY <1>1, <2>2, ReturnedStep
<1>4. QED
  BY <1>2, <1>3

-----------------------------------------------------------------------------
(* A step of the writer that has met the reader. *)

LEMMA OwnFrame ==
  ASSUME NEW rd \in Readers, OnlyReader(rd), OnlyReader(rd)', Base(rd),
         NEW w \in Writers, Act(w), semKey' = semKey
  PROVE  /\ pc'[rd] = pc[rd] /\ num_symb'[rd] = num_symb[rd] /\ att'[rd] = att[rd]
         /\ out' = out /\ Got(rd)' = Got(rd)
         /\ ReaderIn(rd)' <=> ReaderIn(rd)
         /\ ReaderHolds(rd)' <=> ReaderHolds(rd)
         /\ SeenEnd(rd)' <=> SeenEnd(rd)
<1>1. /\ w \in Proc /\ rd \in Proc /\ w # rd /\ w \notin Readers
      /\ Step(w) /\ MemoryFrame(w) /\ SemFrame(w)
  BY ReaderIs, ActsStep, ActsFrame, ActsSem, SharmemAssumption DEF Base
<1>2. /\ pc'[rd] = pc[rd] /\ num_symb'[rd] = num_symb[rd] /\ att'[rd] = att[rd]
      /\ out' = out /\ (Connected(rd)' <=> Connected(rd))
  BY <1>1 DEF Step, MemoryFrame, SemFrame
<1>3. QED
  BY <1>2 DEF Got, ReaderIn, ReaderHolds, SeenEnd

LEMMA OwnSetval ==
  ASSUME NEW rd \in Readers, OnlyReader(rd), OnlyReader(rd)', Base(rd),
         NEW w \in Writers, Act(w), semKey' = semKey, Inside(w), TokenAt(rd, w),
         NEW v \in Writers, Inside(w)', pc'[v] = "setval", Live(v)'
  PROVE  ~ReaderIn(rd)'
<1>1. v \in Proc /\ w \in Proc /\ Step(w) /\ MemoryFrame(w)
  BY ActsStep, ActsFrame, SharmemAssumption DEF Base
<1>2. v # w
  BY DEF Inside, WLoop, Leaving
<1>3. pc[v] = "setval" /\ Live(v)
  BY <1>1, <1>2 DEF Step, MemoryFrame, Live
<1>4. QED
  BY <1>3, OwnFrame DEF TokenAt

(* connect *)
LEMMA OwnConnect ==
  ASSUME NEW rd \in Readers, OnlyReader(rd), OnlyReader(rd)', Base(rd), Base(rd)',
         NEW w \in Writers, Act(w), WriterConnect(w), Live(w), TransferAt(rd, w)
  PROVE  TokenAt(rd, w)' /\ TransferAt(rd, w)'
<1>1. /\ w \in Proc /\ val["SYNC_WR"] \in {0, 1}
      /\ pc \in [Proc -> Labels] /\ rd \in Proc /\ w # rd
  BY ReaderIs, SharmemAssumption DEF Base, Handshake, TypeInv, TypeOK, Labels
<1>2. /\ pc[w] = "connect" /\ val["SYNC_WR"] > 0 /\ Moves(w, "open")
      /\ val'["FULL"] = val["FULL"] /\ val'["EMPTY"] = val["EMPTY"]
  BY WriterConnectEffect DEF Base, Refused, SEM
<1>3. val["SYNC_WR"] = 1
  BY <1>1, <1>2
<1>4. /\ val["FULL"] = 0 /\ Got(rd) = 0
      /\ pc[rd] \in {"connect", "p_full", "done"}
      /\ pc[rd] # "done" => val["EMPTY"] = 1
  BY <1>3 DEF Base, Handshake, Got
<1>5. pc'[rd] = pc[rd] /\ pc'[w] = "open" /\ pos' = pos /\ Got(rd)' = Got(rd) /\ semKey' = semKey
      /\ semId' = semId
  BY <1>1, <1>2 DEF Moves, datavars, Got
<1>6. ReaderIn(rd)' => pc[rd] \in {"connect", "p_full"}
  BY <1>4, <1>5 DEF ReaderIn, ReaderHolds
<1>7. ~ReaderHolds(rd)' /\ ~WriterHolds(w)' /\ ~SeenEnd(rd)'
  BY <1>4, <1>5 DEF ReaderHolds, WriterHolds, SeenEnd
<1>8. ASSUME NEW v \in Writers, pc'[v] = "setval", Live(v)'
      PROVE  FALSE
  <2>1. v # w /\ v \in Proc /\ Step(w)
    BY <1>1, <1>5, <1>8, ActsStep, SharmemAssumption DEF Base
  <2>2. InSession(v) /\ InSession(w)
    BY <1>2, <1>5, <1>8, <2>1 DEF InSession, Live, Session, Step
  <2>3. Lock(v) = "ALONE_WR" /\ Lock(w) = "ALONE_WR"
    BY DEF Lock
  <2>4. Holds(v, "ALONE_WR") /\ Holds(w, "ALONE_WR")
    BY <1>1, <2>1, <2>2, <2>3 DEF Base, LockInv, Adjustments, Holds, InSession
  <2>5. QED
    BY <1>1, <2>1, <2>4 DEF Base, LockInv, LockCount
<1>9. TokenAt(rd, w)'
  BY <1>2, <1>4, <1>5, <1>6, <1>7, <1>8 DEF TokenAt, One
<1>10. pos'[w] = 0
  BY <1>2, <1>5 DEF TransferAt, Before, Labels, Loop, Late, Session, Early
<1>11. pc'[rd] \notin {"check_rd", "read_size", "write", "v_empty"}
  BY <1>4, <1>5
<1>12. TransferAt(rd, w)'
  BY <1>2, <1>4, <1>5, <1>7, <1>10, <1>11 DEF TransferAt, Ended, Leaving
<1>13. QED
  BY <1>9, <1>12

(* A call of the loop fails. *)
LEMMA OwnExit ==
  ASSUME NEW rd \in Readers, OnlyReader(rd), OnlyReader(rd)', Base(rd), Base(rd)',
         NEW w \in Writers, Act(w), pc'[w] = "exit", Met(w)', Met(w),
         TokenAt(rd, w), TransferAt(rd, w)
  PROVE  TokenAt(rd, w)' /\ TransferAt(rd, w)'
<1>1. /\ w \in Proc /\ Step(w) /\ SemFrame(w) /\ MemoryFrame(w)
      /\ pc \in [Proc -> Labels] /\ TypeInv
  BY ActsStep, ActsSem, ActsFrame, SharmemAssumption DEF Base, TypeInv, TypeOK, Labels
<1>2. pc[w] # "connect"
  BY <1>1, ConnectedAt DEF Met, Inside, WLoop, Leaving, Base, Loop
<1>3. Connected(w)' /\ Connected(w)
  BY <1>1, <1>2 DEF Met, Inside, WLoop, Leaving, SemFrame, WriterConnect, ReaderConnect, Semop
<1>4. pc[w] \in Loop /\ pc[w] \in WLoop /\ Live(w)
  <2>1. pc[w] \in Loop /\ Live(w)
    BY <1>1, <1>3, ConnectedAt DEF Base, Connected, Step, Flow
  <2>2. QED
    BY <1>1, <2>1 DEF Base, StatusInv, Loop, Session, WLoop
<1>5. ~Refused(w)
  BY <1>4 DEF Refused
<1>6. pc[w] \in {"open", "check_wr", "fill"}
  <2>1. /\ pc[w] = "p_empty" => PEmpty(w)
        /\ pc[w] = "size" => Size(w)
        /\ pc[w] = "v_full" => VFull(w)
        /\ pc[w] = "end_wr" => EndWr(w)
    BY <1>1, WriterAt
  <2>2. pc[w] # "size"
    BY <1>1, <2>1 DEF Size, Go
  <2>3. pc[w] \notin {"p_empty", "v_full", "end_wr"}
    BY <1>1, <1>5, <2>1, PEmptyEffect, VFullEffect, EndWrEffect DEF Moves
  <2>4. QED
    BY <1>4, <2>2, <2>3 DEF WLoop
<1>7. /\ val'["EMPTY"] = val["EMPTY"] /\ val'["FULL"] = val["FULL"] /\ semKey' = semKey
  BY <1>1, <1>6, SharmemAssumption
  DEF SemFrame, MemoryFrame, CreateSem, create_sem, SetFull, SetVal, VFull, PEmpty, Semop, Go,
      DeleteSem, delete_sem
<1>8. /\ pc'[rd] = pc[rd]
      /\ ReaderIn(rd)' <=> ReaderIn(rd)
      /\ ReaderHolds(rd)' <=> ReaderHolds(rd)
      /\ SeenEnd(rd)' <=> SeenEnd(rd)
  BY <1>7, OwnFrame
<1>9. Inside(w) /\ ~Ended(w) /\ ~SeenEnd(rd)
  BY <1>6 DEF Inside, WLoop, Ended, Leaving, TokenAt, Met
<1>10. ReaderIn(rd) => val["FULL"] = 0 /\ ~ReaderHolds(rd)
  BY <1>6, <1>9, OneToken DEF WriterHolds, TokenAt
<1>11. ReaderIn(rd) => pc[rd] \in {"connect", "p_full"}
  BY <1>9, <1>10 DEF ReaderIn, SeenEnd
<1>12. ~Inside(w)' /\ ~Ended(w)'
  BY DEF Inside, WLoop, Leaving, Ended
<1>13. TokenAt(rd, w)'
  BY <1>7, <1>8, <1>9, <1>10, <1>11, <1>12 DEF TokenAt
<1>14. TransferAt(rd, w)'
  BY <1>12 DEF TransferAt, Before, Labels, Loop, Late, Session, Early
<1>15. QED
  BY <1>13, <1>14

(* What holds at every call from "open" to "delete_shm". *)
LEMMA OwnAt ==
  ASSUME NEW rd \in Readers, OnlyReader(rd), OnlyReader(rd)', Base(rd), Base(rd)',
         NEW w \in Writers, Act(w),
         pc[w] \in WLoop \cup {"unlink_shm", "delete_shm"}, TokenAt(rd, w)
  PROVE  /\ w \in Proc /\ rd \in Proc /\ w # rd /\ w \notin Readers
         /\ Step(w) /\ SemFrame(w) /\ MemoryFrame(w)
         /\ TypeInv /\ pc \in [Proc -> Labels] /\ val \in [SEM -> Nat]
         /\ pos \in [Writers -> 0..FileLen] /\ num_symb \in [Proc -> {0, 1}]
         /\ Live(w) /\ ~Refused(w) /\ Inside(w) /\ Met(w) /\ semKey' = semKey
         /\ SeenEnd(rd) => Ended(w)
         /\ pc'[rd] = pc[rd] /\ num_symb'[rd] = num_symb[rd] /\ att'[rd] = att[rd]
         /\ Got(rd)' = Got(rd) /\ Got(rd) \in Nat
         /\ ReaderIn(rd)' <=> ReaderIn(rd)
         /\ ReaderHolds(rd)' <=> ReaderHolds(rd)
         /\ SeenEnd(rd)' <=> SeenEnd(rd)
<1>0. w \in Proc /\ rd \in Proc /\ w # rd /\ w \notin Readers /\ rd \in Readers
  BY ReaderIs, SharmemAssumption
<1>1. /\ w \in Proc /\ rd \in Proc /\ w # rd /\ w \notin Readers /\ rd \in Readers
      /\ Step(w) /\ SemFrame(w) /\ MemoryFrame(w)
      /\ TypeInv /\ pc \in [Proc -> Labels] /\ val \in [SEM -> Nat]
      /\ pos \in [Writers -> 0..FileLen] /\ num_symb \in [Proc -> {0, 1}]
      /\ out \in [Readers -> Seq(Pages \cup {NoData})]
  BY <1>0, ActsStep, ActsSem, ActsFrame DEF Base, TypeInv, TypeOK, Labels
<1>2. Inside(w) /\ Met(w) /\ Live(w)
  BY DEF Inside, Met, Leaving, Base, Handshake
<1>3. semKey' = semKey
  BY <1>1, WriterAt DEF MemoryFrame, CreateSem, create_sem, DeleteSem, delete_sem, Go, WLoop
<1>4. Got(rd) \in Nat
  BY <1>1 DEF Got
<1>5. QED
  BY <1>1, <1>2, <1>3, <1>4, OwnFrame DEF Refused, TokenAt

LEMMA OwnOpen ==
  ASSUME NEW rd \in Readers, OnlyReader(rd), OnlyReader(rd)', Base(rd), Base(rd)',
         NEW w \in Writers, Act(w), pc[w] = "open", pc'[w] \notin {"exit", "done"},
         TokenAt(rd, w), TransferAt(rd, w)
  PROVE  TokenAt(rd, w)' /\ TransferAt(rd, w)'
<1> USE DEF WLoop
<1>1. pc'[w] = "p_empty" /\ Open(w)
  BY OwnAt, WriterAt DEF Step, Flow, PrologueFlow, WriterFlow, ReaderFlow
<1>2. UNCHANGED <<semvars, shmvars, datavars>>
  BY <1>1 DEF Open, IOError
<1>3. val' = val /\ pos' = pos
  BY <1>2 DEF semvars, datavars
<1>4. Inside(w) /\ Inside(w)' /\ ~WriterHolds(w) /\ ~WriterHolds(w)' /\ ~Ended(w) /\ ~Ended(w)'
      /\ ~SeenEnd(rd)'
  BY <1>1, OwnAt DEF Inside, WriterHolds, Ended, Leaving
<1>5. ReaderIn(rd) => val["EMPTY"] = 1 /\ val["FULL"] = 0 /\ ~ReaderHolds(rd)
  BY <1>4, OneToken DEF TokenAt
<1>6. TokenAt(rd, w)'
  <2>1. \A v \in Writers : Inside(w)' /\ pc'[v] = "setval" /\ Live(v)' => ~ReaderIn(rd)'
    BY <1>4, OwnAt, OwnSetval
  <2>2. QED
    BY <1>1, <1>3, <1>4, <1>5, <2>1, OwnAt DEF TokenAt, One
<1>7. TransferAt(rd, w)'
  <2>1. ReaderIn(rd)' => /\ pos'[w] = Got(rd)'
                     /\ val'["FULL"] = 0 /\ ~ReaderHolds(rd)'
                     /\ pc'[rd] \notin {"check_rd", "read_size", "write", "v_empty"}
    BY <1>3, <1>4, <1>5, OwnAt DEF TransferAt, ReaderHolds
  <2>2. QED
    BY <1>1, <1>4, <2>1 DEF TransferAt, Before, Labels, Loop, Late, Session, Early
<1>8. QED
  BY <1>6, <1>7

LEMMA OwnPEmpty ==
  ASSUME NEW rd \in Readers, OnlyReader(rd), OnlyReader(rd)', Base(rd), Base(rd)',
         NEW w \in Writers, Act(w), pc[w] = "p_empty",
         pc'[w] \notin {"exit", "done"}, TokenAt(rd, w), TransferAt(rd, w)
  PROVE  TokenAt(rd, w)' /\ TransferAt(rd, w)'
<1> USE DEF WLoop
<1>1. pc'[w] = "check_wr" /\ PEmpty(w)
  BY OwnAt, WriterAt DEF Step, Flow, PrologueFlow, WriterFlow, ReaderFlow
<1>2. /\ val["EMPTY"] > 0 /\ val'["EMPTY"] = val["EMPTY"] - 1 /\ val'["FULL"] = val["FULL"]
      /\ pos' = pos
  BY <1>1, OwnAt, PEmptyEffect DEF Moves, datavars, SEM
<1>3. Inside(w) /\ Inside(w)' /\ WriterHolds(w)' /\ ~Ended(w) /\ ~Ended(w)' /\ ~SeenEnd(rd)'
  BY <1>1, OwnAt DEF Inside, WriterHolds, Ended, Leaving
<1>4. ReaderIn(rd) => val["EMPTY"] = 1 /\ val["FULL"] = 0 /\ ~ReaderHolds(rd)
  BY <1>2, <1>3, OneToken
<1>5. TokenAt(rd, w)'
  <2>1. \A v \in Writers : Inside(w)' /\ pc'[v] = "setval" /\ Live(v)' => ~ReaderIn(rd)'
    BY <1>3, OwnAt, OwnSetval
  <2>2. QED
    BY <1>1, <1>2, <1>3, <1>4, <2>1, OwnAt DEF TokenAt, One
<1>6. TransferAt(rd, w)'
  <2>1. ReaderIn(rd)' => /\ pos'[w] = Got(rd)'
                     /\ val'["FULL"] = 0 /\ ~ReaderHolds(rd)'
                     /\ pc'[rd] \notin {"check_rd", "read_size", "write", "v_empty"}
    BY <1>2, <1>3, <1>4, OwnAt DEF TransferAt, ReaderHolds
  <2>2. QED
    BY <1>1, <1>3, <2>1 DEF TransferAt, Before, Labels, Loop, Late, Session, Early
<1>7. QED
  BY <1>5, <1>6

LEMMA OwnCheck ==
  ASSUME NEW rd \in Readers, OnlyReader(rd), OnlyReader(rd)', Base(rd), Base(rd)',
         NEW w \in Writers, Act(w), pc[w] = "check_wr",
         pc'[w] \notin {"exit", "done"}, TokenAt(rd, w), TransferAt(rd, w)
  PROVE  TokenAt(rd, w)' /\ TransferAt(rd, w)'
<1> USE DEF WLoop
<1>1. pc'[w] = "fill" /\ CheckWr(w)
  BY OwnAt, WriterAt DEF Step, Flow, PrologueFlow, WriterFlow, ReaderFlow
<1>2. val["NUM_PROC"] >= 2 /\ semKey # NoId /\ val' = val /\ pos' = pos
  BY <1>1, OwnAt DEF CheckWr, SemopNumProc, Fail, Live, semvars, datavars
<1>3. Connected(rd)
  BY <1>2, TwoPeers DEF Base
<1>4. pc[rd] \in Loop \cup {"exit"}
  BY <1>3, OwnAt, ConnectedAt DEF Base
<1>5. pc[rd] \in {"p_full", "check_rd", "read_size", "write", "v_empty",
                  "end_rd", "end_rd_sleep", "exit"}
  BY <1>4, OwnAt, ReaderIs DEF Base, StatusInv, Loop, Session
<1>6. ReaderIn(rd) /\ pc[rd] # "connect"
  BY <1>3, <1>5 DEF ReaderIn, ReaderHolds
<1>7. Inside(w) /\ Inside(w)' /\ WriterHolds(w) /\ WriterHolds(w)' /\ ~Ended(w) /\ ~Ended(w)'
      /\ ~SeenEnd(rd)'
  BY <1>1, OwnAt DEF Inside, WriterHolds, Ended, Leaving
<1>8. val["EMPTY"] = 0 /\ val["FULL"] = 0 /\ ~ReaderHolds(rd)
  BY <1>6, <1>7, OneToken
<1>9. TokenAt(rd, w)'
  <2>1. \A v \in Writers : Inside(w)' /\ pc'[v] = "setval" /\ Live(v)' => ~ReaderIn(rd)'
    BY <1>7, OwnAt, OwnSetval
  <2>2. QED
    BY <1>1, <1>2, <1>6, <1>7, <1>8, <2>1, OwnAt DEF TokenAt, One
<1>10. TransferAt(rd, w)'
  <2>1. /\ pos'[w] = Got(rd)'
        /\ val'["FULL"] = 0 /\ ~ReaderHolds(rd)'
        /\ pc'[rd] \notin {"check_rd", "read_size", "write", "v_empty"}
    BY <1>2, <1>6, <1>7, <1>8, OwnAt DEF TransferAt, ReaderHolds
  <2>2. QED
    BY <1>1, <1>7, <2>1 DEF TransferAt, Before, Labels, Loop, Late, Session, Early
<1>11. QED
  BY <1>9, <1>10

(* While the writer is at the page nothing is said of the reader's side. *)
LEMMA OwnHolds ==
  ASSUME NEW rd \in Readers, OnlyReader(rd), OnlyReader(rd)', Base(rd), Base(rd)',
         NEW w \in Writers, Act(w), pc[w] \in {"fill", "size"},
         pc'[w] \in {"size", "v_full"}, UNCHANGED val, TokenAt(rd, w),
         TransferAt(rd, w)
  PROVE  /\ TokenAt(rd, w)'
         /\ ReaderIn(rd)' => /\ val'["EMPTY"] = 0 /\ val'["FULL"] = 0 /\ ~ReaderHolds(rd)'
                         /\ pc'[rd] \notin {"check_rd", "read_size", "write", "v_empty"}
<1> USE DEF WLoop
<1>1. Inside(w) /\ Inside(w)' /\ WriterHolds(w) /\ WriterHolds(w)' /\ ~Ended(w) /\ ~Ended(w)'
      /\ ~SeenEnd(rd)'
  BY OwnAt DEF Inside, WriterHolds, Ended, Leaving
<1>2. ReaderIn(rd) => val["EMPTY"] = 0 /\ val["FULL"] = 0 /\ ~ReaderHolds(rd)
  BY <1>1, OneToken
<1>3. \A v \in Writers : Inside(w)' /\ pc'[v] = "setval" /\ Live(v)' => ~ReaderIn(rd)'
  BY <1>1, OwnAt, OwnSetval
<1>4. TokenAt(rd, w)'
  BY <1>1, <1>2, <1>3, OwnAt DEF TokenAt, One
<1>5. QED
  BY <1>2, <1>4, OwnAt DEF ReaderHolds

LEMMA OwnFill ==
  ASSUME NEW rd \in Readers, OnlyReader(rd), OnlyReader(rd)', Base(rd), Base(rd)',
         NEW w \in Writers, Act(w), pc[w] = "fill", pc'[w] \notin {"exit", "done"},
         TokenAt(rd, w), TransferAt(rd, w)
  PROVE  TokenAt(rd, w)' /\ TransferAt(rd, w)'
<1> USE DEF WLoop
<1>1. pc'[w] = "size" /\ Fill(w)
  BY OwnAt, WriterAt DEF Step, Flow, PrologueFlow, WriterFlow, ReaderFlow
<1> DEFINE more == pos[w] < FileLen
<1>2. /\ att[w] # NoId
      /\ page' = [page EXCEPT ![att[w]].data = IF more THEN Chunk(w, pos[w] + 1) ELSE NoData]
      /\ pos' = [pos EXCEPT ![w] = IF more THEN @ + 1 ELSE @]
      /\ num_symb' = [num_symb EXCEPT ![w] = IF more THEN 1 ELSE 0]
      /\ UNCHANGED <<semvars, att>>
  <2>1. ~IOError(w, "fill") /\ ~Segfault(w, "fill")
    BY <1>1, OwnAt DEF IOError, Fail, Segfault, Reap
  <2>2. QED
    BY <1>1, <2>1 DEF Fill, semvars
<1>3. val' = val /\ att' = att
  BY <1>2 DEF semvars
<1>4. att[w] \in Proc /\ page \in [Proc -> [size : {0, 1}, data : Pages \cup {NoData}]]
      /\ pos[w] = Got(rd) /\ Got(rd)' = Got(rd) /\ pos[w] \in 0..FileLen /\ FileLen \in Nat
  <2>0. w \in Proc /\ TypeInv
    BY OwnAt
  <2>1. att[w] \in Proc /\ page \in [Proc -> [size : {0, 1}, data : Pages \cup {NoData}]]
    BY <1>2, <2>0 DEF TypeInv, TypeOK
  <2>2. pos[w] = Got(rd) /\ Got(rd)' = Got(rd) /\ pos[w] \in 0..FileLen /\ FileLen \in Nat
    BY OwnAt, SharmemAssumption DEF TransferAt
  <2>3. QED
    BY <2>1, <2>2
<1>5. Ahead(rd, w, att[w])'
  <2>1. page'[att[w]].data = IF more THEN Chunk(w, pos[w] + 1) ELSE NoData
    BY <1>2, <1>4
  <2>2. pos'[w] = IF more THEN pos[w] + 1 ELSE pos[w]
    BY <1>2, OwnAt
  <2>3. num_symb'[w] = IF more THEN 1 ELSE 0
    BY <1>2, OwnAt
  <2>4. QED
    BY <1>3, <1>4, <2>1, <2>2, <2>3 DEF Ahead
<1>6. TransferAt(rd, w)'
  <2>1. ReaderIn(rd)' => /\ val'["EMPTY"] = 0 /\ val'["FULL"] = 0 /\ ~ReaderHolds(rd)'
                     /\ pc'[rd] \notin {"check_rd", "read_size", "write", "v_empty"}
    BY <1>1, <1>3, OwnHolds
  <2>2. QED
    BY <1>1, <1>5, <2>1 DEF TransferAt, Before, Labels, Loop, Late, Session, Early, Ended, Leaving
<1>7. QED
  BY <1>1, <1>3, <1>6, OwnHolds

LEMMA OwnSize ==
  ASSUME NEW rd \in Readers, OnlyReader(rd), OnlyReader(rd)', Base(rd), Base(rd)',
         NEW w \in Writers, Act(w), pc[w] = "size", pc'[w] \notin {"exit", "done"},
         TokenAt(rd, w), TransferAt(rd, w)
  PROVE  TokenAt(rd, w)' /\ TransferAt(rd, w)'
<1> USE DEF WLoop
<1>1. pc'[w] = "v_full" /\ Size(w)
  BY OwnAt, WriterAt DEF Step, Flow, PrologueFlow, WriterFlow, ReaderFlow
<1>2. /\ page' = [page EXCEPT ![att[w]].size = num_symb[w]]
      /\ val' = val /\ att' = att /\ pos' = pos /\ num_symb' = num_symb
  BY <1>1 DEF Size, semvars, datavars
<1>3. att[w] \in Proc /\ page \in [Proc -> [size : {0, 1}, data : Pages \cup {NoData}]]
      /\ Got(rd)' = Got(rd)
  BY OwnAt, PairAttached DEF TypeInv, TypeOK
<1>4. page'[att[w]].size = num_symb[w] /\ page'[att[w]].data = page[att[w]].data
  BY <1>2, <1>3
<1>5. Ahead(rd, w, att[w])'
  BY <1>2, <1>3, <1>4 DEF Ahead, TransferAt
<1>6. TransferAt(rd, w)'
  <2>1. ReaderIn(rd)' => /\ val'["EMPTY"] = 0 /\ val'["FULL"] = 0 /\ ~ReaderHolds(rd)'
                     /\ pc'[rd] \notin {"check_rd", "read_size", "write", "v_empty"}
    BY <1>1, <1>2, OwnHolds
  <2>2. QED
    BY <1>1, <1>2, <1>4, <1>5, <2>1
    DEF TransferAt, Before, Labels, Loop, Late, Session, Early, Ended, Leaving
<1>7. QED
  BY <1>1, <1>2, <1>6, OwnHolds

LEMMA OwnVFull ==
  ASSUME NEW rd \in Readers, OnlyReader(rd), OnlyReader(rd)', Base(rd), Base(rd)',
         NEW w \in Writers, Act(w), pc[w] = "v_full",
         pc'[w] \notin {"exit", "done"}, TokenAt(rd, w), TransferAt(rd, w)
  PROVE  TokenAt(rd, w)' /\ TransferAt(rd, w)'
<1> USE DEF WLoop
<1>1. pc'[w] \in {"p_empty", "end_wr"} /\ VFull(w)
  BY OwnAt, WriterAt DEF Step, Flow, PrologueFlow, WriterFlow, ReaderFlow
<1>2. /\ pc'[w] = IF num_symb[w] > 0 THEN "p_empty" ELSE "end_wr"
      /\ val'["FULL"] = val["FULL"] + 1 /\ val'["EMPTY"] = val["EMPTY"]
      /\ page' = page /\ att' = att /\ pos' = pos /\ num_symb' = num_symb
  BY <1>1, OwnAt, VFullEffect DEF Moves, datavars, shmvars, SEM
<1>3. /\ pc'[w] = "p_empty" => num_symb[w] = 1
      /\ pc'[w] = "end_wr" => num_symb[w] = 0
  BY <1>2, OwnAt
<1>4. Inside(w) /\ Inside(w)' /\ WriterHolds(w) /\ ~WriterHolds(w)' /\ ~Ended(w) /\ ~SeenEnd(rd)'
  BY <1>1, OwnAt DEF Inside, WriterHolds, Ended, Leaving
<1>5. ReaderIn(rd) => val["EMPTY"] = 0 /\ val["FULL"] = 0 /\ ~ReaderHolds(rd)
  BY <1>4, OneToken
<1>6. TokenAt(rd, w)'
  <2>1. \A v \in Writers : Inside(w)' /\ pc'[v] = "setval" /\ Live(v)' => ~ReaderIn(rd)'
    BY <1>4, OwnAt, OwnSetval
  <2>2. QED
    BY <1>1, <1>2, <1>4, <1>5, <2>1, OwnAt DEF TokenAt, One
<1>7. Ahead(rd, w, att[w]) /\ page[att[w]].size = num_symb[w]
  BY DEF TransferAt
<1>8. ReaderIn(rd)' => /\ Ahead(rd, w, att[rd])'
                   /\ page'[att'[rd]].size = num_symb'[w]
                   /\ pc'[rd] \notin {"write", "v_empty"}
  <2> SUFFICES ASSUME ReaderIn(rd) PROVE Ahead(rd, w, att[rd])' /\ page'[att'[rd]].size = num_symb'[w]
                                     /\ pc'[rd] \notin {"write", "v_empty"}
      BY OwnAt
  <2>1. pc[rd] \in Session /\ pc[rd] \notin {"write", "v_empty"}
    BY <1>5 DEF ReaderIn, ReaderHolds, Session
  <2>2. att[w] = att[rd]
    BY <2>1, PairAttached
  <2>3. QED
    BY <1>2, <1>7, <2>1, <2>2, OwnAt DEF Ahead
<1>9. TransferAt(rd, w)'
  <2>1. ReaderIn(rd)' => val'["EMPTY"] # 1
    BY <1>2, <1>5, OwnAt
  <2>2. QED
    BY <1>1, <1>2, <1>3, <1>8, <2>1
    DEF TransferAt, Before, Labels, Loop, Late, Session, Early, Ended, Leaving
<1>10. QED
  BY <1>6, <1>9

(* The writer has posted its last page. *)
LEMMA OwnEnd ==
  ASSUME NEW rd \in Readers, OnlyReader(rd), OnlyReader(rd)', Base(rd), Base(rd)',
         NEW w \in Writers, Act(w),
         pc[w] \in {"end_wr", "unlink_shm", "delete_shm"},
         pc'[w] \notin {"exit", "done"}, TokenAt(rd, w), TransferAt(rd, w)
  PROVE  TokenAt(rd, w)' /\ TransferAt(rd, w)'
<1> USE DEF WLoop
<1>1. /\ pc'[w] \in Leaving
      /\ EndWr(w) \/ UnlinkWr(w) \/ DeleteShm(w)
  BY OwnAt, WriterAt DEF Step, Flow, PrologueFlow, WriterFlow, ReaderFlow, Leaving
<1>2. /\ val'["EMPTY"] = val["EMPTY"] /\ val'["FULL"] = val["FULL"]
      /\ page' = page /\ pos' = pos /\ num_symb' = num_symb
  <2>1. CASE EndWr(w)
    BY <2>1, OwnAt, EndWrEffect DEF Moves, datavars, shmvars, SEM
  <2>2. CASE UnlinkWr(w) \/ DeleteShm(w)
    BY <2>2 DEF UnlinkWr, DeleteShm, unlink_shm, delete_shm, datavars, semvars
  <2>3. QED
    BY <1>1, <2>1, <2>2
<1>3. Inside(w) /\ Inside(w)' /\ ~WriterHolds(w) /\ ~WriterHolds(w)' /\ Ended(w) /\ Ended(w)'
  BY <1>1 DEF Inside, WriterHolds, Ended, Leaving
<1>4. TokenAt(rd, w)'
  <2>1. \A v \in Writers : Inside(w)' /\ pc'[v] = "setval" /\ Live(v)' => ~ReaderIn(rd)'
    BY <1>3, OwnAt, OwnSetval
  <2>2. pc[rd] # "connect" /\ pc'[w] \notin {"open", "exit"}
    BY <1>1, <1>3 DEF TokenAt, Leaving
  <2>3. QED
    BY <1>2, <1>3, <2>1, <2>2, OwnAt DEF TokenAt, One
<1>5. TransferAt(rd, w)'
  <2>1. pc'[w] \notin Before \cup {"open", "fill", "size", "v_full", "check_wr", "p_empty"}
    BY <1>1 DEF Leaving, Before, Labels, Loop, Late, Session, Early
  <2>2. QED
    BY <1>2, <1>3, <2>1, OwnAt DEF TransferAt, Ahead
<1>6. QED
  BY <1>4, <1>5

LEMMA OwnDelete ==
  ASSUME NEW rd \in Readers, OnlyReader(rd), OnlyReader(rd)', Base(rd),
         NEW w \in Writers, Act(w), pc[w] = "delete_sem",
         pc'[w] \notin {"exit", "done"}, TransferAt(rd, w)
  PROVE  TokenAt(rd, w)' /\ TransferAt(rd, w)'
<1>1. w \in Proc /\ Step(w) /\ MemoryFrame(w) /\ DeleteSem(w) /\ w \notin Readers
  BY ActsStep, ActsFrame, WriterAt, SharmemAssumption DEF Base
<1>2. pc'[w] = "return"
  BY <1>1 DEF Step, Flow, PrologueFlow, WriterFlow, ReaderFlow
<1>3. num_symb'[w] = 0
  BY <1>1 DEF DeleteSem, datavars, TransferAt, Ended, Leaving
<1>4. TokenAt(rd, w)' /\ TransferAt(rd, w)'
  BY <1>2, <1>3
  DEF TokenAt, TransferAt, Inside, Ended, WLoop, Leaving, Before, Labels, Loop, Late, Session, Early
<1>5. QED
  BY <1>4

LEMMA OwnStep ==
  ASSUME NEW rd \in Readers, OnlyReader(rd), OnlyReader(rd)', Base(rd), Base(rd)',
         NEW w \in Writers, Act(w), Met(w)', TokenAt(rd, w), TransferAt(rd, w)
  PROVE  TokenAt(rd, w)' /\ TransferAt(rd, w)'
<1>1. w \in Proc /\ Step(w) /\ TypeInv /\ TypeInv' /\ w \notin Readers
  BY ActsStep, SharmemAssumption DEF Base
<1>2. CASE WriterConnect(w) /\ Live(w)
  BY <1>2, OwnConnect
<1>3. CASE ~(WriterConnect(w) /\ Live(w))
  <2>1. Met(w) /\ (Inside(w)' => Inside(w))
    BY <1>1, <1>3, MetStep DEF Base
  <2>2. pc'[w] # "done"
    BY <1>1 DEF Base, NumInv, Undo, UndoAt, Connected, Late, Met, Inside, WLoop, Leaving
  <2>3. CASE pc'[w] = "exit"
    BY <2>1, <2>3, OwnExit
  <2>4. CASE pc'[w] # "exit"
    <3>1. Inside(w)
      <4>1. pc[w] \notin {"exit", "return"}
        BY <1>1, <2>2, <2>4
        DEF Step, Flow, PrologueFlow, WriterFlow, ReaderFlow
      <4>2. Connected(w) => pc[w] \in Loop
        BY <1>1, <4>1, ConnectedAt DEF Base
      <4>3. pc[w] \in Loop => pc[w] \in WLoop
        BY <1>1 DEF Base, StatusInv, Loop, Session, WLoop
      <4>4. QED
        BY <2>1, <4>1, <4>2, <4>3 DEF Met, Inside
    <3>2. QED
      BY <2>2, <2>4, <3>1, OwnOpen, OwnPEmpty, OwnCheck, OwnFill, OwnSize, OwnVFull,
         OwnEnd, OwnDelete DEF Inside, WLoop, Leaving
  <2>5. QED
    BY <2>3, <2>4
<1>4. QED
  BY <1>2, <1>3

-----------------------------------------------------------------------------
(* A step of the reader that a writer has met. *)

LEMMA RdFrame ==
  ASSUME NEW rd \in Readers, OnlyReader(rd), OnlyReader(rd)', Base(rd), Base(rd)',
         Act(rd), NEW w \in Writers, Met(w), TokenAt(rd, w)
  PROVE  /\ w \in Proc /\ rd \in Proc /\ rd \in Readers /\ w # rd /\ rd \notin Writers
         /\ Step(rd) /\ SemFrame(rd) /\ MemoryFrame(rd)
         /\ TypeInv /\ pc \in [Proc -> Labels] /\ val \in [SEM -> Nat]
         /\ num_symb \in [Proc -> {0, 1}]
         /\ page \in [Proc -> [size : {0, 1}, data : Pages \cup {NoData}]]
         /\ ~PreSync(rd) /\ semKey' = semKey /\ semId' = semId /\ page' = page /\ Got(rd) \in Nat
         /\ pc'[w] = pc[w] /\ num_symb'[w] = num_symb[w] /\ att'[w] = att[w] /\ pos' = pos
         /\ (Inside(w)' <=> Inside(w)) /\ (WriterHolds(w)' <=> WriterHolds(w))
         /\ (Ended(w)' <=> Ended(w)) /\ (Connected(w)' <=> Connected(w)) /\ (Met(w)' <=> Met(w))
         /\ Inside(w) => Live(w) /\ Live(rd)
         /\ Connected(w) => Live(rd)
<1>0. w \in Proc /\ rd \in Proc /\ rd \in Readers /\ w # rd /\ rd \notin Writers
  BY ReaderIs, SharmemAssumption
<1>1. /\ w \in Proc /\ rd \in Proc /\ rd \in Readers /\ w # rd /\ rd \notin Writers
      /\ Step(rd) /\ SemFrame(rd) /\ MemoryFrame(rd)
      /\ TypeInv /\ pc \in [Proc -> Labels] /\ val \in [SEM -> Nat]
      /\ num_symb \in [Proc -> {0, 1}]
      /\ page \in [Proc -> [size : {0, 1}, data : Pages \cup {NoData}]]
      /\ out \in [Readers -> Seq(Pages \cup {NoData})]
  BY <1>0, ActsStep, ActsSem, ActsFrame DEF Base, TypeInv, TypeOK, Labels
<1>2. ~PreSync(rd) /\ semId[w] = semId[rd] /\ (Inside(w) => Live(w))
  BY DEF Base, Handshake
<1>3. ~CreateSem(rd) /\ ~CreateShm(rd)
  BY <1>2 DEF CreateSem, create_sem, CreateShm, create_shm, Go, PreSync, Early
<1>4. semKey' = semKey /\ semId' = semId /\ page' = page /\ pos' = pos
  BY <1>1, <1>3 DEF MemoryFrame
<1>5. pc'[w] = pc[w] /\ num_symb'[w] = num_symb[w] /\ att'[w] = att[w]
      /\ (Connected(w)' <=> Connected(w))
  BY <1>1, <1>4 DEF Step, MemoryFrame, SemFrame
<1>6. Got(rd) \in Nat
  BY <1>1 DEF Got
<1>7. QED
  BY <1>1, <1>2, <1>4, <1>5, <1>6
  DEF Inside, WriterHolds, Ended, Met, Live, Connected

LEMMA RdInBefore ==
  ASSUME NEW rd \in Readers, OnlyReader(rd), OnlyReader(rd)', Base(rd), Base(rd)',
         Act(rd), NEW w \in Writers, Met(w), TokenAt(rd, w), ReaderIn(rd)'
  PROVE  ReaderIn(rd)
<1>1. pc'[rd] # "connect"
  BY RdFrame DEF Step, Flow, PrologueFlow, WriterFlow, ReaderFlow, PreSync, Early
<1>2. CASE pc'[rd] # "exit"
  <2>1. pc'[rd] \in {"p_full", "check_rd", "read_size", "write", "v_empty",
                     "end_rd", "end_rd_sleep"}
    BY <1>1, <1>2 DEF ReaderIn, ReaderHolds
  <2>2. pc[rd] \in {"connect", "p_full", "check_rd", "read_size", "write", "v_empty", "end_rd"}
    BY <2>1, RdFrame DEF Step, Flow, PrologueFlow, WriterFlow, ReaderFlow
  <2>3. QED
    BY <2>2 DEF ReaderIn, ReaderHolds
<1>3. CASE pc'[rd] = "exit"
  <2>1. Connected(rd)'
    BY <1>3 DEF ReaderIn, ReaderHolds
  <2>2. Connected(rd) \/ pc[rd] = "connect"
    BY <2>1, RdFrame DEF SemFrame, ReaderConnect, Semop
  <2>3. pc[rd] \in Loop \cup {"connect", "exit"}
    BY <2>2, RdFrame, ConnectedAt DEF Base
  <2>4. pc[rd] \notin {"open", "p_empty", "check_wr", "fill", "size", "v_full", "end_wr"}
    BY RdFrame DEF Base, StatusInv
  <2>5. pc[rd] # "exit"
    BY <1>3, RdFrame DEF Step, Flow, PrologueFlow, WriterFlow, ReaderFlow
  <2>6. QED
    BY <2>3, <2>4, <2>5 DEF ReaderIn, ReaderHolds, Loop, Session
<1>4. QED
  BY <1>2, <1>3

LEMMA RdSetval ==
  ASSUME NEW rd \in Readers, OnlyReader(rd), OnlyReader(rd)', Base(rd), Base(rd)',
         Act(rd), NEW w \in Writers, Met(w), TokenAt(rd, w), NEW v \in Writers,
         Inside(w)', pc'[v] = "setval", Live(v)'
  PROVE  ~ReaderIn(rd)'
<1>1. v \in Proc /\ v # rd
  BY ReaderIs, SharmemAssumption
<1>2. pc[v] = "setval" /\ Live(v) /\ Inside(w)
  BY <1>1, RdFrame DEF Step, Live
<1>3. ~ReaderIn(rd)
  BY <1>2 DEF TokenAt
<1>4. QED
  BY <1>3, RdInBefore

(* The reader leaves, or was not in. *)
LEMMA RdOut ==
  ASSUME NEW rd \in Readers, OnlyReader(rd), OnlyReader(rd)', Base(rd), Base(rd)',
         Act(rd), NEW w \in Writers, Met(w), TokenAt(rd, w), TransferAt(rd, w),
         ~ReaderIn(rd)'
  PROVE  TokenAt(rd, w)' /\ TransferAt(rd, w)'
<1>1. ~SeenEnd(rd)' /\ pc'[rd] # "connect"
  BY DEF SeenEnd, ReaderIn, ReaderHolds
<1>2. TokenAt(rd, w)'
  BY <1>1 DEF TokenAt
<1>3. out' = out
  <2>1. ~Write(rd) \/ IOError(rd, "write")
    <3> SUFFICES ASSUME Write(rd), ~IOError(rd, "write") PROVE FALSE
        OBVIOUS
    <3>1. pc'[rd] = "v_empty"
      BY RdFrame DEF Write, Go
    <3>2. QED
      BY <3>1 DEF ReaderIn, ReaderHolds
  <2>2. QED
    BY <2>1, RdFrame DEF MemoryFrame, IOError, datavars
<1>4. Got(rd)' = Got(rd)
  BY <1>3 DEF Got
<1>5. TransferAt(rd, w)'
  BY <1>4, RdFrame DEF TransferAt, Ahead
<1>6. QED
  BY <1>2, <1>5

(* What the reader does while it stays in. *)
LEMMA RdMoves ==
  ASSUME NEW rd \in Readers, OnlyReader(rd), OnlyReader(rd)', Base(rd), Base(rd)',
         Act(rd), NEW w \in Writers, Met(w), TokenAt(rd, w), ReaderIn(rd)'
  PROVE  \/ pc[rd] = "connect" /\ ReaderConnect(rd) /\ Live(rd) /\ pc'[rd] = "p_full"
         \/ pc[rd] = "p_full" /\ PFull(rd) /\ Live(rd) /\ pc'[rd] = "check_rd"
         \/ pc[rd] = "check_rd" /\ CheckRd(rd) /\ pc'[rd] = "read_size"
         \/ pc[rd] = "read_size" /\ ReadSize(rd) /\ pc'[rd] = "write"
         \/ pc[rd] = "write" /\ Write(rd) /\ pc'[rd] = "v_empty"
         \/ pc[rd] = "v_empty" /\ VEmpty(rd) /\ Live(rd) /\ pc'[rd] \in {"p_full", "end_rd"}
         \/ pc[rd] = "end_rd" /\ EndRd(rd) /\ Live(rd) /\ pc'[rd] = "end_rd_sleep"
         \/ /\ pc[rd] \in {"check_rd", "write"} /\ (CheckRd(rd) \/ Write(rd))
            /\ pc'[rd] = "exit" /\ Live(rd) /\ UNCHANGED <<val, out>>
<1>1. ReaderIn(rd) /\ pc'[rd] # "connect"
  BY RdInBefore, RdFrame DEF Step, Flow, PrologueFlow, WriterFlow, ReaderFlow, PreSync, Early
<1>2. pc'[rd] # "done"
  BY DEF ReaderIn, ReaderHolds
<1>3. pc[rd] \in {"connect", "p_full", "end_rd", "end_rd_sleep",
                  "check_rd", "read_size", "write", "v_empty"}
  BY <1>1, <1>2, RdFrame
  DEF ReaderIn, ReaderHolds, Step, Flow, PrologueFlow, WriterFlow, ReaderFlow
<1>4. /\ pc[rd] = "connect" => ReaderConnect(rd)
      /\ pc[rd] = "p_full" => PFull(rd)
      /\ pc[rd] = "check_rd" => CheckRd(rd)
      /\ pc[rd] = "read_size" => ReadSize(rd)
      /\ pc[rd] = "write" => Write(rd)
      /\ pc[rd] = "v_empty" => VEmpty(rd)
      /\ pc[rd] \in {"end_rd", "end_rd_sleep"} => EndRd(rd)
  BY <1>2, RdFrame, ReaderAt
<1>5. ~Refused(rd)
  <2> SUFFICES ASSUME Refused(rd) PROVE FALSE
      OBVIOUS
  <2>1. pc'[rd] = "exit" /\ ~Live(rd)'
    BY RdFrame DEF Refused, Live
  <2>2. QED
    BY <2>1 DEF ReaderIn, ReaderHolds, Connected
<1>6. CASE pc'[rd] = "exit"
  <2>1. Live(rd)
    BY <1>6, RdFrame DEF ReaderIn, ReaderHolds, Connected, Live
  <2>2. pc[rd] \notin {"connect", "p_full", "v_empty"}
    BY <1>4, <1>5, <1>6, RdFrame, ReaderConnectEffect, PFullEffect, VEmptyEffect DEF Moves
  <2>3. pc[rd] \notin {"end_rd", "end_rd_sleep", "read_size"}
    BY <1>4, <1>6, <2>1, RdFrame DEF EndRd, Go, ReadSize, Segfault, Reap
  <2>4. pc[rd] \in {"check_rd", "write"}
    BY <1>3, <2>2, <2>3
  <2>5. UNCHANGED <<val, out>>
    BY <1>4, <1>6, <2>4, RdFrame DEF CheckRd, SemopNumProc, Write, Go, IOError, semvars, datavars
  <2>6. QED
    BY <1>4, <1>6, <2>1, <2>4, <2>5
<1>7. CASE pc'[rd] # "exit"
  <2>1. /\ pc[rd] = "connect" => pc'[rd] = "p_full" /\ Live(rd)
        /\ pc[rd] = "p_full" => pc'[rd] = "check_rd" /\ Live(rd)
        /\ pc[rd] = "v_empty" => pc'[rd] \in {"p_full", "end_rd"} /\ Live(rd)
    BY <1>4, <1>5, RdFrame, ReaderConnectEffect, PFullEffect, VEmptyEffect DEF Moves
  <2>2. /\ pc[rd] = "check_rd" => pc'[rd] = "read_size"
        /\ pc[rd] = "read_size" => pc'[rd] = "write"
        /\ pc[rd] = "write" => pc'[rd] = "v_empty"
        /\ pc[rd] # "end_rd_sleep"
        /\ pc[rd] = "end_rd" => pc'[rd] = "end_rd_sleep"
    BY <1>2, <1>7, RdFrame
    DEF Step, Flow, PrologueFlow, WriterFlow, ReaderFlow, ReaderIn, ReaderHolds
  <2>3. pc[rd] = "end_rd" => Live(rd)
    BY <1>4, <1>7, <2>2, RdFrame DEF EndRd, Go
  <2>4. QED
    BY <1>3, <1>4, <2>1, <2>2, <2>3
<1>8. QED
  BY <1>6, <1>7

LEMMA RdConnects ==
  ASSUME NEW rd \in Readers, OnlyReader(rd), OnlyReader(rd)', Base(rd), Base(rd)',
         Act(rd), NEW w \in Writers, Met(w), TokenAt(rd, w), TransferAt(rd, w),
         ReaderIn(rd)', pc[rd] = "connect", ReaderConnect(rd), Live(rd),
         pc'[rd] = "p_full"
  PROVE  TokenAt(rd, w)' /\ TransferAt(rd, w)'
<1>1. /\ val'["EMPTY"] = val["EMPTY"] /\ val'["FULL"] = val["FULL"]
      /\ Got(rd)' = Got(rd) /\ att' = att /\ num_symb' = num_symb
  BY RdFrame, ReaderConnectEffect DEF Refused, Moves, datavars, shmvars, SEM, Got
<1>2. ReaderIn(rd) /\ ~ReaderHolds(rd) /\ ~ReaderHolds(rd)' /\ ~SeenEnd(rd)'
  BY DEF ReaderIn, ReaderHolds, SeenEnd
<1>3. \A v \in Writers : Inside(w)' /\ pc'[v] = "setval" /\ Live(v)' => ~ReaderIn(rd)'
  BY RdSetval
<1>4. TokenAt(rd, w)'
  BY <1>1, <1>2, <1>3, RdFrame DEF TokenAt, One
<1>5. TransferAt(rd, w)'
  BY <1>1, <1>2, RdFrame DEF TransferAt, Ahead
<1>6. QED
  BY <1>4, <1>5

LEMMA RdPFull ==
  ASSUME NEW rd \in Readers, OnlyReader(rd), OnlyReader(rd)', Base(rd), Base(rd)',
         Act(rd), NEW w \in Writers, Met(w), TokenAt(rd, w), TransferAt(rd, w),
         ReaderIn(rd)', pc[rd] = "p_full", PFull(rd), Live(rd), pc'[rd] = "check_rd"
  PROVE  TokenAt(rd, w)' /\ TransferAt(rd, w)'
<1>1. /\ val["FULL"] > 0 /\ val'["EMPTY"] = val["EMPTY"] /\ val'["FULL"] = val["FULL"] - 1
      /\ Got(rd)' = Got(rd) /\ att' = att /\ num_symb' = num_symb
  BY RdFrame, PFullEffect DEF Refused, Moves, datavars, shmvars, SEM, Got
<1>2. ReaderIn(rd) /\ ~ReaderHolds(rd) /\ ReaderHolds(rd)' /\ ~SeenEnd(rd)'
  BY DEF ReaderIn, ReaderHolds, SeenEnd
<1>3. Inside(w) => val["EMPTY"] = 0 /\ val["FULL"] = 1 /\ ~WriterHolds(w)
  BY <1>1, <1>2, OneToken
<1>4. pc[w] # "open" /\ ~(pc[w] = "exit" /\ Connected(w))
  BY <1>1, <1>2, <1>3 DEF TokenAt, Inside, WLoop
<1>5. \A v \in Writers : Inside(w)' /\ pc'[v] = "setval" /\ Live(v)' => ~ReaderIn(rd)'
  BY RdSetval
<1>6. TokenAt(rd, w)'
  BY <1>1, <1>2, <1>3, <1>4, <1>5, RdFrame DEF TokenAt, One
<1>7. TransferAt(rd, w)'
  BY <1>1, <1>2, <1>3, RdFrame DEF TransferAt, Ahead, WriterHolds
<1>8. QED
  BY <1>6, <1>7

(* The reader has the token, the writer does not. *)
LEMMA RdHolds ==
  ASSUME NEW rd \in Readers, Base(rd), NEW w \in Writers, Met(w), TokenAt(rd, w),
         pc[rd] \in {"check_rd", "read_size", "write", "v_empty"}
  PROVE  /\ ReaderIn(rd) /\ ReaderHolds(rd)
         /\ Inside(w) => val["EMPTY"] = 0 /\ val["FULL"] = 0 /\ ~WriterHolds(w)
         /\ pc[w] # "open" /\ ~(pc[w] = "exit" /\ Connected(w))
         /\ Inside(w) \/ pc[w] = "return"
<1>1. ReaderIn(rd) /\ ReaderHolds(rd)
  BY DEF ReaderIn, ReaderHolds
<1>2. Inside(w) => val["EMPTY"] = 0 /\ val["FULL"] = 0 /\ ~WriterHolds(w)
  BY <1>1, OneToken
<1>3. pc[w] # "open" /\ ~(pc[w] = "exit" /\ Connected(w))
  BY <1>1, <1>2 DEF TokenAt, Inside, WLoop
<1>4. Inside(w) \/ pc[w] = "return"
  <2> SUFFICES ASSUME Connected(w), ~Inside(w) PROVE FALSE
      BY DEF Met
  <2>1. w \in Proc /\ TypeInv /\ NumInv /\ StatusInv
    BY SharmemAssumption DEF Base
  <2>2. pc[w] \in Loop
    BY <1>3, <2>1, ConnectedAt
  <2>3. QED
    BY <2>1, <2>2 DEF StatusInv, Loop, Session, Inside, WLoop
<1>5. QED
  BY <1>1, <1>2, <1>3, <1>4

LEMMA RdChecks ==
  ASSUME NEW rd \in Readers, OnlyReader(rd), OnlyReader(rd)', Base(rd), Base(rd)',
         Act(rd), NEW w \in Writers, Met(w), TokenAt(rd, w), TransferAt(rd, w),
         ReaderIn(rd)', pc[rd] = "check_rd", CheckRd(rd), pc'[rd] = "read_size"
  PROVE  TokenAt(rd, w)' /\ TransferAt(rd, w)'
<1>1. val' = val /\ Got(rd)' = Got(rd) /\ att' = att /\ num_symb' = num_symb
  BY DEF CheckRd, SemopNumProc, semvars, shmvars, datavars, Got
<1>2. ReaderIn(rd) /\ ReaderHolds(rd) /\ ReaderHolds(rd)' /\ ~SeenEnd(rd)'
  BY DEF ReaderIn, ReaderHolds, SeenEnd
<1>3. \A v \in Writers : Inside(w)' /\ pc'[v] = "setval" /\ Live(v)' => ~ReaderIn(rd)'
  BY RdSetval
<1>4. TokenAt(rd, w)'
  BY <1>1, <1>2, <1>3, RdFrame, RdHolds DEF TokenAt, One
<1>5. TransferAt(rd, w)'
  BY <1>1, <1>2, RdFrame DEF TransferAt, Ahead
<1>6. QED
  BY <1>4, <1>5

LEMMA RdReads ==
  ASSUME NEW rd \in Readers, OnlyReader(rd), OnlyReader(rd)', Base(rd), Base(rd)',
         Act(rd), NEW w \in Writers, Met(w), TokenAt(rd, w), TransferAt(rd, w),
         ReaderIn(rd)', pc[rd] = "read_size", ReadSize(rd), pc'[rd] = "write"
  PROVE  TokenAt(rd, w)' /\ TransferAt(rd, w)'
<1>1. /\ val' = val /\ Got(rd)' = Got(rd) /\ att' = att
      /\ num_symb' = [num_symb EXCEPT ![rd] = page[att[rd]].size]
  <2>1. ~Segfault(rd, "read_size")
    BY RdFrame DEF Segfault, Reap
  <2>2. QED
    BY <2>1 DEF ReadSize, semvars, shmvars, Got
<1>2. ReaderIn(rd) /\ ReaderHolds(rd) /\ ReaderHolds(rd)'
  BY DEF ReaderIn, ReaderHolds
<1>3. \A v \in Writers : Inside(w)' /\ pc'[v] = "setval" /\ Live(v)' => ~ReaderIn(rd)'
  BY RdSetval
<1>4. Inside(w) => num_symb'[rd] = num_symb[w]
  BY <1>1, <1>2, RdFrame DEF TransferAt
<1>5. SeenEnd(rd)' => Ended(w)
  <2> SUFFICES ASSUME SeenEnd(rd)', ~Ended(w) PROVE FALSE
      OBVIOUS
  <2>1. Inside(w) /\ ~WriterHolds(w) /\ pc[w] # "open"
    BY RdHolds DEF Ended
  <2>2. pc[w] = "p_empty"
    BY <2>1 DEF Inside, WriterHolds, WLoop, Ended
  <2>3. num_symb[w] = 1
    BY <1>2, <2>1, <2>2 DEF TransferAt
  <2>4. QED
    BY <1>4, <2>1, <2>3 DEF SeenEnd
<1>6. TokenAt(rd, w)'
  BY <1>1, <1>2, <1>3, <1>5, RdFrame, RdHolds DEF TokenAt, One
<1>7. TransferAt(rd, w)'
  BY <1>1, <1>2, <1>4, RdFrame DEF TransferAt, Ahead
<1>8. QED
  BY <1>6, <1>7

LEMMA RdWrites ==
  ASSUME NEW rd \in Readers, OnlyReader(rd), OnlyReader(rd)', Base(rd), Base(rd)',
         Act(rd), NEW w \in Writers, Met(w), TokenAt(rd, w), TransferAt(rd, w),
         ReaderIn(rd)', pc[rd] = "write", Write(rd), pc'[rd] = "v_empty"
  PROVE  TokenAt(rd, w)' /\ TransferAt(rd, w)'
<1>1. /\ val' = val /\ att' = att /\ num_symb' = num_symb
      /\ out' = IF num_symb[rd] > 0
                  THEN [out EXCEPT ![rd] = Append(@, page[att[rd]].data)]
                  ELSE out
  BY RdFrame DEF Write, IOError, Fail, semvars, shmvars
<1>2. ReaderIn(rd) /\ ReaderHolds(rd) /\ ReaderHolds(rd)' /\ (SeenEnd(rd)' <=> SeenEnd(rd))
  BY <1>1 DEF ReaderIn, ReaderHolds, SeenEnd
<1>3. \A v \in Writers : Inside(w)' /\ pc'[v] = "setval" /\ Live(v)' => ~ReaderIn(rd)'
  BY RdSetval
<1>4. TokenAt(rd, w)'
  BY <1>1, <1>2, <1>3, RdFrame, RdHolds DEF TokenAt, One
<1>5. Got(rd)' = IF num_symb[rd] = 1 THEN Got(rd) + 1 ELSE Got(rd)
  <2>1. out \in [Readers -> Seq(Pages \cup {NoData})] /\ num_symb[rd] \in {0, 1}
    BY RdFrame DEF TypeInv, TypeOK
  <2>2. num_symb[rd] = 1 => Len(out'[rd]) = Len(out[rd]) + 1
    BY <1>1, <2>1, RdFrame
  <2>3. num_symb[rd] = 0 => out' = out
    BY <1>1
  <2>4. QED
    BY <2>1, <2>2, <2>3 DEF Got
<1>6. Inside(w) => pos'[w] = Got(rd)'
  <2> SUFFICES ASSUME Inside(w) PROVE pos'[w] = Got(rd)'
      OBVIOUS
  <2>1. Ahead(rd, w, att[rd]) /\ num_symb[rd] = num_symb[w]
    BY <1>2 DEF TransferAt
  <2>2. QED
    BY <1>5, <2>1, RdFrame DEF Ahead
<1>7. TransferAt(rd, w)'
  <2>1. pc'[w] \notin {"fill", "size", "v_full", "open", "check_wr"}
    BY RdFrame, RdHolds DEF Inside, WriterHolds, WLoop
  <2>2. /\ pc'[w] \in Before => pos'[w] = 0
        /\ Ended(w)' => num_symb'[w] = 0
    BY <1>1, RdFrame DEF TransferAt
  <2>3. Inside(w)' => /\ val'["FULL"] = 0
                      /\ num_symb'[rd] = num_symb'[w]
                      /\ pc'[w] = "p_empty" => num_symb'[w] = 1
    BY <1>1, <1>2, RdFrame, RdHolds DEF TransferAt
  <2>4. QED
    BY <1>6, <2>1, <2>2, <2>3, RdFrame DEF TransferAt
<1>8. QED
  BY <1>4, <1>7

LEMMA RdVEmpty ==
  ASSUME NEW rd \in Readers, OnlyReader(rd), OnlyReader(rd)', Base(rd), Base(rd)',
         Act(rd), NEW w \in Writers, Met(w), TokenAt(rd, w), TransferAt(rd, w),
         ReaderIn(rd)', pc[rd] = "v_empty", VEmpty(rd), Live(rd),
         pc'[rd] \in {"p_full", "end_rd"}
  PROVE  TokenAt(rd, w)' /\ TransferAt(rd, w)'
<1>1. /\ val'["EMPTY"] = val["EMPTY"] + 1 /\ val'["FULL"] = val["FULL"]
      /\ Got(rd)' = Got(rd) /\ att' = att /\ num_symb' = num_symb
      /\ pc'[rd] = IF num_symb[rd] > 0 THEN "p_full" ELSE "end_rd"
  BY RdFrame, VEmptyEffect DEF Refused, Moves, datavars, shmvars, SEM, Got
<1>2. ReaderIn(rd) /\ ReaderHolds(rd) /\ ~ReaderHolds(rd)' /\ (SeenEnd(rd)' => SeenEnd(rd))
  BY <1>1, RdFrame DEF ReaderIn, ReaderHolds, SeenEnd
<1>3. \A v \in Writers : Inside(w)' /\ pc'[v] = "setval" /\ Live(v)' => ~ReaderIn(rd)'
  BY RdSetval
<1>4. TokenAt(rd, w)'
  BY <1>1, <1>2, <1>3, RdFrame, RdHolds DEF TokenAt, One
<1>5. TransferAt(rd, w)'
  BY <1>1, <1>2, RdFrame, RdHolds DEF TransferAt, Ahead
<1>6. QED
  BY <1>4, <1>5

LEMMA RdSleeps ==
  ASSUME NEW rd \in Readers, OnlyReader(rd), OnlyReader(rd)', Base(rd), Base(rd)',
         Act(rd), NEW w \in Writers, Met(w), TokenAt(rd, w), TransferAt(rd, w),
         ReaderIn(rd)', pc[rd] = "end_rd", EndRd(rd), Live(rd),
         pc'[rd] = "end_rd_sleep"
  PROVE  TokenAt(rd, w)' /\ TransferAt(rd, w)'
<1>1. val' = val /\ Got(rd)' = Got(rd) /\ att' = att /\ num_symb' = num_symb
  BY RdFrame DEF EndRd, Go, datavars, shmvars, Got
<1>2. ReaderIn(rd) /\ ~ReaderHolds(rd) /\ ~ReaderHolds(rd)' /\ SeenEnd(rd)
  BY DEF ReaderIn, ReaderHolds, SeenEnd
<1>3. \A v \in Writers : Inside(w)' /\ pc'[v] = "setval" /\ Live(v)' => ~ReaderIn(rd)'
  BY RdSetval
<1>4. TokenAt(rd, w)'
  BY <1>1, <1>2, <1>3, RdFrame DEF TokenAt, One, Ended, Leaving
<1>5. TransferAt(rd, w)'
  BY <1>1, <1>2, RdFrame DEF TransferAt, Ahead
<1>6. QED
  BY <1>4, <1>5

LEMMA RdFails ==
  ASSUME NEW rd \in Readers, OnlyReader(rd), OnlyReader(rd)', Base(rd), Base(rd)',
         Act(rd), NEW w \in Writers, Met(w), TokenAt(rd, w), TransferAt(rd, w),
         ReaderIn(rd)', pc[rd] \in {"check_rd", "write"}, CheckRd(rd) \/ Write(rd),
         pc'[rd] = "exit", UNCHANGED <<val, out>>
  PROVE  TokenAt(rd, w)' /\ TransferAt(rd, w)'
<1>1. Got(rd)' = Got(rd) /\ att' = att /\ num_symb' = num_symb
  BY DEF CheckRd, SemopNumProc, Write, IOError, semvars, shmvars, datavars, Got
<1>2. ReaderIn(rd) /\ ReaderHolds(rd) /\ ReaderHolds(rd)' /\ ~SeenEnd(rd)'
  BY DEF ReaderIn, ReaderHolds, SeenEnd
<1>3. \A v \in Writers : Inside(w)' /\ pc'[v] = "setval" /\ Live(v)' => ~ReaderIn(rd)'
  BY RdSetval
<1>4. TokenAt(rd, w)'
  BY <1>1, <1>2, <1>3, RdFrame, RdHolds DEF TokenAt, One
<1>5. TransferAt(rd, w)'
  BY <1>1, <1>2, RdFrame, RdHolds DEF TransferAt, Ahead
<1>6. QED
  BY <1>4, <1>5

LEMMA RdStep ==
  ASSUME NEW rd \in Readers, OnlyReader(rd), OnlyReader(rd)', Base(rd), Base(rd)',
         Act(rd), NEW w \in Writers, Met(w), TokenAt(rd, w), TransferAt(rd, w)
  PROVE  TokenAt(rd, w)' /\ TransferAt(rd, w)'
<1>1. CASE ~ReaderIn(rd)'
  BY <1>1, RdOut
<1>2. CASE ReaderIn(rd)'
  BY <1>2, RdMoves, RdConnects, RdPFull, RdChecks, RdReads, RdWrites, RdVEmpty, RdSleeps,
     RdFails
<1>3. QED
  BY <1>1, <1>2

LEMMA PairAct ==
  ASSUME NEW rd \in Readers, OnlyReader(rd), OnlyReader(rd)', Base(rd), Base(rd)',
         NEW p \in Proc, Act(p), NEW w \in Writers, TokenAt(rd, w),
         TransferAt(rd, w)
  PROVE  TokenAt(rd, w)' /\ TransferAt(rd, w)'
<1>1. CASE ~Met(w)'
  BY <1>1, UnmetStep
<1>2. CASE Met(w)' /\ p = w
  BY <1>2, OwnStep
<1>3. CASE Met(w)' /\ p # w
  <2>1. Met(w)
    BY <1>3, MetStep DEF Base
  <2>2. CASE p = rd
    BY <2>1, <2>2, RdStep
  <2>3. CASE p # rd
    BY <1>3, <2>1, <2>3, AsideStep
  <2>4. QED
    BY <2>2, <2>3
<1>4. QED
  BY <1>1, <1>2, <1>3

-----------------------------------------------------------------------------
(* The contents, step by step. *)

(* The reader finds EMPTY posted. *)
LEMMA ReaderEndStep ==
  ASSUME NEW rd \in Readers, OnlyReader(rd), OnlyReader(rd)', Base(rd), Token(rd),
         NEW p \in Proc, Act(p)
  PROVE  ReaderEnd(rd)'
<1> SUFFICES ASSUME pc'[rd] \in {"end_rd", "end_rd_sleep"}, Live(rd)' PROVE val'["EMPTY"] > 0
    BY DEF ReaderEnd
<1>1. /\ rd \in Proc /\ rd \in Readers /\ rd \notin Writers
      /\ Step(p) /\ SemFrame(p) /\ MemoryFrame(p) /\ TypeInv /\ LockInv
      /\ val \in [SEM -> Nat] /\ pc \in [Proc -> Labels]
  BY ReaderIs, ActsStep, ActsSem, ActsFrame DEF Base, TypeInv, TypeOK, Labels
<1>2. CASE p = rd
  <2>1. pc[rd] \in {"v_empty", "end_rd"}
    BY <1>1, <1>2 DEF Step, Flow, PrologueFlow, WriterFlow, ReaderFlow
  <2>2. CASE pc[rd] = "v_empty"
    <3>1. VEmpty(rd)
      BY <1>1, <1>2, <2>2, ReaderAt
    <3>2. val'["EMPTY"] = val["EMPTY"] + 1
      BY <1>1, <3>1, VEmptyEffect DEF Refused
    <3>3. QED
      BY <1>1, <3>2 DEF SEM
  <2>3. CASE pc[rd] = "end_rd"
    <3>1. EndRd(rd)
      BY <1>1, <1>2, <2>3, ReaderAt
    <3>2. pc'[rd] = "end_rd_sleep"
      BY <1>1, <1>2, <2>3 DEF Step, Flow, PrologueFlow, WriterFlow, ReaderFlow
    <3>3. val' = val /\ Live(rd)
      BY <1>1, <3>1, <3>2 DEF EndRd, Go, Fail
    <3>4. QED
      BY <2>3, <3>3 DEF Token, ReaderEnd
  <2>4. QED
    BY <2>1, <2>2, <2>3
<1>3. CASE p # rd
  <2>1. pc'[rd] = pc[rd] /\ semId'[rd] = semId[rd]
    BY <1>1, <1>3 DEF Step, MemoryFrame
  <2>2. CASE CreateSem(p) /\ semKey = NoId
    BY <1>1, <1>3, <2>2, NewSet DEF Live
  <2>3. CASE ~(CreateSem(p) /\ semKey = NoId)
    <3>1. Live(rd)
      BY <1>1, <2>1, <2>3, DeletedBy, NewSet DEF MemoryFrame, Live, DeleteSem, delete_sem
    <3>2. ~(p \in Writers /\ PEmpty(p))
      <4> SUFFICES ASSUME p \in Writers, PEmpty(p) PROVE FALSE
          OBVIOUS
      <4>1. Met(p) /\ ~Ended(p) /\ SeenEnd(rd)
        BY <2>1 DEF PEmpty, Semop, Met, Inside, WLoop, Ended, Leaving, SeenEnd
      <4>2. QED
        BY <2>1, <4>1 DEF Token, TokenAt
    <3>3. val'["EMPTY"] = val["EMPTY"]
      BY <1>1, <1>3, <2>3, <3>2, ReadersAct, SharmemAssumption DEF SemFrame
    <3>4. QED
      BY <2>1, <3>1, <3>3 DEF Token, ReaderEnd
  <2>4. QED
    BY <2>2, <2>3
<1>4. QED
  BY <1>2, <1>3

(* The copy remains good, unless the reader takes another page. *)
LEMMA GoodAside ==
  ASSUME NEW rd \in Readers, OnlyReader(rd), OnlyReader(rd)', Base(rd), Base(rd)',
         Token(rd), NEW p \in Proc, Act(p), p # rd, NEW v \in Writers, Good(rd, v)
  PROVE  Good(rd, v)'
<1>1. /\ p \in Proc /\ rd \in Proc /\ p # rd
      /\ Step(p) /\ MemoryFrame(p) /\ TypeInv
      /\ status \in [Proc -> Statuses]
  BY ReaderIs, ActsStep, ActsFrame, SharmemAssumption
  DEF Base, TypeInv, TypeOK, Statuses
<1>2. /\ pc'[rd] = pc[rd] /\ status'[rd] = status[rd] /\ num_symb'[rd] = num_symb[rd]
      /\ att'[rd] = att[rd] /\ out' = out /\ Got(rd)' = Got(rd)
  <2>1. ~(p \in Readers /\ Write(p))
    BY <1>1, ReadersAct, SharmemAssumption
  <2>2. QED
    BY <1>1, <2>1 DEF Step, Flow, MemoryFrame, Got
<1>3. pc[rd] \in {"read_size", "write"} => page'[att[rd]] = page[att[rd]]
  <2> SUFFICES ASSUME pc[rd] \in {"read_size", "write"} PROVE page'[att[rd]] = page[att[rd]]
      OBVIOUS
  <2>1. att[rd] \in Proc
    BY DEF Base, ReaderAttached, Session
  <2>2. ReaderIn(rd) /\ ReaderHolds(rd)
    BY DEF ReaderIn, ReaderHolds
  <2>3. p \in Writers => ~(Inside(p) /\ WriterHolds(p))
    BY <2>2, OneToken DEF Token
  <2>4. p \in Writers => ~Fill(p) /\ ~Size(p)
    BY <2>3 DEF Fill, Size, IOError, Segfault, Go, Inside, WLoop, WriterHolds
  <2>5. CASE CreateShm(p)
    <3>1. att[rd] # p
      BY <1>1, <2>5, CreateShmIs DEF Base, Segments, SegmentFresh
    <3>2. QED
      BY <1>1, <2>1, <2>5, <3>1, CreateShmIs
  <2>6. CASE ~CreateShm(p)
    BY <1>1, <2>4, <2>6 DEF MemoryFrame
  <2>7. QED
    BY <2>5, <2>6
<1>4. QED
  BY <1>2, <1>3 DEF Good

LEMMA GoodReader ==
  ASSUME NEW rd \in Readers, OnlyReader(rd), OnlyReader(rd)', Base(rd), Base(rd)',
         Act(rd), NEW v \in Writers, Good(rd, v),
         ~(CheckRd(rd) /\ pc'[rd] = "read_size")
  PROVE  Good(rd, v)'
<1>1. /\ rd \in Proc /\ rd \in Readers /\ rd \notin Writers
      /\ Step(rd) /\ MemoryFrame(rd) /\ TypeInv /\ TypeInv'
      /\ status \in [Proc -> Statuses] /\ num_symb \in [Proc -> {0, 1}]
      /\ page \in [Proc -> [size : {0, 1}, data : Pages \cup {NoData}]]
      /\ out \in [Readers -> Seq(Pages \cup {NoData})] /\ FileLen \in Nat
      /\ pc \in [Proc -> Labels]
  BY ReaderIs, ActsStep, ActsFrame, SharmemAssumption
  DEF Base, TypeInv, TypeOK, Statuses, Labels
<1>2. CASE pc[rd] = "write" /\ pc'[rd] = "v_empty"
  <2>1. Write(rd)
    BY <1>1, <1>2, ReaderAt
  <2>2. /\ num_symb' = num_symb /\ status' = status
        /\ out' = IF num_symb[rd] > 0
                    THEN [out EXCEPT ![rd] = Append(@, page[att[rd]].data)]
                    ELSE out
    BY <1>1, <1>2, <2>1 DEF Write, IOError, Fail, TypeInv, TypeOK
  <2>3. CASE num_symb[rd] = 1
    <3>1. Got(rd) < FileLen /\ page[att[rd]].data = Chunk(v, Got(rd) + 1)
      BY <1>2, <2>3 DEF Good
    <3>2. att[rd] \in Proc /\ page[att[rd]].data \in Pages \cup {NoData}
      BY <1>1, <1>2 DEF Base, ReaderAttached, Session
    <3>3. out'[rd] = Append(out[rd], Chunk(v, Got(rd) + 1)) /\ out[rd] \in Seq(Pages \cup {NoData})
      BY <1>1, <2>2, <2>3, <3>1
    <3>4. /\ Len(out'[rd]) = Got(rd) + 1
          /\ \A i \in 1..(Got(rd) + 1) : out'[rd][i] = IF i = Got(rd) + 1 THEN Chunk(v, Got(rd) + 1) ELSE out[rd][i]
      BY <3>1, <3>2, <3>3, AppendProperties DEF Got
    <3>5. Got(rd)' = Got(rd) + 1 /\ Got(rd) \in 0..FileLen
      BY <3>4 DEF Got, Good
    <3>6. \A i \in 1..Got(rd)' : out'[rd][i] = Chunk(v, i)
      BY <3>4, <3>5 DEF Good
    <3>7. status'[rd] # "success"
      BY <1>1, <1>2, <2>2 DEF Base, StatusInv
    <3>8. QED
      <4>1. Got(rd)' \in 0..FileLen
        BY <1>1, <3>1, <3>5
      <4>2. num_symb'[rd] = 1
        BY <2>2, <2>3
      <4>3. QED
        BY <1>2, <3>6, <3>7, <4>1, <4>2 DEF Good
  <2>4. CASE num_symb[rd] = 0
    <3>1. out' = out /\ Got(rd)' = Got(rd) /\ Got(rd) = FileLen
      BY <1>2, <2>2, <2>4 DEF Good, Got
    <3>2. QED
      BY <1>2, <2>2, <3>1 DEF Good
  <2>5. QED
    BY <1>1, <2>3, <2>4
<1>3. CASE ~(pc[rd] = "write" /\ pc'[rd] = "v_empty")
  <2>1. out' = out /\ Got(rd)' = Got(rd)
    <3>1. Write(rd) => out' = out
      BY <1>1, <1>3 DEF Write, Go, IOError, datavars
    <3>2. QED
      BY <1>1, <3>1 DEF MemoryFrame, Got
  <2>2. CASE pc[rd] = "read_size" /\ pc'[rd] = "write"
    <3>1. ReadSize(rd)
      BY <1>1, <2>2, ReaderAt
    <3>2. num_symb' = [num_symb EXCEPT ![rd] = page[att[rd]].size] /\ UNCHANGED <<status, page, att>>
      BY <1>1, <2>2, <3>1 DEF ReadSize, Segfault, Reap, shmvars
    <3>3. num_symb'[rd] = page[att[rd]].size
      BY <1>1, <3>2
    <3>4. QED
      BY <2>1, <2>2, <3>2, <3>3 DEF Good
  <2>3. CASE ~(pc[rd] = "read_size" /\ pc'[rd] = "write")
    <3>1. pc'[rd] \notin {"read_size", "write"}
      <4>1. pc'[rd] # "write"
        BY <1>1, <2>3 DEF Step, Flow, PrologueFlow, WriterFlow, ReaderFlow
      <4>2. pc'[rd] = "read_size" => pc[rd] = "check_rd"
        BY <1>1 DEF Step, Flow, PrologueFlow, WriterFlow, ReaderFlow
      <4>3. pc'[rd] # "read_size"
        BY <1>1, <4>2, ReaderAt
      <4>4. QED
        BY <4>1, <4>3
    <3>2. pc'[rd] \in {"end_rd", "end_rd_sleep", "unlink_shm", "return"} => Got(rd) = FileLen
      <4>1. CASE pc'[rd] = "end_rd"
        <5>1. pc[rd] = "v_empty"
          BY <1>1, <4>1 DEF Step, Flow, PrologueFlow, WriterFlow, ReaderFlow
        <5>2. VEmpty(rd)
          BY <1>1, <4>1, <5>1, ReaderAt
        <5>3. num_symb[rd] = 0
          BY <1>1, <4>1, <5>2, VEmptyEffect DEF Refused, Moves
        <5>4. QED
          BY <5>1, <5>3 DEF Good
      <4>2. CASE pc'[rd] \in {"end_rd_sleep", "unlink_shm", "return"}
        <5>1. pc[rd] \in {"end_rd", "end_rd_sleep", "unlink_shm"}
          BY <1>1, <4>2 DEF Step, Flow, PrologueFlow, WriterFlow, ReaderFlow, Base, StatusInv
        <5>2. QED
          BY <5>1 DEF Good
      <4>3. QED
        BY <4>1, <4>2
    <3>3. status'[rd] = "success" => Got(rd) = FileLen
      BY <1>1 DEF Step, Flow, Good
    <3>4. pc'[rd] # "v_empty"
      BY <1>1, <1>3 DEF Step, Flow, PrologueFlow, WriterFlow, ReaderFlow
    <3>5. QED
      BY <2>1, <3>1, <3>2, <3>3, <3>4 DEF Good
  <2>4. QED
    BY <2>2, <2>3
<1>4. QED
  BY <1>2, <1>3

(* The reader takes a page: it is the next one of the writer it has met.   *)
LEMMA GoodTaken ==
  ASSUME NEW rd \in Readers, OnlyReader(rd), OnlyReader(rd)', Base(rd), Base(rd)',
         Token(rd), Copy(rd), Transfer(rd), Act(rd), CheckRd(rd),
         pc'[rd] = "read_size"
  PROVE  \E w \in Writers : Met(w) /\ Good(rd, w)'
<1>1. /\ rd \in Proc /\ rd \in Readers /\ rd \notin Writers /\ TypeInv
      /\ pc \in [Proc -> Labels] /\ pc[rd] = "check_rd"
      /\ pos \in [Writers -> 0..FileLen] /\ num_symb \in [Proc -> {0, 1}]
      /\ page \in [Proc -> [size : {0, 1}, data : Pages \cup {NoData}]]
  BY ReaderIs DEF Base, TypeInv, TypeOK, Labels, CheckRd, SemopNumProc
<1>2. /\ semKey # NoId /\ val["NUM_PROC"] >= 2
      /\ UNCHANGED <<status, shmvars, datavars>>
  BY <1>1 DEF CheckRd, SemopNumProc, Live, Fail
<1>3. PICK w \in Writers : Connected(w)
  BY <1>2, TwoPeers DEF Base
<1>4. w \in Proc /\ Met(w) /\ pc[w] \in Loop \cup {"exit"}
  BY <1>3, ConnectedAt, SharmemAssumption DEF Base, Met
<1>5. TokenAt(rd, w) /\ TransferAt(rd, w) /\ Good(rd, w)
  BY <1>4 DEF Token, Transfer, Copy
<1>6. Inside(w) /\ ReaderIn(rd)
  BY <1>1, <1>4, <1>5, RdHolds DEF Loop, Session
<1>7. Ahead(rd, w, att[rd]) /\ page[att[rd]].size = num_symb[w]
  BY <1>1, <1>5, <1>6 DEF TransferAt
<1>8. att[rd] \in Proc
  BY <1>1 DEF Base, ReaderAttached, Session
<1>9. IF page[att[rd]].size = 1
        THEN Got(rd) < FileLen /\ page[att[rd]].data = Chunk(w, Got(rd) + 1)
        ELSE Got(rd) = FileLen
  <2>1. Got(rd) \in 0..FileLen /\ FileLen \in Nat
    BY <1>5, SharmemAssumption DEF Good
  <2>2. pos[w] \in 0..FileLen /\ num_symb[w] \in {0, 1}
    BY <1>1, <1>4
  <2>3. CASE num_symb[w] = 1
    BY <1>7, <2>1, <2>2, <2>3 DEF Ahead
  <2>4. CASE num_symb[w] = 0
    BY <1>7, <2>1, <2>2, <2>4 DEF Ahead
  <2>5. QED
    BY <2>2, <2>3, <2>4
<1>10. /\ out' = out /\ page' = page /\ att' = att /\ status' = status /\ Got(rd)' = Got(rd)
  BY <1>2 DEF shmvars, datavars, Got
<1>11. status[rd] # "success"
  BY <1>1 DEF Base, StatusInv
<1>12. Good(rd, w)'
  BY <1>5, <1>8, <1>9, <1>10, <1>11 DEF Good
<1>13. QED
  BY <1>4, <1>12

LEMMA GoodStep ==
  ASSUME NEW rd \in Readers, OnlyReader(rd), OnlyReader(rd)', Base(rd), Base(rd)',
         Token(rd), NEW p \in Proc, Act(p), NEW v \in Writers, Good(rd, v),
         ~(p = rd /\ CheckRd(rd) /\ pc'[rd] = "read_size")
  PROVE  Good(rd, v)'
BY GoodAside, GoodReader

(* The writer that meets the reader finds it with nothing printed. *)
LEMMA GoodMet ==
  ASSUME NEW rd \in Readers, OnlyReader(rd), OnlyReader(rd)', Base(rd), Base(rd)',
         Copy(rd), NEW w \in Writers, Act(w), WriterConnect(w), Live(w)
  PROVE  Good(rd, w)'
<1>1. /\ w \in Proc /\ rd \in Proc /\ w # rd /\ val["SYNC_WR"] \in {0, 1}
      /\ pc \in [Proc -> Labels] /\ FileLen \in Nat /\ TypeInv
  BY ReaderIs, SharmemAssumption DEF Base, Handshake, TypeInv, TypeOK, Labels
<1>2. val["SYNC_WR"] > 0 /\ Moves(w, "open")
  BY WriterConnectEffect DEF Base, Refused
<1>3. out[rd] = <<>> /\ pc[rd] \in {"connect", "p_full", "done"}
  BY <1>1, <1>2 DEF Base, Handshake
<1>4. /\ out'[rd] = <<>> /\ Got(rd)' = 0 /\ pc'[rd] \in {"connect", "p_full", "done"}
      /\ status'[rd] = status[rd] /\ Got(rd) = 0
  BY <1>1, <1>2, <1>3 DEF Moves, datavars, Got
<1>5. status[rd] = "success" => Got(rd) = FileLen
  BY DEF Copy, Nothing, Good
<1>6. QED
  BY <1>1, <1>4, <1>5 DEF Good

(* A file that has been printed completely stays what the reader prints.   *)
LEMMA OutKept ==
  ASSUME NEW rd \in Readers, OnlyReader(rd), OnlyReader(rd)', Base(rd), Base(rd)',
         Copy(rd), NEW p \in Proc, Act(p), Len(out[rd]) = FileLen
  PROVE  out'[rd] = out[rd]
<1>1. /\ rd \in Proc /\ rd \in Readers /\ TypeInv /\ MemoryFrame(p)
      /\ num_symb \in [Proc -> {0, 1}] /\ FileLen \in Nat
  BY ReaderIs, ActsFrame, SharmemAssumption DEF Base, TypeInv, TypeOK
<1>2. CASE p \in Readers /\ Write(p)
  <2>1. p = rd
    BY <1>1, <1>2, ReadersAct, SharmemAssumption
  <2>2. pc[rd] = "write"
    BY <1>2, <2>1 DEF Write, Go, IOError
  <2>3. num_symb[rd] # 1
    <3> SUFFICES ASSUME num_symb[rd] = 1 PROVE FALSE
        OBVIOUS
    <3>1. ~Nothing(rd)
      BY <2>2 DEF Nothing
    <3>2. PICK v \in Writers : Good(rd, v)
      BY <3>1 DEF Copy
    <3>3. QED
      BY <1>1, <2>2, <3>2 DEF Good, Got
  <2>4. num_symb[rd] = 0
    BY <1>1, <2>3
  <2>5. QED
    BY <1>2, <2>1, <2>4 DEF Write, IOError, datavars
<1>3. CASE ~(p \in Readers /\ Write(p))
  BY <1>1, <1>3 DEF MemoryFrame
<1>4. QED
  BY <1>2, <1>3

LEMMA WholeFile ==
  ASSUME NEW rd \in Readers, OnlyReader(rd), Base(rd), NEW w \in Writers,
         Good(rd, w), Got(rd) = FileLen
  PROVE  out[rd] = File(w)
<1>1. FileLen \in Nat /\ out[rd] \in Seq(Pages \cup {NoData}) /\ Len(out[rd]) = FileLen
  BY ReaderIs, SharmemAssumption DEF Base, TypeInv, TypeOK, Got
<1>2. out[rd] = [i \in 1..FileLen |-> out[rd][i]]
  BY <1>1
<1>3. \A i \in 1..FileLen : out[rd][i] = Chunk(w, i)
  BY DEF Good
<1>4. QED
  BY <1>2, <1>3 DEF File

LEMMA FileLength ==
  ASSUME NEW w \in Writers
  PROVE  /\ File(w) \in Seq(Pages) /\ Len(File(w)) = FileLen
         /\ \A i \in 1..FileLen : File(w)[i] = Chunk(w, i)
BY SharmemAssumption DEF File, Pages

LEMMA CopyStep ==
  ASSUME NEW rd \in Readers, OnlyReader(rd), OnlyReader(rd)', Base(rd), Base(rd)',
         Token(rd), Copy(rd), Transfer(rd), NEW p \in Proc, Act(p)
  PROVE  Copy(rd)'
<1>1. /\ rd \in Proc /\ rd \in Readers /\ rd \notin Writers /\ TypeInv
      /\ Step(p) /\ MemoryFrame(p) /\ pc \in [Proc -> Labels]
      /\ status \in [Proc -> Statuses]
  BY ReaderIs, ActsStep, ActsFrame DEF Base, TypeInv, TypeOK, Labels, Statuses
<1>2. Nothing(rd)' \/ \E w \in Writers : Good(rd, w)'
  <2>1. CASE p = rd /\ CheckRd(rd) /\ pc'[rd] = "read_size"
    BY <2>1, GoodTaken
  <2>2. CASE /\ ~(p = rd /\ CheckRd(rd) /\ pc'[rd] = "read_size")
             /\ \E w \in Writers : Good(rd, w)
    BY <2>2, GoodStep
  <2>3. CASE /\ ~(p = rd /\ CheckRd(rd) /\ pc'[rd] = "read_size")
             /\ Nothing(rd)
    <3>1. (pc'[rd] = pc[rd] /\ status'[rd] = status[rd]) \/ p = rd
      BY <1>1 DEF Step, Flow
    <3>2. pc'[rd] # "read_size"
      <4> SUFFICES ASSUME p = rd, pc'[rd] = "read_size" PROVE FALSE
          BY <2>3, <3>1 DEF Nothing
      <4>1. pc[rd] = "check_rd"
        BY <1>1 DEF Step, Flow, PrologueFlow, WriterFlow, ReaderFlow
      <4>2. QED
        BY <1>1, <2>3, <4>1, ReaderAt
    <3>3. pc'[rd] \notin {"write", "v_empty", "end_rd", "end_rd_sleep", "unlink_shm", "return"}
          /\ status'[rd] # "success"
      BY <1>1, <2>3, <3>1
      DEF Nothing, Step, Flow, PrologueFlow, WriterFlow, ReaderFlow, Base, StatusInv
    <3>4. out'[rd] = out[rd]
      <4>1. ~(p \in Readers /\ Write(p))
        BY <1>1, <2>3, ReadersAct, SharmemAssumption DEF Write, Go, IOError, Nothing
      <4>2. QED
        BY <1>1, <4>1 DEF MemoryFrame
    <3>5. QED
      BY <2>3, <3>2, <3>3, <3>4 DEF Nothing
  <2>4. QED
    BY <2>1, <2>2, <2>3 DEF Copy
<1>3. ASSUME NEW w \in Writers, Met(w)' PROVE Good(rd, w)'
  <2>1. CASE p = w /\ WriterConnect(w) /\ Live(w)
    BY <2>1, GoodMet
  <2>2. CASE ~(p = w /\ WriterConnect(w) /\ Live(w))
    <3>1. Met(w) /\ Good(rd, w)
      BY <1>3, <2>2, MetStep DEF Base, Copy
    <3>2. CASE p = rd /\ CheckRd(rd) /\ pc'[rd] = "read_size"
      <4>1. PICK v \in Writers : Met(v) /\ Good(rd, v)'
        BY <3>2, GoodTaken
      <4>2. v = w
        BY <3>1, <4>1 DEF Base, Handshake
      <4>3. QED
        BY <4>1, <4>2
    <3>3. CASE ~(p = rd /\ CheckRd(rd) /\ pc'[rd] = "read_size")
      BY <3>1, <3>3, GoodStep
    <3>4. QED
      BY <3>2, <3>3
  <2>3. QED
    BY <2>1, <2>2
<1>4. ASSUME NEW w \in Writers, status'[w] = "success" \/ Ended(w)'
      PROVE  out'[rd] = File(w)
  <2>1. CASE status[w] = "success" \/ Ended(w)
    <3>1. out[rd] = File(w)
      BY <2>1 DEF Copy
    <3>2. QED
      BY <3>1, OutKept, FileLength
  <2>2. CASE ~(status[w] = "success" \/ Ended(w))
    <3>1. w \in Proc /\ w \notin Readers /\ w # rd
      BY <1>1, SharmemAssumption
    <3>2. p = w
      BY <1>1, <1>4, <2>2, <3>1 DEF Step, Flow, Ended
    <3>3. status'[w] # "success"
      BY <1>1, <2>2, <3>1, <3>2 DEF Step, Flow, Ended
    <3>4. pc[w] = "v_full" /\ pc'[w] = "end_wr"
      BY <1>1, <1>4, <2>2, <3>1, <3>2, <3>3
      DEF Ended, Leaving, Step, Flow, PrologueFlow, WriterFlow, ReaderFlow
    <3>5. VFull(w)
      BY <1>1, <3>2, <3>4, WriterAt
    <3>6. num_symb[w] = 0
      <4>1. num_symb[w] \in {0, 1} /\ ~(num_symb[w] > 0)
        BY <1>1, <3>1, <3>4, <3>5, VFullEffect DEF Refused, Moves, TypeInv, TypeOK, Labels
      <4>2. QED
        BY <4>1
    <3>7. Got(rd) = FileLen /\ Good(rd, w)
      BY <3>4, <3>6 DEF Transfer, TransferAt, Ahead, Copy, Met, Inside, WLoop
    <3>8. out[rd] = File(w)
      BY <3>7, WholeFile
    <3>9. QED
      BY <3>8, OutKept, FileLength
  <2>3. QED
    BY <2>1, <2>2
<1>5. QED
  BY <1>2, <1>3, <1>4 DEF Copy

-----------------------------------------------------------------------------
(* The invariant of the pair, and what follows from it. *)

LEMMA PairInit ==
  ASSUME NEW rd \in Readers, OnlyReader(rd), Init
  PROVE  PairInv(rd)
<1>1. /\ pc = [p \in Proc |-> "create_sem"] /\ status = [p \in Proc |-> "running"]
      /\ semKey = NoId /\ shmKey = NoId /\ val = [x \in SEM |-> 0]
      /\ semId = [p \in Proc |-> NoId] /\ shmId = [p \in Proc |-> NoId]
      /\ att = [p \in Proc |-> NoId]
      /\ pos = [w \in Writers |-> 0] /\ out = [r \in Readers |-> <<>>]
      /\ rd \in Proc /\ rd \in Readers /\ Writers \subseteq Proc /\ NoId \notin Proc
  BY ReaderIs, ProcAssumption, SharmemAssumption DEF Init, IPCInit
<1>2. TypeInv /\ LockInv /\ NumInv /\ StatusInv
  BY TypeInit, LockInit, NumInit, StatusInit
<1>3. pc[rd] = "create_sem" /\ \A w \in Writers : pc[w] = "create_sem"
  BY <1>1
<1>4. \A w \in Writers : ~Met(w) /\ ~Inside(w) /\ ~Ended(w) /\ status[w] # "success"
  BY <1>1 DEF Met, Inside, Ended, WLoop, Leaving, Connected, Live
<1>5. ~ReaderIn(rd) /\ ~SeenEnd(rd)
  BY <1>3 DEF ReaderIn, ReaderHolds, SeenEnd
<1>6. Handshake(rd)
  BY <1>1, <1>3, <1>4 DEF Handshake, SEM
<1>7. Segments(rd)
  BY <1>1 DEF Segments, SegmentFresh, SameSegment, Session
<1>8. ReaderAttached(rd)
  BY <1>3 DEF ReaderAttached, Session
<1>9. Token(rd)
  BY <1>3, <1>4, <1>5 DEF Token, ReaderEnd, TokenAt
<1>10. Copy(rd)
  BY <1>1, <1>3, <1>4 DEF Copy, Nothing
<1>11. Transfer(rd)
  BY <1>1, <1>3, <1>4 DEF Transfer, TransferAt
<1>12. QED
  BY <1>2, <1>6, <1>7, <1>8, <1>9, <1>10, <1>11 DEF PairInv, Base

LEMMA PairActs ==
  ASSUME NEW rd \in Readers, OnlyReader(rd), OnlyReader(rd)', PairInv(rd),
         NEW p \in Proc, Act(p)
  PROVE  PairInv(rd)'
<1>1. Base(rd) /\ Token(rd) /\ Copy(rd) /\ Transfer(rd)
  BY DEF PairInv
<1>2. Base(rd)'
  BY <1>1, BaseAct
<1>3. \A w \in Writers : TokenAt(rd, w)' /\ TransferAt(rd, w)'
  BY <1>1, <1>2, PairAct DEF Token, Transfer
<1>4. Token(rd)'
  BY <1>1, <1>3, ReaderEndStep DEF Token
<1>5. Transfer(rd)'
  BY <1>3 DEF Transfer
<1>6. Copy(rd)'
  BY <1>1, <1>2, CopyStep
<1>7. QED
  BY <1>2, <1>4, <1>5, <1>6 DEF PairInv

LEMMA NextActs ==
  ASSUME Next
  PROVE  \E p \in Proc : Act(p)
BY SharmemAssumption DEF Next, Act

LEMMA PairStep ==
  ASSUME NEW rd \in Readers, OnlyReader(rd), OnlyReader(rd)', PairInv(rd),
         [Next]_vars
  PROVE  PairInv(rd)'
<1>1. CASE Next
  BY <1>1, NextActs, PairActs
<1>2. CASE UNCHANGED vars
  <2>1. TypeInv' /\ LockInv' /\ NumInv'
    BY TypeStep, LockStep, NumStep DEF PairInv, Base
  <2> USE <1>2 DEF vars, procvars, semvars, shmvars, datavars
  <2>2. StatusInv' /\ Handshake(rd)'
    BY DEF PairInv, Base, StatusInv, Handshake, PreSync, Met, Inside, Connected, Live
  <2>3. Segments(rd)' /\ ReaderAttached(rd)'
    BY DEF PairInv, Base, Segments, SegmentFresh, SameSegment, Kept, PreSync,
           ReaderAttached
  <2>4. Token(rd)'
    BY DEF PairInv, Token, TokenAt, ReaderEnd, ReaderIn, ReaderHolds, WriterHolds, SeenEnd,
           Ended, Met, Inside, Connected, Live
  <2>5. Copy(rd)'
    BY DEF PairInv, Copy, Nothing, Good, Got, Ended, Met, Inside, Connected, Live
  <2>6. Transfer(rd)'
    BY DEF PairInv, Transfer, TransferAt, Ahead, ReaderIn, ReaderHolds, SeenEnd,
           Ended, Inside, Connected, Live, Got
  <2>7. QED
    BY <2>1, <2>2, <2>3, <2>4, <2>5, <2>6 DEF PairInv, Base
<1>3. QED
  BY <1>1, <1>2

(* Whichever reader is the one that has got past ALONE_RD. *)
PairsInv == TypeInv /\ \A rd \in Readers : OnlyReader(rd) => PairInv(rd)

LEMMA PairsInit == Init => PairsInv
BY TypeInit, PairInit DEF PairsInv

(* A reader that has not got past it has not been past it before. *)
LEMMA OnlyReaderBefore ==
  ASSUME TypeInv, [Next]_vars, NEW rd \in Readers, OnlyReader(rd)'
  PROVE  OnlyReader(rd)
<1> SUFFICES ASSUME NEW s \in Readers \ {rd} PROVE pc[s] \in Early
    BY DEF OnlyReader
<1>1. pc'[s] \in Early /\ s \in Proc
  BY SharmemAssumption DEF OnlyReader
<1>2. CASE UNCHANGED vars
  BY <1>1, <1>2 DEF vars, procvars
<1>3. CASE Next
  <2>1. PICK p \in Proc : Act(p)
    BY <1>3, NextActs
  <2>2. Step(p)
    BY <2>1, ActsStep
  <2>3. QED
    BY <1>1, <2>2 DEF Step, Flow, PrologueFlow, WriterFlow, ReaderFlow, Early
<1>4. QED
  BY <1>2, <1>3

LEMMA PairsStep == PairsInv /\ [Next]_vars => PairsInv'
<1> SUFFICES ASSUME PairsInv, [Next]_vars PROVE PairsInv'
    OBVIOUS
<1>1. TypeInv'
  BY TypeStep DEF PairsInv
<1>2. ASSUME NEW rd \in Readers, OnlyReader(rd)' PROVE PairInv(rd)'
  BY <1>2, OnlyReaderBefore, PairStep DEF PairsInv
<1>3. QED
  BY <1>1, <1>2 DEF PairsInv

(* Until a second reader gets in, and whoever is killed, fails or runs     *)
(* late, the two programs exclude each other at the page: the writer       *)
(* between P (EMPTY) and V (FULL), the reader between P (FULL) and         *)
(* V (EMPTY).                                                              *)
THEOREM PageExcludes == Spec => []PageExclusive
<1>1. ASSUME PairsInv PROVE PageExclusive
  <2> SUFFICES ASSUME NEW rd \in Readers, OnlyReader(rd),
                      NEW w \in Writers, NEW r \in Readers,
                      pc[w] \in {"fill", "size"}, pc[r] \in {"read_size", "write"}
               PROVE  FALSE
      BY DEF PageExclusive, OneReaderIn
  <2>1. r = rd
    BY DEF OnlyReader, Early
  <2>2. Inside(w) /\ WriterHolds(w) /\ ReaderIn(rd) /\ ReaderHolds(rd)
    BY <2>1 DEF Inside, WLoop, WriterHolds, ReaderIn, ReaderHolds
  <2>3. PairInv(rd)
    BY <1>1 DEF PairsInv
  <2>4. QED
    BY <2>2, <2>3, OneToken DEF PairInv, Token
<1>2. QED
  BY <1>1, PairsInit, PairsStep, PTL DEF Spec

(* Until a second reader gets in, a process that has finished its loop     *)
(* finds its closing semop() possible at once: its own NUM_PROC and lock   *)
(* are counted, and the token is back in EMPTY when the reader arrives,    *)
(* since only the writer that has posted the last page could take it.      *)
THEOREM EndsNeverBlock == Spec => []EndNeverBlocks
<1>1. ASSUME PairsInv PROVE EndNeverBlocks
  <2> SUFFICES ASSUME NEW rd \in Readers, OnlyReader(rd)
               PROVE  \A p \in Proc :
                        Live(p) =>
                          /\ pc[p] = "end_wr" => val["NUM_PROC"] > 0 /\ val["ALONE_WR"] > 0
                          /\ pc[p] = "end_rd" =>
                               \A x \in {"NUM_PROC", "EMPTY", "ALONE_RD"} : val[x] > 0
      BY DEF EndNeverBlocks, OneReaderIn
  <2>1. /\ Base(rd) /\ TypeInv /\ LockInv /\ NumInv /\ Token(rd) /\ StatusInv
    BY <1>1 DEF PairsInv, PairInv, Base
  <2>2. ASSUME NEW p \in Proc, Live(p), pc[p] \in {"end_wr", "end_rd"}
        PROVE  val["NUM_PROC"] > 0 /\ val[Lock(p)] > 0
    <3>1. Connected(p)
      BY <2>1, <2>2, ConnectedAt DEF Loop, Session
    <3>2. Holds(p, Lock(p)) /\ Lock(p) \in {"ALONE_WR", "ALONE_RD"}
      BY <2>1, <2>2, <3>1 DEF NumInv, Undo, UndoAt, Holds, Lock
    <3>3. val[Lock(p)] = 1
      BY <2>1, <3>2 DEF LockInv, LockCount
    <3>4. QED
      BY <2>1, <3>1, <3>3, CountedOne DEF NumInv
  <2>3. ASSUME NEW p \in Proc, Live(p), pc[p] = "end_wr"
        PROVE  val["NUM_PROC"] > 0 /\ val["ALONE_WR"] > 0
    <3>1. p \in Writers
      BY <2>1, <2>3, SharmemAssumption DEF StatusInv
    <3>2. QED
      BY <2>2, <2>3, <3>1 DEF Lock
  <2>4. ASSUME NEW p \in Proc, Live(p), pc[p] = "end_rd"
        PROVE  \A x \in {"NUM_PROC", "EMPTY", "ALONE_RD"} : val[x] > 0
    <3>1. p \in Readers /\ p \notin Writers
      BY <2>1, <2>4, SharmemAssumption DEF StatusInv
    <3>2. p = rd
      BY <2>4, <3>1 DEF OnlyReader, Early
    <3>3. val["EMPTY"] > 0
      BY <2>1, <2>4, <3>2 DEF Token, ReaderEnd
    <3>4. QED
      BY <2>2, <2>4, <3>1, <3>3 DEF Lock
  <2>5. QED
    BY <2>3, <2>4
<1>2. QED
  BY <1>1, PairsInit, PairsStep, PTL DEF Spec

(* When main() of a writer returns 0, and until a second reader gets in,   *)
(* the reader has printed that writer's file, all of it and nothing else.  *)
THEOREM SuccessDelivers == Spec => []WriterSuccessMeansDelivered
<1>1. ASSUME PairsInv PROVE WriterSuccessMeansDelivered
  BY <1>1 DEF PairsInv, PairInv, Copy, WriterSuccessMeansDelivered, OneReaderIn
<1>2. QED
  BY <1>1, PairsInit, PairsStep, PTL DEF Spec

(* The steps of the reader as steps of the copier of FileCopy. *)
LEMMA WriteDelivers ==
  ASSUME NEW rd \in Readers, OnlyReader(rd), PairInv(rd), Act(rd), pc[rd] = "write",
         pc'[rd] = "v_empty"
  PROVE  FC!Deliver(rd) \/ UNCHANGED <<out, [r \in Readers |-> Outcome(r)]>>
<1>1. /\ rd \in Proc /\ rd \in Readers /\ Base(rd) /\ Copy(rd)
      /\ num_symb \in [Proc -> {0, 1}] /\ status[rd] = "running"
      /\ out \in [Readers -> Seq(Pages \cup {NoData})]
  BY ReaderIs DEF PairInv, Base, TypeInv, TypeOK, StatusInv
<1>2. Write(rd)
  BY <1>1, ReaderAt DEF Base
<1>3. /\ status' = status
      /\ out' = IF num_symb[rd] > 0
                  THEN [out EXCEPT ![rd] = Append(@, page[att[rd]].data)]
                  ELSE out
  BY <1>1, <1>2 DEF Write, IOError, Fail, Base, TypeInv, TypeOK
<1>4. [r \in Readers |-> Outcome(r)]' = [r \in Readers |-> Outcome(r)]
  BY <1>3 DEF Outcome
<1>5. CASE num_symb[rd] = 0
  BY <1>3, <1>4, <1>5
<1>6. CASE num_symb[rd] = 1
  <2>1. PICK v \in Writers : Good(rd, v)
    BY <1>1 DEF Copy, Nothing
  <2>2. Got(rd) < FileLen /\ page[att[rd]].data = Chunk(v, Got(rd) + 1) /\ Got(rd) \in Nat
    BY <1>1, <1>6, <2>1 DEF Good, Got
  <2>3. Len(File(v)) = FileLen /\ \A i \in 1..FileLen : File(v)[i] = Chunk(v, i)
    BY <2>1, FileLength
  <2>4. FC!IsPrefixOf(out[rd], File(v)) /\ Len(out[rd]) < Len(File(v))
    BY <2>1, <2>2, <2>3, SharmemAssumption DEF FC!IsPrefixOf, Good, Got
  <2>5. File(v)[Len(out[rd]) + 1] = page[att[rd]].data
    BY <2>2, <2>3, SharmemAssumption DEF Got
  <2>6. out' = [out EXCEPT ![rd] = Append(@, File(v)[Len(@) + 1])]
    BY <1>3, <1>6, <2>5
  <2>7. Outcome(rd) = "running"
    BY <1>1 DEF Outcome
  <2>8. QED
    BY <1>1, <1>4, <2>1, <2>4, <2>6, <2>7 DEF FC!Deliver
<1>7. QED
  BY <1>1, <1>5, <1>6

LEMMA OutcomeStep ==
  ASSUME NEW rd \in Readers, OnlyReader(rd), PairInv(rd), Act(rd),
         ~(pc[rd] = "write" /\ pc'[rd] = "v_empty")
  PROVE  [FC!Next]_(FC!vars)
<1>1. /\ rd \in Proc /\ rd \in Readers /\ rd \notin Writers /\ Base(rd) /\ Copy(rd)
      /\ Step(rd) /\ MemoryFrame(rd) /\ pc \in [Proc -> Labels]
      /\ status \in [Proc -> Statuses]
      /\ StatusInv
  BY ReaderIs, ActsStep, ActsFrame DEF PairInv, Base, TypeInv, TypeOK, Labels, Statuses
<1>2. out' = out
  <2>1. Write(rd) => out' = out
    BY <1>1 DEF Write, Go, IOError, datavars
  <2>2. QED
    BY <1>1, <2>1 DEF MemoryFrame
<1>3. CASE status' = status
  <2>1. [r \in Readers |-> Outcome(r)]' = [r \in Readers |-> Outcome(r)]
    BY <1>3 DEF Outcome
  <2>2. QED
    BY <1>2, <2>1 DEF FC!vars
<1>4. CASE status' # status
  <2>1. status[rd] = "running"
    BY <1>1, <1>4 DEF Step, Flow, StatusInv
  <2>2. \E s \in {"failure", "success", "killed", "segfault"} : status' = [status EXCEPT ![rd] = s]
    BY <1>1, <1>4 DEF Step, Flow
  <2>3. PICK s \in {"failure", "success", "killed", "segfault"} : status'[rd] = s
    BY <1>1, <2>2
  <2>4. Outcome(rd) = "running" /\ Outcome(rd)' = IF s = "success" THEN "success" ELSE "failure"
    BY <2>1, <2>3 DEF Outcome
  <2>5. [r \in Readers |-> Outcome(r)]'
          = [[r \in Readers |-> Outcome(r)] EXCEPT ![rd] = Outcome(rd)']
    <3>1. \A r \in Readers : r # rd => status'[r] = status[r]
      BY <1>1, <2>2, SharmemAssumption
    <3>2. \A r \in Readers : r # rd => Outcome(r)' = Outcome(r)
      BY <3>1 DEF Outcome
    <3>3. QED
      BY <1>1, <3>2
  <2>6. CASE s # "success"
    BY <1>1, <1>2, <2>4, <2>5, <2>6 DEF FC!Abort, FC!Next
  <2>7. CASE s = "success"
    <3>1. pc[rd] = "return"
      BY <1>1, <2>1, <2>3, <2>7 DEF Step, Flow
    <3>2. PICK v \in Writers : Good(rd, v)
      BY <1>1, <3>1 DEF Copy, Nothing
    <3>3. out[rd] = File(v)
      BY <1>1, <3>1, <3>2, WholeFile DEF Good
    <3>4. QED
      BY <1>1, <1>2, <2>4, <2>5, <2>7, <3>2, <3>3 DEF FC!Succeed, FC!Next
  <2>8. QED
    BY <2>6, <2>7
<1>5. QED
  BY <1>3, <1>4

(* Until a second reader gets in, what the reader prints is a copy of one  *)
(* writer's file, page after page, and it reports success only for a whole *)
(* one: the programs implement FileCopy.  A write() is the delivery, the   *)
(* return from main() the success, an error or a signal the giving up; all *)
(* else is unseen.                                                         *)
THEOREM CopiesFile == Spec => ImplementsFileCopy
<1>1. Init => FC!Init
  BY SharmemAssumption DEF Init, IPCInit, FC!Init, Outcome
<1>2. ASSUME PairsInv, [Next]_vars
      PROVE  [OneReaderIn' => FC!Next]_(FC!vars)
  <2> SUFFICES ASSUME NEW rd \in Readers, OnlyReader(rd)'
               PROVE  [FC!Next]_(FC!vars)
      BY DEF OneReaderIn
  <2>0. OnlyReader(rd) /\ PairInv(rd) /\ TypeInv
    BY <1>2, OnlyReaderBefore DEF PairsInv
  <2>1. CASE UNCHANGED vars
    BY <2>1 DEF vars, procvars, datavars, FC!vars, Outcome
  <2>2. CASE Next
    <3>1. PICK p \in Proc : Act(p)
      BY <2>2, NextActs
    <3>2. CASE p # rd
      <4>1. out' = out /\ \A r \in Readers : status'[r] = status[r]
        <5>1. CASE p \in Writers
          <6>1. /\ Step(p) /\ MemoryFrame(p) /\ p \notin Readers
                /\ status \in [Proc -> Statuses]
                /\ Readers \subseteq Proc
            BY <2>0, <3>1, <5>1, ActsStep, ActsFrame, SharmemAssumption
            DEF TypeInv, TypeOK, Statuses
          <6>2. QED
            BY <6>1 DEF Step, Flow, MemoryFrame
        <5>2. CASE p \notin Writers
          BY <2>0, <3>1, <3>2, <5>2, OtherReader DEF datavars
        <5>3. QED
          BY <5>1, <5>2
      <4>2. [r \in Readers |-> Outcome(r)]' = [r \in Readers |-> Outcome(r)]
        BY <4>1 DEF Outcome
      <4>3. QED
        BY <4>1, <4>2 DEF FC!vars
    <3>3. CASE p = rd /\ pc[rd] = "write" /\ pc'[rd] = "v_empty"
      BY <2>0, <3>1, <3>3, WriteDelivers DEF FC!Next, FC!vars
    <3>4. CASE p = rd /\ ~(pc[rd] = "write" /\ pc'[rd] = "v_empty")
      BY <2>0, <3>1, <3>4, OutcomeStep
    <3>5. QED
      BY <3>2, <3>3, <3>4
  <2>3. QED
    BY <1>2, <2>1, <2>2
<1>3. QED
  BY <1>1, <1>2, PairsInit, PairsStep, PTL DEF Spec, ImplementsFileCopy
=============================================================================
