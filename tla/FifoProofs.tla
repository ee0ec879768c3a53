------------------------------ MODULE FifoProofs ------------------------------
(***************************************************************************)
(* For any number of readers and writers, whoever is killed or fails: a    *)
(* private FIFO has one writer, what a reader prints and will print is the *)
(* beginning of that writer's file, and a reader that returns 0 has all of *)
(* it unless its writer failed.                                            *)
(***************************************************************************)
EXTENDS Fifo, FiniteSetTheorems, TLAPS

(* A reader has not yet sent its pid, a writer has not yet got one. *)
Early == {"open_private", "open_general", "asleep", "transfer_pid"}
Seeking == {"open_general", "asleep", "get_pid"}

(* A writer has opened the private FIFO, or has ended. *)
Opened == {"open_file", "read_file", "write_private", "close_general", "close_private",
           "exit", "done"}

(* A pid is in one place: with its reader, in the general FIFO, or with one *)
(* writer.                                                                  *)
PidInv ==
  /\ \A r \in Readers : pc[r] \in Early =>
       /\ \A k \in 1..Len(general) : general[k] # r
       /\ \A w \in Writers : pid[w] # r
  /\ \A j, k \in 1..Len(general) : general[j] = general[k] => j = k
  /\ \A w \in Writers, k \in 1..Len(general) : general[k] # pid[w]
  /\ \A v, w \in Writers : pid[v] = pid[w] /\ pid[v] # NoPid => v = w
  /\ \A w \in Writers : pc[w] \in Seeking => pid[w] = NoPid /\ pos[w] = 0

(* What a reader has printed, holds and will find. *)
Stream(r) == (out[r] \o buff[r]) \o private[r]

(* The stream has what its writer has read from its file, but the block     *)
(* that the writer is about to write.                                       *)
WriterInv(w) ==
  pid[w] \in Readers =>
    /\ IsPrefixOfFile(Stream(pid[w]), w) /\ Len(Stream(pid[w])) <= pos[w]
    /\ pc[w] \in {"open_other", "open_file"} => pos[w] = 0
    /\ pc[w] = "read_file" => Len(Stream(pid[w])) = pos[w]
    /\ pc[w] = "write_private" => Len(Stream(pid[w])) + 1 = pos[w]
    /\ pc[w] \in {"close_general", "close_private"} \/ status[w] = "success" =>
         Len(Stream(pid[w])) = FileLen
    /\ pos[w] > 0 \/ pc[w] \in Opened \ {"exit", "done"} => served[pid[w]]

LostInv(w) ==
  pid[w] = NoPid =>
    pc[w] \in Seeking \cup {"open_other", "exit", "done"} /\ status[w] # "success"

StreamInv ==
  /\ \A r \in Readers : served[r] => \E w \in Writers : pid[w] = r /\ pc[w] \in Opened
  /\ \A r \in Readers : (\A w \in Writers : pid[w] # r) => Stream(r) = <<>>
  /\ \A w \in Writers : WriterInv(w) /\ LostInv(w)

(* A reader that has come to the end of its FIFO has nothing left there,    *)
(* and its writer has ended.                                                *)
ReaderInv(r) ==
  /\ pc[r] \notin {"write_out", "exit", "done"} => buff[r] = <<>>
  /\ pc[r] \in {"read_private", "write_out", "close"} \/ status[r] = "success" => served[r]
  /\ pc[r] = "close" \/ status[r] = "success" =>
       /\ buff[r] = <<>> /\ private[r] = <<>>
       /\ \A w \in Writers : pid[w] = r => pc[w] = "done"

EndInv ==
  /\ \A p \in Proc : /\ status[p] = "success" => pc[p] = "done"
                     /\ pc[p] \in {"exit", "done"} => status[p] # "running"
  /\ \A r \in Readers : ReaderInv(r)

IInv == TypeOK /\ PidInv /\ StreamInv /\ EndInv

-----------------------------------------------------------------------------
(* Who is who. *)
LEMMA Parties ==
  /\ \A r \in Readers : r \in Proc /\ r \notin Writers /\ r # NoPid
  /\ \A w \in Writers : w \in Proc /\ w \notin Readers
  /\ NoPid \notin Readers
  /\ FileLen \in Nat /\ Capacity \in Nat
BY FifoAssumption DEF Proc

LEMMA PcType == ASSUME TypeOK PROVE DOMAIN pc = Proc /\ DOMAIN status = Proc
BY DEF TypeOK

LEMMA InitInv == Init => IInv
<1> SUFFICES ASSUME Init PROVE IInv
  OBVIOUS
<1>1. TypeOK
  BY Parties DEF Init, TypeOK, Proc, Blocks
<1>2. PidInv
  BY Parties DEF Init, PidInv, Early, Seeking
<1>3. StreamInv
  BY Parties DEF Init, StreamInv, WriterInv, LostInv, Stream, Seeking
<1>4. EndInv
  BY Parties DEF Init, EndInv, ReaderInv, Proc
<1>5. QED
  BY <1>1, <1>2, <1>3, <1>4 DEF IInv

(* The next-state relation, one action after the other. *)
ReaderCalls(r) ==
  \/ OpenPrivate(r) \/ OpenGeneralWr(r) \/ TransferPid(r) \/ Select(r)
  \/ SelectTimeout(r) \/ ReadPrivate(r) \/ WriteOut(r) \/ ReaderReturns(r)

(* A step that changes neither a FIFO, nor a file, nor the screen; the      *)
(* general FIFO may lose what it has.                                       *)
DataUnchanged ==
  /\ UNCHANGED <<private, pid, pos, buff, out>>
  /\ general' = general \/ general' = <<>>

LEMMA Quiet ==
  ASSUME NEW p \in Proc, NEW how, NEW from
  PROVE  /\ End(p, how) => general' = general \/ general' = <<>>
         /\ LetGo(p) => general' = general \/ general' = <<>>
         /\ Exit(p) => DataUnchanged
         /\ Kill(p) => DataUnchanged
         /\ IOError(p, from) => DataUnchanged
BY DEF End, LetGo, Exit, Kill, IOError, DataUnchanged

-----------------------------------------------------------------------------
LEMMA TypeStep == IInv /\ [Next]_vars => TypeOK'
<1> SUFFICES ASSUME IInv, [Next]_vars PROVE TypeOK'
  OBVIOUS
<1>0. TypeOK
  BY DEF IInv
<1> USE <1>0 DEF TypeOK
<1>q. general' = general \/ general' = <<>> => general' \in Seq(Readers)
  <2>1. general \in Seq(Readers) /\ <<>> \in Seq(Readers)
    OBVIOUS
  <2>2. QED
    BY ONLY <2>1
<1>1. ASSUME NEW p \in Proc, NEW how \in {"running", "success", "failure", "killed"}, End(p, how)
      PROVE  pc' \in [Proc -> {"open_private", "open_general", "asleep", "transfer_pid",
                      "select", "read_private", "write_out", "close", "get_pid",
                      "open_other", "open_file", "read_file", "write_private",
                      "close_general", "close_private", "exit", "done"}]
             /\ status' \in [Proc -> {"running", "success", "failure", "killed"}]
             /\ general' \in Seq(Readers)
  BY <1>1, <1>q, Quiet DEF End
<1>2. ASSUME NEW p \in Proc, Exit(p) PROVE TypeOK'
  BY <1>1, <1>2 DEF Exit
<1>3. ASSUME NEW p \in Proc, Kill(p) PROVE TypeOK'
  BY <1>1, <1>3 DEF Kill
<1>4. ASSUME NEW p \in Proc, NEW from, IOError(p, from) PROVE TypeOK'
  BY <1>4 DEF IOError, Fail
<1>5. ASSUME NEW r \in Readers, ReaderCalls(r) PROVE TypeOK'
  <2>0. r \in Proc
    BY Parties
  <2>1. CASE OpenPrivate(r)
    BY <2>0, <2>1 DEF OpenPrivate, Go
  <2>2. CASE OpenGeneralWr(r)
    BY <2>0, <2>2 DEF OpenGeneralWr, OpenGeneral
  <2>3. CASE TransferPid(r)
    <3>1. CASE GeneralRdEnds = {}
      BY <2>0, <2>3, <1>1, <3>1 DEF TransferPid
    <3>2. CASE GeneralRdEnds # {}
      <4>1. Append(general, r) \in Seq(Readers)
        OBVIOUS
      <4>2. QED
        BY <2>0, <2>3, <3>2, <4>1 DEF TransferPid, Go
    <3>3. QED
      BY <3>1, <3>2
  <2>4. CASE Select(r)
    BY <2>0, <2>4 DEF Select, Go
  <2>5. CASE SelectTimeout(r)
    BY <2>0, <2>5 DEF SelectTimeout, Fail
  <2>6. CASE ReadPrivate(r)
    <3>1. CASE private[r] # <<>>
      <4>1. /\ private[r] \in Seq(Blocks) /\ Head(private[r]) \in Blocks
            /\ Tail(private[r]) \in Seq(Blocks) /\ Len(Tail(private[r])) <= Capacity
        BY <3>1, Parties
      <4>2. /\ buff' = [buff EXCEPT ![r] = <<Head(private[r])>>]
            /\ private' = [private EXCEPT ![r] = Tail(private[r])]
            /\ pc' = [pc EXCEPT ![r] = "write_out"]
            /\ UNCHANGED <<status, general, pid, served, pos, out>>
        BY <2>6, <3>1 DEF ReadPrivate, Go
      <4>3. buff' \in [Readers -> Seq(Blocks)] /\ private' \in [Readers -> Seq(Blocks)]
        BY <4>1, <4>2
      <4>4. \A q \in Readers : Len(private'[q]) <= Capacity
        BY <4>1, <4>2
      <4>5. QED
        BY <2>0, <4>2, <4>3, <4>4
    <3>2. CASE private[r] = <<>>
      BY <2>0, <2>6, <3>2 DEF ReadPrivate, Go
    <3>3. QED
      BY <3>1, <3>2
  <2>7. CASE WriteOut(r)
    <3>1. out[r] \o buff[r] \in Seq(Blocks)
      OBVIOUS
    <3>2. CASE IOError(r, "write_out")
      BY <2>0, <1>4, <3>2
    <3>3. CASE ~IOError(r, "write_out")
      <4>1. /\ out' = [out EXCEPT ![r] = out[r] \o buff[r]] /\ buff' = [buff EXCEPT ![r] = <<>>]
            /\ pc' = [pc EXCEPT ![r] = "read_private"]
            /\ UNCHANGED <<status, general, private, pid, served, pos>>
        BY <2>7, <3>3 DEF WriteOut, Go
      <4>2. out' \in [Readers -> Seq(Blocks)] /\ buff' \in [Readers -> Seq(Blocks)]
        BY <3>1, <4>1
      <4>3. QED
        BY <2>0, <4>1, <4>2
    <3>4. QED
      BY <3>2, <3>3
  <2>8. CASE ReaderReturns(r)
    BY <2>0, <2>8, <1>1 DEF ReaderReturns
  <2>9. QED
    BY <1>5, <2>1, <2>2, <2>3, <2>4, <2>5, <2>6, <2>7, <2>8 DEF ReaderCalls
<1>6. ASSUME NEW w \in Writers, Writer(w) PROVE TypeOK'
  <2>0. w \in Proc
    BY Parties
  <2>1. CASE OpenGeneralRd(w)
    BY <2>0, <2>1 DEF OpenGeneralRd, OpenGeneral
  <2>2. CASE GetPid(w)
    <3>1. CASE general # <<>>
      <4>1. Head(general) \in Readers /\ Tail(general) \in Seq(Readers)
        BY <3>1
      <4>2. QED
        BY <2>0, <2>2, <3>1, <4>1 DEF GetPid, Go
    <3>2. CASE general = <<>>
      BY <2>0, <2>2, <3>2 DEF GetPid, Go
    <3>3. QED
      BY <3>1, <3>2
  <2>3. CASE OpenOther(w)
    BY <2>0, <2>3 DEF OpenOther, Go, Fail
  <2>4. CASE OpenFile(w)
    BY <2>0, <2>4, <1>4 DEF OpenFile, Go
  <2>5. CASE ReadFile(w)
    <3>1. CASE IOError(w, "read_file")
      BY <2>0, <1>4, <3>1
    <3>2. CASE pos[w] < FileLen /\ pos' = [pos EXCEPT ![w] = @ + 1] /\ ~IOError(w, "read_file")
      <4>1. pos[w] + 1 \in 0..FileLen
        BY <3>2, Parties
      <4>2. pos' \in [Writers -> 0..FileLen]
        BY <3>2, <4>1
      <4>3. QED
        BY <2>0, <2>5, <3>2, <4>2 DEF ReadFile, Go
    <3>3. CASE pos' = pos /\ ~IOError(w, "read_file")
      BY <2>0, <2>5, <3>3 DEF ReadFile, Go
    <3>4. QED
      BY <2>5, <3>1, <3>2, <3>3 DEF ReadFile
  <2>6. CASE WritePrivate(w)
    <3>1. CASE HasPrivate(pid[w])
      <4>0. pc[w] = "write_private" /\ pid[w] \in Readers \cup {NoPid} /\ pos[w] \in 0..FileLen
        BY <2>6 DEF WritePrivate
      <4>a. pid[w] \in Readers
        BY <4>0 DEF IInv, StreamInv, LostInv, Seeking
      <4>b. Len(Stream(pid[w])) + 1 = pos[w]
        BY <4>0, <4>a DEF IInv, StreamInv, WriterInv
      <4>c. Len(Stream(pid[w])) \in Nat
        BY <4>a DEF Stream
      <4>1. pid[w] \in Readers /\ pos[w] \in 1..FileLen
        BY ONLY <4>0, <4>a, <4>b, <4>c, Parties
      <4>2. Block(w, pos[w]) \in Blocks
        BY <4>1 DEF Blocks
      <4>3. /\ Append(private[pid[w]], Block(w, pos[w])) \in Seq(Blocks)
            /\ Len(private[pid[w]]) < Capacity =>
                 Len(Append(private[pid[w]], Block(w, pos[w]))) <= Capacity
        BY <4>1, <4>2, Parties
      <4>4. QED
        BY <2>0, <2>6, <3>1, <4>1, <4>3 DEF WritePrivate, Go
    <3>2. CASE ~HasPrivate(pid[w])
      BY <2>0, <2>6, <3>2, <1>1 DEF WritePrivate
    <3>3. QED
      BY <3>1, <3>2
  <2>7. CASE CloseGeneral(w)
    BY <2>0, <2>7, <1>q, Quiet DEF CloseGeneral, Go
  <2>8. CASE WriterReturns(w)
    BY <2>0, <2>8, <1>1 DEF WriterReturns
  <2>9. QED
    BY <1>2, <1>6, <2>0, <2>1, <2>2, <2>3, <2>4, <2>5, <2>6, <2>7, <2>8 DEF Writer
<1>7. CASE UNCHANGED vars
  BY <1>7 DEF vars
<1>8. QED
  BY <1>2, <1>3, <1>5, <1>6, <1>7, Parties DEF Next, Reader, ReaderCalls

-----------------------------------------------------------------------------
(* Where the processes are. *)

(* A process that has passed these phases does not come back to them. *)
PhasesGoOn ==
  /\ \A r \in Readers : pc'[r] \in Early => pc[r] \in Early
  /\ \A w \in Writers : pc'[w] \in Seeking => pc[w] \in Seeking

LEMMA MoveGoesOn ==
  ASSUME TypeOK, NEW p \in Proc, NEW to, pc' = [pc EXCEPT ![p] = to],
         to \notin Early \cup Seeking
  PROVE  PhasesGoOn
BY Parties, PcType DEF PhasesGoOn

LEMMA PhaseStep == ASSUME TypeOK, [Next]_vars PROVE PhasesGoOn
<1>1. ASSUME NEW p \in Proc, NEW how, End(p, how) PROVE PhasesGoOn
  BY <1>1, MoveGoesOn DEF End, Early, Seeking
<1>2. ASSUME NEW p \in Proc, Fail(p) PROVE PhasesGoOn
  BY <1>2, MoveGoesOn DEF Fail, Early, Seeking
<1>3. ASSUME NEW p \in Proc, NEW from, NEW to, Go(p, from, to), to \notin Early \cup Seeking
      PROVE  PhasesGoOn
  BY <1>3, MoveGoesOn DEF Go
<1>4. ASSUME NEW p \in Proc, Exit(p) \/ Kill(p) PROVE PhasesGoOn
  BY <1>1, <1>4 DEF Exit, Kill
<1>5. ASSUME NEW p \in Proc, NEW from, IOError(p, from) PROVE PhasesGoOn
  BY <1>2, <1>5 DEF IOError
<1>6. ASSUME NEW r \in Readers, ReaderCalls(r) PROVE PhasesGoOn
  <2>0. r \in Proc /\ r \notin Writers
    BY Parties
  <2>1. CASE OpenPrivate(r)
    BY <2>0, <2>1, PcType, Parties DEF OpenPrivate, Go, PhasesGoOn, Early
  <2>2. CASE OpenGeneralWr(r)
    <3>1. pc[r] = "open_general"
      BY <2>2 DEF OpenGeneralWr, OpenGeneral
    <3>2. \A q \in Proc : \/ q = r
                          \/ q \in Writers /\ pc[q] = "asleep"
                          \/ pc'[q] = pc[q]
      BY <2>2 DEF OpenGeneralWr, OpenGeneral
    <3>3. QED
      BY <2>0, <3>1, <3>2, Parties DEF PhasesGoOn, Early, Seeking
  <2>3. CASE TransferPid(r)
    BY <2>0, <2>3, <1>1, <1>3 DEF TransferPid, Early, Seeking
  <2>4. CASE Select(r)
    BY <2>0, <2>4, <1>3 DEF Select, Early, Seeking
  <2>5. CASE SelectTimeout(r)
    BY <2>0, <2>5, <1>2 DEF SelectTimeout
  <2>6. CASE ReadPrivate(r)
    BY <2>0, <2>6, <1>3 DEF ReadPrivate, Early, Seeking
  <2>7. CASE WriteOut(r)
    BY <2>0, <2>7, <1>3, <1>5 DEF WriteOut, Early, Seeking
  <2>8. CASE ReaderReturns(r)
    BY <2>0, <2>8, <1>1 DEF ReaderReturns
  <2>9. QED
    BY <1>6, <2>1, <2>2, <2>3, <2>4, <2>5, <2>6, <2>7, <2>8 DEF ReaderCalls
<1>7. ASSUME NEW w \in Writers, Writer(w) PROVE PhasesGoOn
  <2>0. w \in Proc /\ w \notin Readers
    BY Parties
  <2>1. CASE OpenGeneralRd(w)
    <3>1. pc[w] = "open_general"
      BY <2>1 DEF OpenGeneralRd, OpenGeneral
    <3>2. \A q \in Proc : \/ q = w
                          \/ q \in Readers /\ pc[q] = "asleep"
                          \/ pc'[q] = pc[q]
      BY <2>1 DEF OpenGeneralRd, OpenGeneral
    <3>3. QED
      BY <2>0, <3>1, <3>2, Parties DEF PhasesGoOn, Early, Seeking
  <2>2. CASE GetPid(w)
    BY <2>0, <2>2, <1>3 DEF GetPid, Early, Seeking
  <2>3. CASE OpenOther(w)
    BY <2>0, <2>3, <1>2, <1>3 DEF OpenOther, Early, Seeking
  <2>4. CASE OpenFile(w)
    BY <2>0, <2>4, <1>3, <1>5 DEF OpenFile, Early, Seeking
  <2>5. CASE ReadFile(w)
    BY <2>0, <2>5, <1>3, <1>5 DEF ReadFile, Early, Seeking
  <2>6. CASE WritePrivate(w)
    BY <2>0, <2>6, <1>1, <1>3 DEF WritePrivate, Early, Seeking
  <2>7. CASE CloseGeneral(w)
    BY <2>0, <2>7, <1>3 DEF CloseGeneral, Early, Seeking
  <2>8. CASE WriterReturns(w)
    BY <2>0, <2>8, <1>1 DEF WriterReturns
  <2>9. QED
    BY <1>4, <1>7, <2>0, <2>1, <2>2, <2>3, <2>4, <2>5, <2>6, <2>7, <2>8 DEF Writer
<1>8. CASE UNCHANGED vars
  BY <1>8 DEF vars, PhasesGoOn
<1>9. QED
  BY <1>4, <1>6, <1>7, <1>8, Parties DEF Next, Reader, ReaderCalls

-----------------------------------------------------------------------------
(* The pids. *)

(* The calls that move no pid, but for what the general FIFO loses; only    *)
(* ReadFile() moves a position.                                             *)
LEMMA PidsStay ==
  ASSUME TypeOK, [Next]_vars,
         ~ \E r \in Readers : TransferPid(r) /\ general' = Append(general, r),
         ~ \E w \in Writers : GetPid(w)
  PROVE  /\ pid' = pid /\ (general' = general \/ general' = <<>>)
         /\ \A w \in Writers : pos'[w] = pos[w] \/ pc[w] = "read_file"
<1>1. ASSUME NEW p \in Proc, Exit(p) \/ Kill(p)
      PROVE  pid' = pid /\ pos' = pos /\ (general' = general \/ general' = <<>>)
  BY <1>1, Quiet DEF DataUnchanged
<1>2. ASSUME NEW p \in Proc, NEW from, IOError(p, from)
      PROVE  pid' = pid /\ pos' = pos /\ (general' = general \/ general' = <<>>)
  BY <1>2, Quiet DEF DataUnchanged
<1>3. ASSUME NEW r \in Readers, ReaderCalls(r)
      PROVE  pid' = pid /\ pos' = pos /\ (general' = general \/ general' = <<>>)
  <2>0. r \in Proc
    BY Parties
  <2>1. CASE OpenPrivate(r) \/ OpenGeneralWr(r) \/ Select(r) \/ SelectTimeout(r) \/ ReadPrivate(r)
    BY <2>1 DEF OpenPrivate, OpenGeneralWr, OpenGeneral, Select, SelectTimeout, ReadPrivate
  <2>2. CASE TransferPid(r)
    BY <2>0, <2>2, Quiet DEF TransferPid
  <2>3. CASE WriteOut(r)
    BY <2>0, <2>3, <1>2 DEF WriteOut
  <2>4. CASE ReaderReturns(r)
    BY <2>0, <2>4, Quiet DEF ReaderReturns
  <2>5. QED
    BY <1>3, <2>1, <2>2, <2>3, <2>4 DEF ReaderCalls
<1>4. ASSUME NEW w \in Writers, Writer(w)
      PROVE  /\ pid' = pid /\ (general' = general \/ general' = <<>>)
             /\ \A v \in Writers : pos'[v] = pos[v] \/ pc[v] = "read_file"
  <2>0. w \in Proc
    BY Parties
  <2>1. CASE OpenGeneralRd(w) \/ OpenOther(w)
    BY <2>1 DEF OpenGeneralRd, OpenGeneral, OpenOther
  <2>2. CASE OpenFile(w)
    BY <2>0, <2>2, <1>2 DEF OpenFile
  <2>3. CASE ReadFile(w)
    <3>1. CASE IOError(w, "read_file")
      BY <2>0, <1>2, <3>1
    <3>2. CASE ~IOError(w, "read_file")
      BY <2>3, <3>2 DEF ReadFile, Go, TypeOK
    <3>3. QED
      BY <3>1, <3>2
  <2>4. CASE WritePrivate(w)
    BY <2>0, <2>4, Quiet DEF WritePrivate
  <2>5. CASE CloseGeneral(w)
    BY <2>0, <2>5, Quiet DEF CloseGeneral
  <2>6. CASE WriterReturns(w)
    BY <2>0, <2>6, Quiet DEF WriterReturns
  <2>7. QED
    BY <1>1, <1>4, <2>0, <2>1, <2>2, <2>3, <2>4, <2>5, <2>6 DEF Writer
<1>5. CASE UNCHANGED vars
  BY <1>5 DEF vars
<1>6. QED
  BY <1>1, <1>3, <1>4, <1>5, Parties DEF Next, Reader, ReaderCalls

LEMMA PidStep == ASSUME IInv, [Next]_vars PROVE PidInv'
<1>0. TypeOK /\ PidInv /\ PhasesGoOn
  BY PhaseStep DEF IInv
<1>1. ASSUME NEW r \in Readers, TransferPid(r), general' = Append(general, r) PROVE PidInv'
  <2>1. general \in Seq(Readers) /\ pid' = pid /\ pos' = pos
    BY <1>0, <1>1 DEF TypeOK, TransferPid
  <2>2. /\ Len(general') = Len(general) + 1 /\ Len(general) \in Nat
        /\ general'[Len(general) + 1] = r /\ \A k \in 1..Len(general) : general'[k] = general[k]
    BY <1>1, <2>1
  <2>3. pc[r] = "transfer_pid" /\ pc'[r] \notin Early
    <3>1. pc[r] = "transfer_pid" /\ (pc' = [pc EXCEPT ![r] = "select"] \/ pc' = [pc EXCEPT ![r] = "done"])
      BY <1>1 DEF TransferPid, Go, End
    <3>2. QED
      BY <1>0, <3>1, Parties, PcType DEF Early
  <2>4. (\A k \in 1..Len(general) : general[k] # r) /\ \A w \in Writers : pid[w] # r
    BY <1>0, <2>3 DEF PidInv, Early
  <2>5. \A k \in 1..Len(general') : k \in 1..Len(general) \/ k = Len(general) + 1
    BY <2>2
  <2>6. \A q \in Readers : pc'[q] \in Early =>
          (\A k \in 1..Len(general') : general'[k] # q) /\ \A w \in Writers : pid'[w] # q
    <3> SUFFICES ASSUME NEW q \in Readers, pc'[q] \in Early
                 PROVE (\A k \in 1..Len(general') : general'[k] # q) /\ \A w \in Writers : pid'[w] # q
      OBVIOUS
    <3>1. pc[q] \in Early /\ q # r
      BY <1>0, <2>3 DEF PhasesGoOn
    <3>2. QED
      BY <1>0, <2>1, <2>2, <2>5, <3>1 DEF PidInv
  <2>7. \A j, k \in 1..Len(general') : general'[j] = general'[k] => j = k
    BY <1>0, <2>2, <2>4, <2>5 DEF PidInv
  <2>8. \A w \in Writers, k \in 1..Len(general') : general'[k] # pid'[w]
    BY <1>0, <2>1, <2>2, <2>4, <2>5 DEF PidInv
  <2>9. QED
    BY <1>0, <2>1, <2>6, <2>7, <2>8 DEF PidInv, PhasesGoOn
<1>2. ASSUME NEW w \in Writers, GetPid(w) PROVE PidInv'
  <2>1. /\ w \in Proc /\ pc[w] = "get_pid" /\ pc'[w] \notin Seeking
        /\ \A q \in Proc : q # w => pc'[q] = pc[q]
        /\ pos' = pos
    BY <1>0, <1>2, Parties, PcType DEF GetPid, Go, Seeking
  <2>2. CASE general # <<>>
    <3>1. /\ general \in Seq(Readers) /\ pid' = [pid EXCEPT ![w] = general[1]] /\ general' = Tail(general)
          /\ pid \in [Writers -> Readers \cup {NoPid}]
      BY <1>0, <1>2, <2>2 DEF GetPid, TypeOK
    <3>2. /\ Len(general) \in Nat /\ Len(general) > 0 /\ Len(general') = Len(general) - 1
          /\ \A k \in 1..Len(general') : k + 1 \in 1..Len(general) /\ general'[k] = general[k + 1]
      BY <2>2, <3>1
    <3>3. 1 \in 1..Len(general) /\ pid'[w] = general[1] /\ \A v \in Writers : v # w => pid'[v] = pid[v]
      BY <3>1, <3>2
    <3>4. \A r \in Readers : pc'[r] \in Early =>
            (\A k \in 1..Len(general') : general'[k] # r) /\ \A v \in Writers : pid'[v] # r
      BY <1>0, <3>2, <3>3 DEF PidInv, PhasesGoOn
    <3>5. \A j, k \in 1..Len(general') : general'[j] = general'[k] => j = k
      <4> SUFFICES ASSUME NEW j \in 1..Len(general'), NEW k \in 1..Len(general'), general'[j] = general'[k]
                   PROVE j = k
        OBVIOUS
      <4>1. j + 1 = k + 1
        BY <1>0, <3>2 DEF PidInv
      <4>2. QED
        BY <4>1
    <3>6. \A v \in Writers, k \in 1..Len(general') : general'[k] # pid'[v]
      <4> SUFFICES ASSUME NEW v \in Writers, NEW k \in 1..Len(general') PROVE general'[k] # pid'[v]
        OBVIOUS
      <4>1. CASE v = w
        <5>1. general[1] # general[k + 1]
          BY <1>0, <3>2, <3>3 DEF PidInv
        <5>2. QED
          BY <3>2, <3>3, <4>1, <5>1
      <4>2. CASE v # w
        BY <1>0, <3>2, <3>3, <4>2 DEF PidInv
      <4>3. QED
        BY <4>1, <4>2
    <3>7. \A u, v \in Writers : pid'[u] = pid'[v] /\ pid'[u] # NoPid => u = v
      BY <1>0, <3>3 DEF PidInv
    <3>8. \A v \in Writers : pc'[v] \in Seeking => pid'[v] = NoPid /\ pos'[v] = 0
      BY <1>0, <2>1, <3>3, Parties DEF PidInv
    <3>9. QED
      BY <3>4, <3>5, <3>6, <3>7, <3>8 DEF PidInv
  <2>3. CASE general = <<>>
    <3>1. pid' = pid /\ general' = general
      BY <1>2, <2>3 DEF GetPid
    <3>2. QED
      BY <1>0, <2>1, <3>1 DEF PidInv, PhasesGoOn
  <2>4. QED
    BY <2>2, <2>3
<1>3. CASE /\ ~ \E r \in Readers : TransferPid(r) /\ general' = Append(general, r)
           /\ ~ \E w \in Writers : GetPid(w)
  <2>1. /\ pid' = pid /\ (general' = general \/ general' = <<>>)
        /\ \A w \in Writers : pos'[w] = pos[w] \/ pc[w] = "read_file"
    BY <1>0, <1>3, PidsStay
  <2>2. \A w \in Writers : pc'[w] \in Seeking => pid'[w] = NoPid /\ pos'[w] = 0
    BY <1>0, <2>1 DEF PidInv, PhasesGoOn, Seeking
  <2>3. CASE general' = general
    BY <1>0, <2>1, <2>2, <2>3 DEF PidInv, PhasesGoOn
  <2>4. CASE general' = <<>>
    <3>1. \A k \in 1..Len(general') : FALSE
      BY <2>4
    <3>2. QED
      BY <1>0, <2>1, <2>2, <3>1 DEF PidInv, PhasesGoOn
  <2>5. QED
    BY <2>1, <2>3, <2>4
<1>4. QED
  BY <1>1, <1>2, <1>3

-----------------------------------------------------------------------------
(* What a step does to one writer. *)

Still(q) == pc'[q] = pc[q] /\ status'[q] = status[q]

WriterFrom(w, from, to) ==
  /\ pc[w] = from /\ pc'[w] = to
  /\ status'[w] = status[w] /\ pid'[w] = pid[w]

Broken(q) ==
  pc[q] # "done" /\ pc'[q] \in {"exit", "done"} /\ status'[q] \in {"failure", "killed"}

WriterMove(w) ==
  \/ Still(w) /\ pid'[w] = pid[w] /\ pos'[w] = pos[w]
  \/ /\ pc[w] \in Seeking /\ pc'[w] \in Seeking
     /\ status'[w] = status[w] /\ pid'[w] = pid[w] /\ pos'[w] = pos[w]
  \/ GetPid(w)
  \/ WriterFrom(w, "open_other", "open_file") /\ pos'[w] = pos[w]
       /\ pid[w] \in Readers /\ served'[pid[w]]
  \/ Broken(w) /\ pid'[w] = pid[w] /\ pos'[w] = pos[w]
  \/ WriterFrom(w, "open_file", "read_file") /\ pos'[w] = pos[w]
  \/ WriterFrom(w, "read_file", "write_private") /\ pos'[w] = pos[w] + 1
  \/ WriterFrom(w, "read_file", "close_general") /\ pos'[w] = pos[w] /\ pos[w] = FileLen
  \/ WriterFrom(w, "write_private", "read_file") /\ pos'[w] = pos[w] /\ WritePrivate(w)
  \/ WriterFrom(w, "close_general", "close_private") /\ pos'[w] = pos[w]
  \/ /\ pc[w] = "close_private" /\ pc'[w] = "done" /\ status'[w] = "success"
     /\ pid'[w] = pid[w] /\ pos'[w] = pos[w]

(* What it does to one reader. *)
ReaderMove(r) ==
  \/ Still(r) /\ buff'[r] = buff[r]
  \/ /\ pc[r] \in Early /\ pc'[r] \in Early \cup {"select"}
     /\ status'[r] = status[r] /\ buff'[r] = buff[r]
  \/ /\ pc[r] = "select" /\ pc'[r] = "read_private" /\ Readable(r)
     /\ status'[r] = status[r] /\ buff'[r] = buff[r]
  \/ Broken(r) /\ buff'[r] = buff[r]
  \/ pc[r] = "read_private" /\ pc'[r] = "write_out" /\ status'[r] = status[r]
  \/ /\ pc[r] = "read_private" /\ pc'[r] = "close" /\ status'[r] = status[r]
     /\ private[r] = <<>> /\ PrivateWrEnds(r) = {} /\ buff'[r] = buff[r]
     /\ private' = private /\ pid' = pid /\ \A w \in Writers : Still(w)
  \/ pc[r] = "write_out" /\ pc'[r] = "read_private" /\ buff'[r] = <<>> /\ status'[r] = status[r]
  \/ pc[r] = "close" /\ pc'[r] = "done" /\ status'[r] = "success" /\ buff'[r] = buff[r]

(* A process that is not the one that makes the step. *)
LEMMA OthersStill ==
  ASSUME TypeOK, NEW p \in Proc, NEW q \in Proc, q # p, NEW how, NEW from, NEW to
  PROVE  /\ End(p, how) => Still(q)
         /\ Fail(p) => Still(q)
         /\ Go(p, from, to) => pc'[q] = pc[q]
BY PcType DEF End, Fail, Go, Still

LEMMA OwnMove ==
  ASSUME TypeOK, NEW p \in Proc, NEW how, NEW from, NEW to
  PROVE  /\ End(p, how) => pc'[p] = "done" /\ status'[p] = how
         /\ Fail(p) => pc'[p] = "exit" /\ status'[p] = "failure"
         /\ Go(p, from, to) => pc[p] = from /\ pc'[p] = to
BY PcType DEF End, Fail, Go

(* The steps that end or break a process. *)
LEMMA BrokenMove ==
  ASSUME IInv, NEW p \in Proc, NEW q \in Proc, NEW from, from # "done",
         Exit(p) \/ Kill(p) \/ IOError(p, from)
  PROVE  /\ q # p => Still(q)
         /\ Broken(p)
         /\ UNCHANGED <<private, pid, served, pos, buff, out>>
<1>0. TypeOK /\ EndInv
  BY DEF IInv
<1>1. CASE Exit(p)
  <2>1. pc[p] = "exit" /\ End(p, status[p]) /\ UNCHANGED <<private, pid, served, pos, buff, out>>
    BY <1>1 DEF Exit
  <2>2. status[p] \in {"failure", "killed"}
    BY <1>0, <2>1 DEF EndInv, TypeOK
  <2>3. QED
    BY <1>0, <2>1, <2>2, OthersStill, OwnMove DEF Broken
<1>2. CASE Kill(p)
  BY <1>0, <1>2, OthersStill, OwnMove DEF Kill, Broken
<1>3. CASE IOError(p, from)
  BY <1>0, <1>3, OthersStill, OwnMove DEF IOError, Broken
<1>4. QED
  BY <1>1, <1>2, <1>3

LEMMA WriterMoves == ASSUME IInv, [Next]_vars, NEW w \in Writers PROVE WriterMove(w)
<1>0. TypeOK /\ w \in Proc /\ w \notin Readers
  BY Parties DEF IInv
<1>1. ASSUME NEW p \in Proc, NEW from, from # "done",
             Exit(p) \/ Kill(p) \/ IOError(p, from)
      PROVE  WriterMove(w)
  BY <1>0, <1>1, BrokenMove DEF WriterMove
<1>2. ASSUME NEW r \in Readers, ReaderCalls(r) PROVE WriterMove(w)
  <2>0. r \in Proc /\ r # w
    BY <1>0, Parties
  <2>1. CASE OpenGeneralWr(r)
    <3>1. (pc[w] = "asleep" /\ pc'[w] = "get_pid") \/ pc'[w] = pc[w]
      BY <1>0, <2>0, <2>1 DEF OpenGeneralWr, OpenGeneral
    <3>2. QED
      BY <2>1, <3>1 DEF OpenGeneralWr, OpenGeneral, WriterMove, Still, Seeking
  <2>2. CASE OpenPrivate(r) \/ Select(r) \/ SelectTimeout(r)
    BY <1>0, <2>0, <2>2, OthersStill DEF OpenPrivate, Select, SelectTimeout, WriterMove, Still
  <2>3. CASE TransferPid(r)
    BY <1>0, <2>0, <2>3, OthersStill DEF TransferPid, WriterMove, Still
  <2>4. CASE ReadPrivate(r)
    BY <1>0, <2>0, <2>4, OthersStill DEF ReadPrivate, WriterMove, Still
  <2>5. CASE WriteOut(r)
    BY <1>0, <1>1, <2>0, <2>5, OthersStill DEF WriteOut, WriterMove, Still
  <2>6. CASE ReaderReturns(r)
    BY <1>0, <2>0, <2>6, OthersStill DEF ReaderReturns, WriterMove, Still
  <2>7. QED
    BY <1>2, <2>1, <2>2, <2>3, <2>4, <2>5, <2>6 DEF ReaderCalls
<1>3. ASSUME NEW v \in Writers, v # w, Writer(v) PROVE WriterMove(w)
  <2>0. v \in Proc
    BY Parties
  <2>1. CASE OpenGeneralRd(v)
    BY <1>0, <1>3, <2>0, <2>1 DEF OpenGeneralRd, OpenGeneral, WriterMove, Still
  <2>2. CASE GetPid(v)
    <3>1. pid'[w] = pid[w]
      <4>1. pid' = pid \/ pid' = [pid EXCEPT ![v] = Head(general)]
        BY <2>2 DEF GetPid
      <4>2. DOMAIN pid = Writers /\ v # w
        BY <1>0, <1>3 DEF TypeOK
      <4>3. QED
        BY ONLY <4>1, <4>2, w \in Writers, v \in Writers
    <3>2. QED
      BY <1>0, <1>3, <2>0, <2>2, <3>1, OthersStill DEF GetPid, WriterMove, Still
  <2>3. CASE OpenOther(v)
    BY <1>0, <1>3, <2>0, <2>3, OthersStill DEF OpenOther, WriterMove, Still
  <2>4. CASE OpenFile(v)
    BY <1>0, <1>1, <1>3, <2>0, <2>4, OthersStill DEF OpenFile, WriterMove, Still
  <2>5. CASE ReadFile(v)
    <3>1. CASE IOError(v, "read_file")
      BY <1>1, <2>0, <3>1
    <3>2. CASE ~IOError(v, "read_file")
      <4>1. pos'[w] = pos[w] /\ pid' = pid /\ status' = status
        BY <1>0, <1>3, <2>5, <3>2 DEF ReadFile, TypeOK
      <4>2. pc'[w] = pc[w]
        BY <1>0, <1>3, <2>0, <2>5, <3>2, OthersStill DEF ReadFile
      <4>3. QED
        BY <4>1, <4>2 DEF WriterMove, Still
    <3>3. QED
      BY <3>1, <3>2
  <2>6. CASE WritePrivate(v)
    BY <1>0, <1>3, <2>0, <2>6, OthersStill DEF WritePrivate, WriterMove, Still
  <2>7. CASE CloseGeneral(v)
    BY <1>0, <1>3, <2>0, <2>7, OthersStill DEF CloseGeneral, WriterMove, Still
  <2>8. CASE WriterReturns(v)
    BY <1>0, <1>3, <2>0, <2>8, OthersStill DEF WriterReturns, WriterMove, Still
  <2>9. QED
    BY <1>1, <1>3, <2>0, <2>1, <2>2, <2>3, <2>4, <2>5, <2>6, <2>7, <2>8 DEF Writer
<1>4. ASSUME Writer(w) PROVE WriterMove(w)
  <2>1. CASE OpenGeneralRd(w)
    <3>1. pc[w] = "open_general" /\ pc'[w] \in {"get_pid", "asleep"}
      BY <1>0, <2>1 DEF OpenGeneralRd, OpenGeneral
    <3>2. QED
      BY <2>1, <3>1 DEF OpenGeneralRd, OpenGeneral, WriterMove, Seeking
  <2>2. CASE GetPid(w)
    BY <2>2 DEF WriterMove
  <2>3. CASE OpenOther(w)
    <3>1. CASE pid[w] \in Readers /\ HasPrivate(pid[w])
      <4>1. served'[pid[w]]
        BY <1>0, <2>3, <3>1 DEF OpenOther, TypeOK
      <4>2. QED
        BY <1>0, <2>3, <3>1, <4>1, OwnMove DEF OpenOther, WriterMove, WriterFrom
    <3>2. CASE ~(pid[w] \in Readers /\ HasPrivate(pid[w]))
      BY <1>0, <2>3, <3>2, OwnMove DEF OpenOther, WriterMove, Broken
    <3>3. QED
      BY <3>1, <3>2
  <2>4. CASE OpenFile(w)
    BY <1>0, <1>1, <2>4, OwnMove DEF OpenFile, WriterMove, WriterFrom
  <2>5. CASE ReadFile(w)
    <3>1. CASE IOError(w, "read_file")
      BY <1>0, <1>1, <3>1
    <3>2. CASE ~IOError(w, "read_file")
      <4>1. \/ Go(w, "read_file", "write_private") /\ pos'[w] = pos[w] + 1
            \/ Go(w, "read_file", "close_general") /\ pos'[w] = pos[w] /\ pos[w] = FileLen
        BY <1>0, <2>5, <3>2 DEF ReadFile, TypeOK
      <4>2. pid' = pid /\ status' = status
        BY <2>5, <3>2 DEF ReadFile
      <4>3. QED
        BY <1>0, <4>1, <4>2, OwnMove DEF WriterMove, WriterFrom
    <3>3. QED
      BY <3>1, <3>2
  <2>6. CASE WritePrivate(w)
    <3>1. CASE HasPrivate(pid[w])
      BY <1>0, <2>6, <3>1, OwnMove DEF WritePrivate, WriterMove, WriterFrom
    <3>2. CASE ~HasPrivate(pid[w])
      BY <1>0, <2>6, <3>2, OwnMove DEF WritePrivate, WriterMove, Broken
    <3>3. QED
      BY <3>1, <3>2
  <2>7. CASE CloseGeneral(w)
    BY <1>0, <2>7, OwnMove DEF CloseGeneral, WriterMove, WriterFrom
  <2>8. CASE WriterReturns(w)
    BY <1>0, <2>8, OwnMove DEF WriterReturns, WriterMove
  <2>9. QED
    BY <1>0, <1>1, <1>4, <2>1, <2>2, <2>3, <2>4, <2>5, <2>6, <2>7, <2>8 DEF Writer
<1>5. CASE UNCHANGED vars
  BY <1>5 DEF vars, WriterMove, Still
<1>6. QED
  BY <1>1, <1>2, <1>3, <1>4, <1>5, Parties DEF Next, Reader, ReaderCalls

LEMMA ReaderMoves == ASSUME IInv, [Next]_vars, NEW r \in Readers PROVE ReaderMove(r)
<1>0. TypeOK /\ r \in Proc /\ r \notin Writers
  BY Parties DEF IInv
<1>1. ASSUME NEW p \in Proc, NEW from, from # "done",
             Exit(p) \/ Kill(p) \/ IOError(p, from)
      PROVE  ReaderMove(r)
  BY <1>0, <1>1, BrokenMove DEF ReaderMove
<1>2. ASSUME NEW w \in Writers, Writer(w) PROVE ReaderMove(r)
  <2>0. w \in Proc /\ r # w
    BY <1>0, Parties
  <2>1. CASE OpenGeneralRd(w)
    <3>1. (pc[r] = "asleep" /\ pc'[r] = "transfer_pid") \/ pc'[r] = pc[r]
      BY <1>0, <2>0, <2>1 DEF OpenGeneralRd, OpenGeneral
    <3>2. QED
      BY <2>1, <3>1 DEF OpenGeneralRd, OpenGeneral, ReaderMove, Still, Early
  <2>2. CASE GetPid(w) \/ OpenOther(w)
    BY <1>0, <2>0, <2>2, OthersStill DEF GetPid, OpenOther, ReaderMove, Still
  <2>3. CASE OpenFile(w) \/ ReadFile(w)
    BY <1>0, <1>1, <2>0, <2>3, OthersStill DEF OpenFile, ReadFile, ReaderMove, Still
  <2>4. CASE WritePrivate(w)
    BY <1>0, <2>0, <2>4, OthersStill DEF WritePrivate, ReaderMove, Still
  <2>5. CASE CloseGeneral(w) \/ WriterReturns(w)
    BY <1>0, <2>0, <2>5, OthersStill DEF CloseGeneral, WriterReturns, ReaderMove, Still
  <2>6. QED
    BY <1>1, <1>2, <2>0, <2>1, <2>2, <2>3, <2>4, <2>5 DEF Writer
<1>3. ASSUME NEW q \in Readers, q # r, ReaderCalls(q) PROVE ReaderMove(r)
  <2>0. q \in Proc
    BY Parties
  <2>1. CASE OpenGeneralWr(q)
    BY <1>0, <1>3, <2>0, <2>1 DEF OpenGeneralWr, OpenGeneral, ReaderMove, Still
  <2>2. CASE OpenPrivate(q) \/ Select(q) \/ SelectTimeout(q)
    BY <1>0, <1>3, <2>0, <2>2, OthersStill DEF OpenPrivate, Select, SelectTimeout, ReaderMove, Still
  <2>3. CASE TransferPid(q)
    BY <1>0, <1>3, <2>0, <2>3, OthersStill DEF TransferPid, ReaderMove, Still
  <2>4. CASE ReadPrivate(q)
    <3>1. buff'[r] = buff[r] /\ status' = status
      BY <1>0, <1>3, <2>4 DEF ReadPrivate, TypeOK
    <3>2. QED
      BY <1>0, <1>3, <2>0, <2>4, <3>1, OthersStill DEF ReadPrivate, ReaderMove, Still
  <2>5. CASE WriteOut(q)
    <3>1. CASE IOError(q, "write_out")
      BY <1>1, <2>0, <3>1
    <3>2. CASE ~IOError(q, "write_out")
      <4>1. buff'[r] = buff[r] /\ status' = status
        BY <1>0, <1>3, <2>5, <3>2 DEF WriteOut, TypeOK
      <4>2. QED
        BY <1>0, <1>3, <2>0, <2>5, <3>2, <4>1, OthersStill DEF WriteOut, ReaderMove, Still
    <3>3. QED
      BY <3>1, <3>2
  <2>6. CASE ReaderReturns(q)
    BY <1>0, <1>3, <2>0, <2>6, OthersStill DEF ReaderReturns, ReaderMove, Still
  <2>7. QED
    BY <1>3, <2>1, <2>2, <2>3, <2>4, <2>5, <2>6 DEF ReaderCalls
<1>4. ASSUME ReaderCalls(r) PROVE ReaderMove(r)
  <2>1. CASE OpenPrivate(r)
    BY <1>0, <2>1, OwnMove DEF OpenPrivate, ReaderMove, Early
  <2>2. CASE OpenGeneralWr(r)
    <3>1. pc[r] = "open_general" /\ pc'[r] \in {"transfer_pid", "asleep"}
      BY <1>0, <2>2 DEF OpenGeneralWr, OpenGeneral
    <3>2. QED
      BY <2>2, <3>1 DEF OpenGeneralWr, OpenGeneral, ReaderMove, Early
  <2>3. CASE TransferPid(r)
    BY <1>0, <2>3, OwnMove DEF TransferPid, ReaderMove, Early, Broken
  <2>4. CASE Select(r)
    BY <1>0, <2>4, OwnMove DEF Select, ReaderMove
  <2>5. CASE SelectTimeout(r)
    BY <1>0, <2>5, OwnMove DEF SelectTimeout, ReaderMove, Broken
  <2>6. CASE ReadPrivate(r)
    <3>1. CASE private[r] # <<>>
      BY <1>0, <2>6, <3>1, OwnMove DEF ReadPrivate, ReaderMove
    <3>2. CASE private[r] = <<>>
      <4>1. PrivateWrEnds(r) = {}
        BY <2>6, <3>2 DEF ReadPrivate, Readable
      <4>2. /\ Go(r, "read_private", "close")
            /\ UNCHANGED <<status, private, pid, buff>>
        BY <2>6, <3>2 DEF ReadPrivate
      <4>3. \A w \in Writers : Still(w)
        BY <1>0, <4>2, OthersStill, Parties DEF Still
      <4>4. QED
        BY <1>0, <3>2, <4>1, <4>2, <4>3, OwnMove DEF ReaderMove
    <3>3. QED
      BY <3>1, <3>2
  <2>7. CASE WriteOut(r)
    <3>1. CASE IOError(r, "write_out")
      BY <1>0, <1>1, <3>1
    <3>2. CASE ~IOError(r, "write_out")
      <4>1. buff'[r] = <<>> /\ status' = status
        BY <1>0, <2>7, <3>2 DEF WriteOut, TypeOK
      <4>2. QED
        BY <1>0, <2>7, <3>2, <4>1, OwnMove DEF WriteOut, ReaderMove
    <3>3. QED
      BY <3>1, <3>2
  <2>8. CASE ReaderReturns(r)
    BY <1>0, <2>8, OwnMove DEF ReaderReturns, ReaderMove
  <2>9. QED
    BY <1>4, <2>1, <2>2, <2>3, <2>4, <2>5, <2>6, <2>7, <2>8 DEF ReaderCalls
<1>5. CASE UNCHANGED vars
  BY <1>5 DEF vars, ReaderMove, Still
<1>6. QED
  BY <1>1, <1>2, <1>3, <1>4, <1>5, Parties DEF Next, Reader, ReaderCalls

-----------------------------------------------------------------------------
(* The streams. *)

LEMMA HeadMoves ==
  ASSUME NEW S, NEW s \in Seq(S), NEW t \in Seq(S), t # <<>>
  PROVE  (s \o <<Head(t)>>) \o Tail(t) = (s \o <<>>) \o t
OBVIOUS

LEMMA BufferMoves ==
  ASSUME NEW S, NEW s \in Seq(S), NEW b \in Seq(S), NEW t \in Seq(S)
  PROVE  ((s \o b) \o <<>>) \o t = (s \o b) \o t
OBVIOUS

LEMMA AppendMoves ==
  ASSUME NEW S, NEW s \in Seq(S), NEW t \in Seq(S), NEW x \in S
  PROVE  s \o Append(t, x) = Append(s \o t, x)
OBVIOUS

LEMMA StreamType == ASSUME TypeOK, NEW r \in Readers PROVE Stream(r) \in Seq(Blocks) /\ Len(Stream(r)) \in Nat
<1>1. out[r] \in Seq(Blocks) /\ buff[r] \in Seq(Blocks) /\ private[r] \in Seq(Blocks)
  BY DEF TypeOK
<1>2. out[r] \o buff[r] \in Seq(Blocks)
  BY <1>1
<1>3. Stream(r) \in Seq(Blocks)
  BY <1>1, <1>2 DEF Stream
<1>4. QED
  BY <1>3

(* Only a writer adds to a stream, and to no stream but its reader's. *)
LEMMA StreamChange ==
  ASSUME IInv, [Next]_vars, NEW r \in Readers
  PROVE  \/ Stream(r)' = Stream(r) /\ ~ \E w \in Writers : WritePrivate(w) /\ pid[w] = r /\ ~Broken(w)
         \/ \E w \in Writers :
              /\ WritePrivate(w) /\ pid[w] = r /\ pc[w] = "write_private" /\ pc'[w] = "read_file"
              /\ Stream(r)' = Append(Stream(r), Block(w, pos[w]))
<1>0. TypeOK /\ r \in Proc /\ r \notin Writers
  BY Parties DEF IInv
<1>a. /\ out[r] \in Seq(Blocks) /\ buff[r] \in Seq(Blocks) /\ private[r] \in Seq(Blocks)
      /\ DOMAIN out = Readers /\ DOMAIN buff = Readers /\ DOMAIN private = Readers
  BY <1>0 DEF TypeOK
<1> DEFINE Quietly == Stream(r)' = Stream(r) /\ ~ \E w \in Writers : WritePrivate(w) /\ pid[w] = r /\ ~Broken(w)
<1>1. CASE \E w \in Writers : WritePrivate(w)
  <2> PICK w \in Writers : WritePrivate(w)
    BY <1>1
  <2>0. w \in Proc /\ pc[w] = "write_private" /\ buff' = buff /\ out' = out
    BY Parties DEF WritePrivate
  <2>1. pid[w] \in Readers /\ pos[w] \in 1..FileLen
    <3>0. pid[w] \in Readers \cup {NoPid} /\ pos[w] \in 0..FileLen
      BY <1>0 DEF TypeOK
    <3>1. pid[w] \in Readers
      BY <2>0, <3>0 DEF IInv, StreamInv, LostInv, Seeking
    <3>2. Len(Stream(pid[w])) + 1 = pos[w]
      BY <2>0, <3>1 DEF IInv, StreamInv, WriterInv
    <3>3. Len(Stream(pid[w])) \in Nat
      BY <1>0, <3>1, StreamType
    <3>4. QED
      BY ONLY <3>0, <3>1, <3>2, <3>3, Parties
  <2>2. \A v \in Writers : WritePrivate(v) /\ ~Broken(v) => v = w
    <3> SUFFICES ASSUME NEW v \in Writers, WritePrivate(v), ~Broken(v), v # w PROVE FALSE
      OBVIOUS
    <3>1. pc'[v] # "write_private"
      BY <1>0, OwnMove, Parties DEF WritePrivate
    <3>2. pc'[v] = pc[v]
      BY <1>0, <2>0, OthersStill, Parties DEF WritePrivate, Still
    <3>3. QED
      BY <3>1, <3>2 DEF WritePrivate
  <2>3. CASE ~HasPrivate(pid[w])
    <3>1. Broken(w) /\ private' = private
      BY <1>0, <2>0, <2>3, OwnMove DEF WritePrivate, Broken
    <3>2. QED
      BY <2>0, <2>2, <3>1 DEF Stream
  <2>4. CASE HasPrivate(pid[w])
    <3>1. /\ private' = [private EXCEPT ![pid[w]] = Append(private[pid[w]], Block(w, pos[w]))]
          /\ pc'[w] = "read_file"
      BY <1>0, <2>0, <2>4, OwnMove DEF WritePrivate
    <3>2. CASE pid[w] # r
      <4>1. private'[r] = private[r]
        BY <1>a, <3>1, <3>2
      <4>2. QED
        BY <2>0, <2>2, <3>2, <4>1 DEF Stream
    <3>3. CASE pid[w] = r
      <4>1. private'[r] = Append(private[r], Block(w, pos[w])) /\ Block(w, pos[w]) \in Blocks
        BY <1>a, <2>1, <3>1, <3>3 DEF Blocks
      <4>2. out[r] \o buff[r] \in Seq(Blocks)
        BY <1>a
      <4>3. Stream(r)' = Append(Stream(r), Block(w, pos[w]))
        BY <1>a, <2>0, <4>1, <4>2, AppendMoves DEF Stream
      <4>4. QED
        BY <2>0, <3>1, <3>3, <4>3
    <3>4. QED
      BY <3>2, <3>3
  <2>5. QED
    BY <2>3, <2>4
<1>2. CASE ~ \E w \in Writers : WritePrivate(w)
  <2>1. ASSUME UNCHANGED <<private, buff, out>> PROVE Quietly
    BY <1>2, <2>1 DEF Stream
  <2>2. ASSUME NEW p \in Proc, NEW from, from # "done",
             Exit(p) \/ Kill(p) \/ IOError(p, from)
      PROVE  Quietly
    BY <2>1, <2>2, BrokenMove
  <2>3. ASSUME NEW q \in Readers, ReadPrivate(q) PROVE Quietly
    <3>1. CASE private[q] # <<>>
      <4>1. /\ buff' = [buff EXCEPT ![q] = <<Head(private[q])>>]
            /\ private' = [private EXCEPT ![q] = Tail(private[q])]
            /\ out' = out /\ pc[q] = "read_private"
        BY <2>3, <3>1 DEF ReadPrivate, Go
      <4>2. CASE q # r
        <5>1. buff'[r] = buff[r] /\ private'[r] = private[r]
          BY <1>a, <4>1, <4>2
        <5>2. QED
          BY <1>2, <4>1, <5>1 DEF Stream
      <4>3. CASE q = r
        <5>1. buff[r] = <<>>
          BY <4>1, <4>3 DEF IInv, EndInv, ReaderInv
        <5>2. buff'[r] = <<Head(private[r])>> /\ private'[r] = Tail(private[r])
          BY <1>a, <4>1, <4>3
        <5>3. Stream(r)' = Stream(r)
          BY <1>a, <3>1, <4>1, <4>3, <5>1, <5>2, HeadMoves DEF Stream
        <5>4. QED
          BY <1>2, <5>3
      <4>4. QED
        BY <4>2, <4>3
    <3>2. CASE private[q] = <<>>
      BY <2>1, <2>3, <3>2 DEF ReadPrivate
    <3>3. QED
      BY <3>1, <3>2
  <2>4. ASSUME NEW q \in Readers, WriteOut(q) PROVE Quietly
    <3>1. CASE IOError(q, "write_out")
      BY <2>2, <3>1, Parties
    <3>2. CASE ~IOError(q, "write_out")
      <4>1. /\ out' = [out EXCEPT ![q] = out[q] \o buff[q]]
            /\ buff' = [buff EXCEPT ![q] = <<>>]
            /\ private' = private
        BY <2>4, <3>2 DEF WriteOut
      <4>2. CASE q # r
        <5>1. buff'[r] = buff[r] /\ out'[r] = out[r]
          BY <1>a, <4>1, <4>2
        <5>2. QED
          BY <1>2, <4>1, <5>1 DEF Stream
      <4>3. CASE q = r
        <5>1. buff'[r] = <<>> /\ out'[r] = out[r] \o buff[r]
          BY <1>a, <4>1, <4>3
        <5>2. Stream(r)' = Stream(r)
          BY <1>a, <4>1, <4>3, <5>1, BufferMoves DEF Stream
        <5>3. QED
          BY <1>2, <5>2
      <4>4. QED
        BY <4>2, <4>3
    <3>3. QED
      BY <3>1, <3>2
  <2>5. ASSUME NEW q \in Readers, ReaderCalls(q) PROVE Quietly
    <3>1. CASE OpenPrivate(q) \/ OpenGeneralWr(q) \/ TransferPid(q) \/ Select(q) \/ SelectTimeout(q) \/ ReaderReturns(q)
      BY <2>1, <3>1 DEF OpenPrivate, OpenGeneralWr, OpenGeneral, TransferPid, Select, SelectTimeout, ReaderReturns
    <3>2. QED
      BY <2>3, <2>4, <2>5, <3>1 DEF ReaderCalls
  <2>6. ASSUME NEW w \in Writers, Writer(w) PROVE Quietly
    <3>0. w \in Proc
      BY Parties
    <3>1. CASE OpenGeneralRd(w) \/ GetPid(w) \/ OpenOther(w) \/ CloseGeneral(w) \/ WriterReturns(w)
      BY <2>1, <3>1 DEF OpenGeneralRd, OpenGeneral, GetPid, OpenOther, CloseGeneral, WriterReturns
    <3>2. CASE OpenFile(w) \/ ReadFile(w)
      BY <2>1, <2>2, <3>0, <3>2 DEF OpenFile, ReadFile
    <3>3. QED
      BY <1>2, <2>2, <2>6, <3>0, <3>1, <3>2 DEF Writer
  <2>7. CASE UNCHANGED vars
    BY <2>1, <2>7 DEF vars
  <2>8. ASSUME NEW p \in Proc, Exit(p) \/ Kill(p) PROVE Quietly
    <3>1. Exit(p) \/ Kill(p) \/ IOError(p, "exit")
      BY <2>8
    <3>2. QED
      BY <2>2, <3>1
  <2>9. QED
    BY <2>5, <2>6, <2>7, <2>8, Parties DEF Next, Reader, ReaderCalls
<1>3. QED
  BY <1>1, <1>2

(* Only a writer that opens a private FIFO makes its reader a served one. *)
LEMMA ServedStep ==
  ASSUME IInv, [Next]_vars, NEW r \in Readers
  PROVE  \/ served'[r] = served[r]
         \/ served'[r] /\ \E w \in Writers : pid[w] = r /\ pid'[w] = r /\ pc'[w] = "open_file"
<1>0. TypeOK
  BY DEF IInv
<1>1. ASSUME NEW p \in Proc, NEW from, from # "done",
             Exit(p) \/ Kill(p) \/ IOError(p, from)
      PROVE  served' = served
  BY <1>1, BrokenMove
<1>2. ASSUME NEW q \in Readers, ReaderCalls(q) PROVE served' = served
  BY <1>1, <1>2, Parties
  DEF ReaderCalls, OpenPrivate, OpenGeneralWr, OpenGeneral, TransferPid, Select, SelectTimeout,
      ReadPrivate, WriteOut, ReaderReturns
<1>3. ASSUME NEW w \in Writers, OpenOther(w)
      PROVE  \/ served'[r] = served[r]
             \/ served'[r] /\ pid[w] = r /\ pid'[w] = r /\ pc'[w] = "open_file"
  <2>1. CASE pid[w] \in Readers /\ HasPrivate(pid[w])
    <3>1. served' = [served EXCEPT ![pid[w]] = TRUE] /\ pc' = [pc EXCEPT ![w] = "open_file"] /\ pid' = pid
      BY <1>3, <2>1 DEF OpenOther, Go
    <3>2. DOMAIN served = Readers /\ DOMAIN pc = Proc /\ w \in Proc
      BY <1>0, Parties DEF TypeOK
    <3>3. QED
      BY <3>1, <3>2
  <2>2. CASE ~(pid[w] \in Readers /\ HasPrivate(pid[w]))
    BY <1>3, <2>2 DEF OpenOther
  <2>3. QED
    BY <2>1, <2>2
<1>4. ASSUME NEW w \in Writers, Writer(w), ~OpenOther(w) PROVE served' = served
  BY <1>1, <1>4, Parties
  DEF Writer, OpenGeneralRd, OpenGeneral, GetPid, OpenFile, ReadFile, WritePrivate, CloseGeneral,
      WriterReturns
<1>5. CASE UNCHANGED vars
  BY <1>5 DEF vars
<1>6. QED
  BY <1>1, <1>2, <1>3, <1>4, <1>5, Parties DEF Next, Reader, ReaderCalls

(* A writer that has a pid keeps it, and what it has opened stays so. *)
LEMMA PidKept ==
  ASSUME IInv, [Next]_vars, NEW w \in Writers
  PROVE  /\ pid[w] \in Readers => pid'[w] = pid[w] /\ pc[w] \notin Seeking
         /\ pc[w] \in Opened => pc'[w] \in Opened /\ pid'[w] = pid[w]
<1>0. TypeOK /\ PidInv /\ WriterMove(w)
  BY WriterMoves DEF IInv
<1>1. pc[w] \in Seeking => pid[w] \notin Readers
  BY <1>0, Parties DEF PidInv
<1>2. GetPid(w) => pc[w] = "get_pid"
  BY DEF GetPid, Go
<1>3. QED
  BY <1>0, <1>1, <1>2 DEF WriterMove, WriterFrom, Still, Broken, Seeking, Opened

(* A pid that a writer gets was in the general FIFO, and nobody else has it. *)
LEMMA GotPid ==
  ASSUME IInv, NEW w \in Writers, GetPid(w)
  PROVE  /\ pc'[w] = "open_other" /\ status'[w] = status[w] /\ pos'[w] = 0
         /\ (pid'[w] = NoPid \/ (pid'[w] \in Readers /\ \A v \in Writers : pid[v] # pid'[w]))
         /\ UNCHANGED <<private, buff, out, served>>
<1>0. TypeOK /\ PidInv /\ w \in Proc
  BY Parties DEF IInv
<1>1. pc[w] = "get_pid" /\ pc'[w] = "open_other" /\ UNCHANGED <<status, private, pos, buff, out, served>>
  BY <1>0, PcType DEF GetPid, Go
<1>2. pid[w] = NoPid /\ pos[w] = 0
  BY <1>0, <1>1 DEF PidInv, Seeking
<1>3. CASE general # <<>>
  <2>1. 1 \in 1..Len(general) /\ general[1] \in Readers /\ pid' = [pid EXCEPT ![w] = general[1]]
    BY <1>0, <1>3 DEF TypeOK, GetPid
  <2>2. pid'[w] = general[1]
    BY <1>0, <2>1 DEF TypeOK
  <2>3. QED
    BY <1>0, <1>1, <1>2, <2>1, <2>2 DEF PidInv
<1>4. CASE general = <<>>
  <2>1. pid' = pid
    BY <1>4 DEF GetPid
  <2>2. pid'[w] = NoPid
    BY <1>2, <2>1
  <2>3. pos'[w] = 0
    BY <1>1, <1>2
  <2>4. QED
    BY <1>1, <2>2, <2>3
<1>5. QED
  BY <1>3, <1>4

LEMMA WriterStep == ASSUME IInv, [Next]_vars, NEW w \in Writers PROVE WriterInv(w)' /\ LostInv(w)'
<1>0. TypeOK /\ TypeOK' /\ PidInv /\ StreamInv /\ EndInv /\ WriterInv(w) /\ LostInv(w) /\ w \in Proc
  BY TypeStep, Parties DEF IInv, StreamInv
<1>a. /\ pos[w] \in Nat /\ pos[w] <= FileLen /\ FileLen \in Nat /\ pid[w] \in Readers \cup {NoPid}
      /\ status[w] \in {"running", "success", "failure", "killed"}
  BY <1>0, Parties DEF TypeOK
<1>1. CASE GetPid(w)
  <2>1. /\ pc'[w] = "open_other" /\ status'[w] = status[w] /\ pos'[w] = 0
        /\ (pid'[w] = NoPid \/ (pid'[w] \in Readers /\ \A v \in Writers : pid[v] # pid'[w]))
        /\ UNCHANGED <<private, buff, out, served>>
    BY <1>1, GotPid
  <2>2. status'[w] # "success"
    BY <1>0, <1>1, <2>1 DEF EndInv, GetPid, Go
  <2>3. CASE pid'[w] = NoPid
    BY <2>1, <2>2, <2>3, Parties DEF WriterInv, LostInv
  <2>4. CASE pid'[w] \in Readers
    <3> DEFINE q == pid'[w]
    <3>1. Stream(q) = <<>>
      BY <1>0, <2>1, <2>4, Parties DEF StreamInv
    <3>2. Stream(pid[w])' = <<>>
      BY <2>1, <2>4, <3>1 DEF Stream
    <3>3. QED
      BY <2>1, <2>2, <2>4, <3>2, <1>a, Parties DEF WriterInv, LostInv, IsPrefixOfFile, Opened
  <2>5. QED
    BY <2>1, <2>3, <2>4
<1>2. CASE ~GetPid(w)
  <2>1. WriterMove(w) /\ pid'[w] = pid[w]
    BY <1>2, WriterMoves DEF WriterMove, WriterFrom
  <2>2. CASE pid[w] = NoPid
    <3>1. pid'[w] = NoPid /\ NoPid \notin Readers
      BY <2>1, <2>2, Parties
    <3>2. pc[w] \in Seeking \cup {"open_other", "exit", "done"} /\ status[w] # "success"
      BY <1>0, <2>2 DEF LostInv
    <3>3. pc'[w] \in Seeking \cup {"open_other", "exit", "done"} /\ status'[w] # "success"
      BY <1>2, <2>1, <2>2, <3>1, <3>2 DEF WriterMove, WriterFrom, Still, Broken, Seeking
    <3>4. QED
      BY <3>1, <3>3 DEF WriterInv, LostInv
  <2>3. CASE pid[w] \in Readers
    <3> DEFINE q == pid[w]
    <3>0. q \in Readers /\ pid'[w] = q /\ q # NoPid /\ pc[w] \notin Seeking
      BY <2>1, <2>3, PidKept, Parties
    <3>1. /\ IsPrefixOfFile(Stream(q), w) /\ Len(Stream(q)) <= pos[w]
          /\ pc[w] \in {"open_other", "open_file"} => pos[w] = 0
          /\ pc[w] = "read_file" => Len(Stream(q)) = pos[w]
          /\ pc[w] = "write_private" => Len(Stream(q)) + 1 = pos[w]
          /\ pc[w] \in {"close_general", "close_private"} \/ status[w] = "success" =>
               Len(Stream(q)) = FileLen
          /\ pos[w] > 0 \/ pc[w] \in Opened \ {"exit", "done"} => served[q]
      BY <1>0, <3>0 DEF WriterInv
    <3>2. Stream(q) \in Seq(Blocks) /\ Len(Stream(q)) \in Nat
      BY <1>0, <3>0, StreamType
    <3>3. served[q] => served'[q]
      BY <3>0, ServedStep
    <3>4. status[w] = "success" => pc[w] = "done"
      BY <1>0 DEF EndInv
    <3>5. CASE WritePrivate(w) /\ ~Broken(w)
      <4>1. PICK v \in Writers : /\ WritePrivate(v) /\ pid[v] = q /\ pc[v] = "write_private"
                                 /\ pc'[v] = "read_file"
                                 /\ Stream(q)' = Append(Stream(q), Block(v, pos[v]))
        BY <3>0, <3>5, StreamChange
      <4>2. v = w
        BY <1>0, <3>0, <4>1 DEF PidInv
      <4>3. pos'[w] = pos[w] /\ status'[w] = status[w] /\ pid' = pid
        <5>1. ~End(w, "killed")
          BY <1>0, <4>1, <4>2, OwnMove
        <5>2. QED
          BY <3>5, <5>1 DEF WritePrivate
      <4>4. Len(Stream(q)') = Len(Stream(q)) + 1 /\ Len(Stream(q)') = pos[w]
        BY <3>1, <3>2, <4>1, <4>2
      <4>5. \A k \in 1..Len(Stream(q)') : Stream(q)'[k] = Block(w, k)
        <5> SUFFICES ASSUME NEW k \in 1..Len(Stream(q)') PROVE Stream(q)'[k] = Block(w, k)
          OBVIOUS
        <5>1. CASE k \in 1..Len(Stream(q))
          BY <3>1, <3>2, <4>1, <5>1 DEF IsPrefixOfFile
        <5>2. CASE k = Len(Stream(q)) + 1
          <6>1. Stream(q)'[k] = Block(w, pos[w])
            BY <3>2, <4>1, <4>2, <5>2
          <6>2. QED
            BY <4>4, <5>2, <6>1
        <5>3. QED
          BY <3>2, <4>4, <5>1, <5>2
      <4>6. Stream(pid[w])' = Stream(q)'
        BY <4>3
      <4>7. pc[w] = "write_private" /\ served'[q]
        BY <3>1, <3>3, <4>1, <4>2 DEF Opened
      <4>8. IsPrefixOfFile(Stream(q), w)'
        BY <1>a, <4>4, <4>5 DEF IsPrefixOfFile
      <4>9. QED
        BY <1>a, <3>0, <3>4, <4>1, <4>2, <4>3, <4>4, <4>6, <4>7, <4>8 DEF WriterInv, LostInv
    <3>6. CASE ~(WritePrivate(w) /\ ~Broken(w))
      <4>1. Stream(q)' = Stream(q)
        <5>1. ASSUME NEW v \in Writers, WritePrivate(v), pid[v] = q, pc'[v] = "read_file" PROVE FALSE
          <6>1. v = w
            BY <1>0, <3>0, <5>1 DEF PidInv
          <6>2. ~Broken(w)
            BY <5>1, <6>1 DEF Broken
          <6>3. QED
            BY <3>6, <5>1, <6>1, <6>2
        <5>2. QED
          BY <3>0, <5>1, StreamChange
      <4>2. Stream(pid[w])' = Stream(q) /\ IsPrefixOfFile(Stream(pid[w]), w)'
        BY <3>0, <3>1, <4>1 DEF IsPrefixOfFile, Stream
      <4>3. CASE Still(w) /\ pos'[w] = pos[w]
        BY <3>0, <3>1, <3>3, <4>2, <4>3 DEF WriterInv, LostInv, Still
      <4>4. CASE /\ WriterFrom(w, "open_other", "open_file") /\ pos'[w] = pos[w] /\ served'[q]
        BY <1>a, <3>0, <3>1, <3>4, <4>2, <4>4 DEF WriterInv, LostInv, WriterFrom
      <4>5. CASE Broken(w) /\ pos'[w] = pos[w]
        BY <1>a, <3>0, <3>1, <3>3, <4>2, <4>5 DEF WriterInv, LostInv, Broken
      <4>6. CASE WriterFrom(w, "open_file", "read_file") /\ pos'[w] = pos[w]
        BY <1>a, <3>0, <3>1, <3>2, <3>3, <3>4, <4>2, <4>6 DEF WriterInv, LostInv, WriterFrom, Opened
      <4>7. CASE WriterFrom(w, "read_file", "write_private") /\ pos'[w] = pos[w] + 1
        BY <1>a, <3>0, <3>1, <3>2, <3>3, <3>4, <4>2, <4>7 DEF WriterInv, LostInv, WriterFrom, Opened
      <4>8. CASE WriterFrom(w, "read_file", "close_general") /\ pos'[w] = pos[w] /\ pos[w] = FileLen
        BY <1>a, <3>0, <3>1, <3>2, <3>3, <3>4, <4>2, <4>8 DEF WriterInv, LostInv, WriterFrom, Opened
      <4>9. CASE WriterFrom(w, "close_general", "close_private") /\ pos'[w] = pos[w]
        BY <1>a, <3>0, <3>1, <3>2, <3>3, <3>4, <4>2, <4>9 DEF WriterInv, LostInv, WriterFrom, Opened
      <4>10. CASE pc[w] = "close_private" /\ pc'[w] = "done" /\ pos'[w] = pos[w]
        BY <1>a, <3>0, <3>1, <3>2, <3>3, <4>2, <4>10 DEF WriterInv, LostInv, Opened
      <4>11. ~(WriterFrom(w, "write_private", "read_file") /\ WritePrivate(w))
        BY <3>6 DEF WriterFrom, Broken
      <4>12. QED
        BY <1>2, <2>1, <3>0, <4>3, <4>4, <4>5, <4>6, <4>7, <4>8, <4>9, <4>10, <4>11
        DEF WriterMove
    <3>7. QED
      BY <3>5, <3>6
  <2>4. QED
    BY <1>a, <2>2, <2>3
<1>3. QED
  BY <1>1, <1>2

LEMMA StreamStep == ASSUME IInv, [Next]_vars PROVE StreamInv'
<1>0. TypeOK /\ PidInv /\ StreamInv
  BY DEF IInv
<1>1. ASSUME NEW r \in Readers, served'[r] PROVE \E w \in Writers : pid'[w] = r /\ pc'[w] \in Opened
  <2>1. CASE served[r]
    <3>1. PICK w \in Writers : pid[w] = r /\ pc[w] \in Opened
      BY <1>0, <2>1 DEF StreamInv
    <3>2. QED
      BY <3>1, PidKept
  <2>2. CASE ~served[r]
    BY <1>1, <2>2, ServedStep DEF Opened
  <2>3. QED
    BY <2>1, <2>2
<1>2. ASSUME NEW r \in Readers, \A w \in Writers : pid'[w] # r PROVE Stream(r)' = <<>>
  <2>1. \A w \in Writers : pid[w] # r
    BY <1>2, PidKept
  <2>2. QED
    BY <1>0, <2>1, StreamChange DEF StreamInv
<1>3. \A w \in Writers : WriterInv(w)' /\ LostInv(w)'
  BY WriterStep
<1>4. QED
  BY <1>1, <1>2, <1>3 DEF StreamInv

-----------------------------------------------------------------------------
(* The ends. *)

(* Nothing comes to a FIFO whose reader has met the end and whose writer    *)
(* has ended.                                                               *)
LEMMA PrivateKept ==
  ASSUME IInv, [Next]_vars, NEW r \in Readers, pc[r] \in {"close", "done"},
         \A w \in Writers : pid[w] = r => pc[w] = "done"
  PROVE  private'[r] = private[r]
<1>0. TypeOK
  BY DEF IInv
<1>1. ASSUME NEW p \in Proc, NEW from, from # "done",
             Exit(p) \/ Kill(p) \/ IOError(p, from)
      PROVE  private' = private
  BY <1>1, BrokenMove
<1>2. ASSUME NEW q \in Readers, ReaderCalls(q) PROVE private'[r] = private[r]
  <2>1. CASE ReadPrivate(q)
    <3>1. q # r /\ (private' = private \/ private' = [private EXCEPT ![q] = Tail(private[q])])
      BY <2>1 DEF ReadPrivate, Go
    <3>2. QED
      BY <1>0, <3>1 DEF TypeOK
  <2>2. CASE ~ReadPrivate(q)
    BY <1>1, <1>2, <2>2, Parties
    DEF ReaderCalls, OpenPrivate, OpenGeneralWr, OpenGeneral, TransferPid, Select, SelectTimeout,
        WriteOut, ReaderReturns
  <2>3. QED
    BY <2>1, <2>2
<1>3. ASSUME NEW w \in Writers, Writer(w) PROVE private'[r] = private[r]
  <2>1. CASE WritePrivate(w)
    <3>1. pid[w] # r
      BY <2>1 DEF WritePrivate
    <3>2. \/ private' = private
          \/ private' = [private EXCEPT ![pid[w]] = Append(private[pid[w]], Block(w, pos[w]))]
      BY <2>1 DEF WritePrivate
    <3>3. QED
      BY <1>0, <3>1, <3>2 DEF TypeOK
  <2>2. CASE ~WritePrivate(w)
    BY <1>1, <1>3, <2>2, Parties
    DEF Writer, OpenGeneralRd, OpenGeneral, GetPid, OpenOther, OpenFile, ReadFile, CloseGeneral,
        WriterReturns
  <2>3. QED
    BY <2>1, <2>2
<1>4. CASE UNCHANGED vars
  BY <1>4 DEF vars
<1>5. QED
  BY <1>1, <1>2, <1>3, <1>4, Parties DEF Next, Reader, ReaderCalls

LEMMA EndStep == ASSUME IInv, [Next]_vars PROVE EndInv'
<1>0. TypeOK /\ PidInv /\ StreamInv /\ EndInv
  BY DEF IInv
<1>1. ASSUME NEW p \in Proc
      PROVE  /\ status'[p] = "success" => pc'[p] = "done"
             /\ pc'[p] \in {"exit", "done"} => status'[p] # "running"
  <2>0. /\ status[p] = "success" => pc[p] = "done"
        /\ pc[p] \in {"exit", "done"} => status[p] # "running"
    BY <1>0 DEF EndInv
  <2>1. CASE p \in Readers
    <3>1. ReaderMove(p)
      BY <2>1, ReaderMoves
    <3>2. QED
      BY <2>0, <3>1 DEF ReaderMove, Still, Broken, Early
  <2>2. CASE p \in Writers
    <3>1. WriterMove(p)
      BY <2>2, WriterMoves
    <3>2. CASE GetPid(p)
      BY <2>0, <2>2, <3>2, GotPid DEF GetPid, Go
    <3>3. CASE ~GetPid(p)
      BY <2>0, <3>1, <3>3 DEF WriterMove, WriterFrom, Still, Broken, Seeking
    <3>4. QED
      BY <3>2, <3>3
  <2>3. QED
    BY <2>1, <2>2 DEF Proc
<1>2. ASSUME NEW r \in Readers PROVE ReaderInv(r)'
  <2>0. /\ ReaderInv(r) /\ ReaderMove(r)
        /\ status[r] = "success" => pc[r] = "done"
        /\ status'[r] = "success" => pc'[r] = "done"
        /\ served[r] => served'[r]
    BY <1>0, <1>1, ReaderMoves, ServedStep, Parties DEF EndInv
  <2>1. pc'[r] \notin {"write_out", "exit", "done"} => buff'[r] = <<>>
    BY <2>0 DEF ReaderInv, ReaderMove, Still, Broken, Early
  <2>2. ASSUME pc'[r] \in {"read_private", "write_out", "close"} \/ status'[r] = "success"
        PROVE  served'[r]
    <3>1. CASE pc[r] = "select" /\ Readable(r)
      <4>1. CASE served[r]
        BY <2>0, <4>1
      <4>2. CASE private[r] # <<>>
        <5>1. Stream(r) # <<>>
          BY <1>0, <4>2 DEF Stream, TypeOK
        <5>2. PICK w \in Writers : pid[w] = r
          BY <1>0, <5>1 DEF StreamInv
        <5>3. Len(Stream(r)) > 0 /\ Len(Stream(r)) \in Nat
          BY <1>0, <5>1, StreamType
        <5>4. pos[w] > 0
          BY <1>0, <5>2, <5>3 DEF StreamInv, WriterInv, TypeOK
        <5>5. served[r]
          BY <1>0, <5>2, <5>4 DEF StreamInv, WriterInv
        <5>6. QED
          BY <2>0, <5>5
      <4>3. QED
        BY <3>1, <4>1, <4>2 DEF Readable
    <3>2. CASE ~(pc[r] = "select" /\ Readable(r))
      <4>1. served[r]
        BY <2>0, <2>2, <3>2 DEF ReaderInv, ReaderMove, Still, Broken, Early
      <4>2. QED
        BY <2>0, <4>1
    <3>3. QED
      BY <3>1, <3>2
  <2>3. ASSUME pc'[r] = "close" \/ status'[r] = "success"
        PROVE  /\ buff'[r] = <<>> /\ private'[r] = <<>>
               /\ \A w \in Writers : pid'[w] = r => pc'[w] = "done"
    <3>1. CASE pc[r] = "close" \/ status[r] = "success"
      <4>1. /\ buff[r] = <<>> /\ private[r] = <<>> /\ served[r]
            /\ \A w \in Writers : pid[w] = r => pc[w] = "done"
        BY <2>0, <3>1 DEF ReaderInv
      <4>2. buff'[r] = buff[r]
        BY <2>0, <3>1 DEF ReaderMove, Early
      <4>3. private'[r] = private[r]
        BY <2>0, <3>1, <4>1, PrivateKept
      <4>4. ASSUME NEW w \in Writers, pid'[w] = r PROVE pc'[w] = "done"
        <5>1. PICK v \in Writers : pid[v] = r /\ pc[v] \in Opened
          BY <1>0, <4>1 DEF StreamInv
        <5>2. pid'[v] = r
          BY <5>1, PidKept
        <5>3. v = w
          BY <4>4, <5>2, PidStep, Parties DEF PidInv
        <5>4. pc[w] = "done" /\ WriterMove(w)
          BY <4>1, <5>1, <5>3, WriterMoves
        <5>5. QED
          BY <5>4 DEF WriterMove, WriterFrom, Still, Broken, Seeking, GetPid, Go
      <4>5. QED
        BY <4>1, <4>2, <4>3, <4>4
    <3>2. CASE ~(pc[r] = "close" \/ status[r] = "success")
      <4>1. /\ pc[r] = "read_private" /\ pc'[r] = "close"
            /\ private[r] = <<>> /\ PrivateWrEnds(r) = {} /\ buff'[r] = buff[r]
            /\ private' = private /\ pid' = pid /\ \A w \in Writers : Still(w)
        BY <2>0, <2>3, <3>2 DEF ReaderMove, Still, Broken, Early
      <4>2. buff[r] = <<>> /\ served[r]
        BY <2>0, <4>1 DEF ReaderInv
      <4>3. ASSUME NEW w \in Writers, pid[w] = r PROVE pc[w] = "done"
        <5>1. PICK v \in Writers : pid[v] = r /\ pc[v] \in Opened
          BY <1>0, <4>2 DEF StreamInv
        <5>2. v = w
          BY <1>0, <4>3, <5>1, Parties DEF PidInv
        <5>3. QED
          BY <4>1, <4>3, <5>1, <5>2 DEF PrivateWrEnds, Opened
      <4>4. QED
        BY <4>1, <4>2, <4>3 DEF Still
    <3>3. QED
      BY <3>1, <3>2
  <2>4. QED
    BY <2>1, <2>2, <2>3 DEF ReaderInv
<1>3. QED
  BY <1>1, <1>2 DEF EndInv

LEMMA Inductive == Spec => []IInv
<1>1. IInv /\ [Next]_vars => IInv'
  BY TypeStep, PidStep, StreamStep, EndStep DEF IInv
<1>2. QED
  BY <1>1, InitInv, PTL DEF Spec

-----------------------------------------------------------------------------
(* Every variable keeps its type, and no FIFO holds more than it can.       *)
THEOREM TypeCorrect == Spec => []TypeOK
<1>1. IInv => TypeOK
  BY DEF IInv
<1>2. QED
  BY <1>1, Inductive, PTL

(* A private FIFO is private: one writer has its name, for good.            *)
THEOREM PrivateIsPrivate == Spec => []OneWriterEach
<1>1. IInv => OneWriterEach
  <2> SUFFICES ASSUME IInv, NEW r \in Readers
               PROVE  /\ Cardinality({w \in Writers : pid[w] = r}) <= 1
                      /\ \A w \in Writers, k \in 1..Len(general) : general[k] = r => pid[w] # r
    BY DEF OneWriterEach
  <2>1. \A w \in Writers, k \in 1..Len(general) : general[k] = r => pid[w] # r
    BY DEF IInv, PidInv
  <2>2. CASE \E w \in Writers : pid[w] = r
    <3>1. PICK w \in Writers : pid[w] = r
      BY <2>2
    <3>2. {v \in Writers : pid[v] = r} = {w}
      BY <3>1, Parties DEF IInv, PidInv
    <3>3. Cardinality({v \in Writers : pid[v] = r}) = 1
      BY <3>2, FS_Singleton
    <3>4. QED
      BY <2>1, <3>3
  <2>3. CASE ~ \E w \in Writers : pid[w] = r
    <3>1. {v \in Writers : pid[v] = r} = {}
      BY <2>3
    <3>2. QED
      BY <2>1, <3>1, FS_EmptySet
  <2>4. QED
    BY <2>2, <2>3
<1>2. QED
  BY <1>1, Inductive, PTL

(* What a reader prints and will print is the beginning of one file, where  *)
(* anybody writes at all.                                                   *)
THEOREM StreamsAreWhole == ASSUME Writers # {} PROVE Spec => []StreamIsPrefix
<1>1. IInv => StreamIsPrefix
  <2> SUFFICES ASSUME IInv, NEW r \in Readers
               PROVE  \E w \in Writers : IsPrefixOfFile((out[r] \o buff[r]) \o private[r], w)
    BY DEF StreamIsPrefix
  <2>1. CASE \E w \in Writers : pid[w] = r
    BY <2>1 DEF IInv, StreamInv, WriterInv, Stream
  <2>2. CASE ~ \E w \in Writers : pid[w] = r
    <3>1. Stream(r) = <<>>
      BY <2>2 DEF IInv, StreamInv
    <3>2. \A w \in Writers : IsPrefixOfFile(<<>>, w)
      BY Parties DEF IsPrefixOfFile
    <3>3. QED
      BY <3>1, <3>2 DEF Stream
  <2>3. QED
    BY <2>1, <2>2
<1>2. QED
  BY <1>1, Inductive, PTL

(* A reader that returns 0 has printed the whole file, unless its writer    *)
(* failed or was killed.                                                    *)
THEOREM ShortCopyIsExplained == Spec => []ShortCopyMeansWriterEnded
<1>1. IInv => ShortCopyMeansWriterEnded
  <2> SUFFICES ASSUME IInv, NEW r \in Readers, status[r] = "success"
               PROVE  \E w \in Writers :
                        pid[w] = r /\ (out[r] = File(w) \/ status[w] \in {"failure", "killed"})
    BY DEF ShortCopyMeansWriterEnded
  <2>1. /\ served[r] /\ buff[r] = <<>> /\ private[r] = <<>>
        /\ \A w \in Writers : pid[w] = r => pc[w] = "done"
    BY DEF IInv, EndInv, ReaderInv
  <2>2. PICK w \in Writers : pid[w] = r
    BY <2>1 DEF IInv, StreamInv
  <2>3. status[w] \in {"success", "failure", "killed"}
    BY <2>1, <2>2, Parties DEF IInv, EndInv, TypeOK
  <2>4. CASE status[w] = "success"
    <3>1. IsPrefixOfFile(Stream(r), w) /\ Len(Stream(r)) = FileLen
      BY <2>2, <2>4 DEF IInv, StreamInv, WriterInv
    <3>2. out[r] \in Seq(Blocks)
      BY DEF IInv, TypeOK
    <3>3. Stream(r) = out[r]
      BY <2>1, <3>2 DEF Stream
    <3>4. out[r] = File(w)
      BY <3>1, <3>2, <3>3 DEF IsPrefixOfFile, File
    <3>5. QED
      BY <2>2, <3>4
  <2>5. QED
    BY <2>2, <2>3, <2>4
<1>2. QED
  BY <1>1, Inductive, PTL
=============================================================================
