------------------------------- MODULE Signal -------------------------------
(***************************************************************************)
(* 3_sem/Signal: a child sends a file to its parent bit by bit.  SIGUSR1   *)
(* is a 0, SIGUSR2 a 1, and the parent acknowledges each bit with SIGUSR2. *)
(* Both block every signal except inside sigsuspend(), which runs the      *)
(* handlers of everything that is pending before it returns.               *)
(*                                                                         *)
(* A pending signal is a flag, not a counter: the same signal sent twice   *)
(* before it is handled arrives once.                                      *)
(***************************************************************************)
EXTENDS Naturals, Sequences

CONSTANTS File,     \* a sequence of letters
          NBits,    \* bits of a letter, 8 in the code
          Faulty,   \* who may get an error from fork, open, read, write, close
          MaxKills, \* at most this many processes are ended by SIGKILL
          MaxStops  \* the child is stopped at most this many times

Bits   == 0..NBits - 1
Letter == [Bits -> {0, 1}]

ASSUME SignalAssumption == /\ NBits \in Nat \ {0}
                           /\ File \in Seq(Letter)
                           /\ Faulty \subseteq {"parent", "child"}
                           /\ MaxKills \in Nat
                           /\ MaxStops \in Nat

VARIABLES
  parent,     \* the call the parent makes next
  child,      \* the call the child makes next
  prnt_sig,   \* signals pending for the parent
  chld_sig,   \* signals pending for the child
  i,          \* the parent's loop counter
  cur_letter, \* the letter the parent has assembled so far
  BIT,        \* what the parent's last handler stored
  pos,        \* letters the child has read
  j,          \* the child's loop counter
  pdeathsig,  \* whether the child has asked for SIGTERM on its parent's end
  stopped,    \* whether the child is stopped
  outcome,    \* how the parent ended
  chld_end,   \* how the child ended
  written,    \* what the parent has written to its stdout
  kills, stops

prntvars == <<parent, i, cur_letter, BIT, outcome, written>>
chldvars == <<child, pos, j, pdeathsig, chld_end>>
vars == <<prntvars, chldvars, prnt_sig, chld_sig, stopped, kills, stops>>

USR == {"SIGUSR1", "SIGUSR2"}
Zero == [b \in Bits |-> 0]

Init ==
  /\ parent = "fork" /\ child = "none"
  /\ prnt_sig = {} /\ chld_sig = {}
  /\ i = 0 /\ cur_letter = Zero /\ BIT = 0
  /\ pos = 0 /\ j = 0
  /\ pdeathsig = FALSE /\ stopped = FALSE
  /\ outcome = "running" /\ chld_end = "running"
  /\ written = <<>>
  /\ kills = 0 /\ stops = 0

(* The kernel's part of a process's end. *)
ParentEnds(how) ==
  /\ parent' = "done"
  /\ outcome' = how
  /\ chld_sig' = IF pdeathsig THEN chld_sig \cup {"SIGTERM"} ELSE chld_sig

ChildEnds(how) ==
  /\ child' = "done"
  /\ chld_end' = how
  /\ prnt_sig' = prnt_sig \cup {"SIGCHLD"}

-----------------------------------------------------------------------------
(* The parent. *)

Fork ==
  /\ parent = "fork"
  /\ parent' = "sigsuspend"
  /\ child' = "prctl"
  /\ UNCHANGED <<i, cur_letter, BIT, outcome, written, pos, j, pdeathsig,
                 chld_end, prnt_sig, chld_sig, stopped, kills, stops>>

(* hnd_sigchld(): wait3() returns 0 and leaves status 0 while the child    *)
(* has not ended, and WIFEXITED holds of 0 as it does of any exit code.    *)
hnd_sigchld == ParentEnds(IF chld_end = "killed" THEN "failure" ELSE "success")

(* Mutant: IS_CHILD_DIED is never looked at. *)
SuspendDeaf ==
  /\ parent = "sigsuspend"
  /\ prnt_sig \cap USR # {}
  /\ BIT' = IF "SIGUSR1" \in prnt_sig THEN 0 ELSE 1
  /\ cur_letter' = [cur_letter EXCEPT ![i] = BIT']
  /\ parent' = "kill"
  /\ prnt_sig' = {}
  /\ UNCHANGED <<i, outcome, written, chldvars, chld_sig, stopped, kills, stops>>

(* Mutant: the exit code the parent reports ignores how the child ended. *)
SuspendSuccess ==
  /\ parent = "sigsuspend"
  /\ prnt_sig # {}
  /\ prnt_sig' = {}
  /\ IF "SIGCHLD" \in prnt_sig
       THEN /\ ParentEnds("success")
            /\ UNCHANGED <<BIT, cur_letter>>
       ELSE /\ BIT' = IF "SIGUSR1" \in prnt_sig THEN 0 ELSE 1
            /\ cur_letter' = [cur_letter EXCEPT ![i] = BIT']
            /\ parent' = "kill"
            /\ UNCHANGED <<outcome, chld_sig>>
  /\ UNCHANGED <<i, written, chldvars, stopped, kills, stops>>

(* sigsuspend() with its handlers, and the bit put into cur_letter.  Were  *)
(* both bit signals pending, the frame of SIGUSR1 would be the lower one   *)
(* and its handler the last to run.                                        *)
Suspend ==
  /\ parent = "sigsuspend"
  /\ prnt_sig # {}
  /\ prnt_sig' = {}
  /\ IF "SIGCHLD" \in prnt_sig
       THEN /\ hnd_sigchld
            /\ UNCHANGED <<BIT, cur_letter>>
       ELSE /\ BIT' = IF "SIGUSR1" \in prnt_sig THEN 0 ELSE 1
            /\ cur_letter' = [cur_letter EXCEPT ![i] = BIT']
            /\ parent' = "kill"
            /\ UNCHANGED <<outcome, chld_sig>>
  /\ UNCHANGED <<i, written, chldvars, stopped, kills, stops>>

(* Mutant: the answer is sent when the letter is complete only. *)
KillPerLetter ==
  /\ parent = "kill"
  /\ chld_sig' = IF i + 1 < NBits THEN chld_sig ELSE chld_sig \cup {"SIGUSR2"}
  /\ i' = i + 1
  /\ parent' = IF i + 1 < NBits THEN "sigsuspend" ELSE "write"
  /\ UNCHANGED <<cur_letter, BIT, outcome, written, chldvars, prnt_sig, stopped,
                 kills, stops>>

(* kill (chld_pid, SIGUSR2): the child stays a zombie until the parent     *)
(* waits for it, so the call succeeds.                                     *)
Kill ==
  /\ parent = "kill"
  /\ chld_sig' = chld_sig \cup {"SIGUSR2"}
  /\ i' = i + 1
  /\ parent' = IF i + 1 < NBits THEN "sigsuspend" ELSE "write"
  /\ UNCHANGED <<cur_letter, BIT, outcome, written, chldvars, prnt_sig, stopped,
                 kills, stops>>

Write ==
  /\ parent = "write"
  /\ written' = Append(written, cur_letter)
  /\ i' = 0
  /\ cur_letter' = Zero
  /\ parent' = "sigsuspend"
  /\ UNCHANGED <<BIT, outcome, chldvars, prnt_sig, chld_sig, stopped, kills, stops>>

(* fork() or write() fails. *)
ParentError ==
  /\ "parent" \in Faulty
  /\ parent \in {"fork", "write"}
  /\ ParentEnds("failure")
  /\ UNCHANGED <<i, cur_letter, BIT, written, chldvars, prnt_sig, stopped,
                 kills, stops>>

-----------------------------------------------------------------------------
(* The child. *)

Prctl ==
  /\ child = "prctl"
  /\ pdeathsig' = TRUE
  /\ child' = "getppid"
  /\ UNCHANGED <<prntvars, pos, j, chld_end, prnt_sig, chld_sig, stopped, kills, stops>>

(* Mutant: the child does not check that it still has its parent. *)
GetppidUnchecked ==
  /\ child = "getppid"
  /\ child' = "open"
  /\ UNCHANGED <<chld_end, prnt_sig>>
  /\ UNCHANGED <<prntvars, pos, j, pdeathsig, chld_sig, stopped, kills, stops>>

Getppid ==
  /\ child = "getppid"
  /\ IF parent = "done"
       THEN ChildEnds("failure")
       ELSE child' = "open" /\ UNCHANGED <<chld_end, prnt_sig>>
  /\ UNCHANGED <<prntvars, pos, j, pdeathsig, chld_sig, stopped, kills, stops>>

Open ==
  /\ child = "open"
  /\ child' = "read"
  /\ UNCHANGED <<prntvars, pos, j, pdeathsig, chld_end, prnt_sig, chld_sig,
                 stopped, kills, stops>>

Read ==
  /\ child = "read"
  /\ IF pos < Len(File)
       THEN pos' = pos + 1 /\ j' = 0 /\ child' = "kill"
       ELSE child' = "close" /\ UNCHANGED <<pos, j>>
  /\ UNCHANGED <<prntvars, pdeathsig, chld_end, prnt_sig, chld_sig, stopped,
                 kills, stops>>

BitSignal == IF File[pos][j] = 0 THEN "SIGUSR1" ELSE "SIGUSR2"

(* kill() of the parent, which succeeds on a zombie too. *)
SendBit ==
  /\ child = "kill"
  /\ prnt_sig' = prnt_sig \cup {BitSignal}
  /\ child' = "sigsuspend"
  /\ UNCHANGED <<prntvars, pos, j, pdeathsig, chld_end, chld_sig, stopped, kills, stops>>

(* kill() fails once the parent has been waited for. *)
SendBitFails ==
  /\ child = "kill"
  /\ parent = "done"
  /\ ChildEnds("failure")
  /\ UNCHANGED <<prntvars, pos, j, pdeathsig, chld_sig, stopped, kills, stops>>

(* Mutant: the child does not wait for the answer. *)
ChildDoesNotWait ==
  /\ child = "sigsuspend"
  /\ chld_sig' = {}
  /\ j' = j + 1
  /\ child' = IF j + 1 < NBits THEN "kill" ELSE "read"
  /\ UNCHANGED <<chld_end, prnt_sig>>
  /\ UNCHANGED <<prntvars, pos, pdeathsig, stopped, kills, stops>>

(* Only SIGTERM, whose action is the default one, ends the child here. *)
ChildSuspend ==
  /\ child = "sigsuspend"
  /\ chld_sig # {}
  /\ chld_sig' = {}
  /\ IF "SIGTERM" \in chld_sig
       THEN ChildEnds("killed") /\ UNCHANGED j
       ELSE /\ j' = j + 1
            /\ child' = IF j + 1 < NBits THEN "kill" ELSE "read"
            /\ UNCHANGED <<chld_end, prnt_sig>>
  /\ UNCHANGED <<prntvars, pos, pdeathsig, stopped, kills, stops>>

Close ==
  /\ child = "close"
  /\ ChildEnds("success")
  /\ UNCHANGED <<prntvars, pos, j, pdeathsig, chld_sig, stopped, kills, stops>>

(* open(), read() or close() fails. *)
ChildError ==
  /\ "child" \in Faulty
  /\ child \in {"open", "read", "close"}
  /\ ChildEnds("failure")
  /\ UNCHANGED <<prntvars, pos, j, pdeathsig, chld_sig, stopped, kills, stops>>

-----------------------------------------------------------------------------
(* What others do to the two processes. *)

KillParent ==
  /\ kills < MaxKills
  /\ parent # "done"
  /\ ParentEnds("killed")
  /\ kills' = kills + 1
  /\ UNCHANGED <<i, cur_letter, BIT, written, chldvars, prnt_sig, stopped, stops>>

KillChild ==
  /\ kills < MaxKills
  /\ child \notin {"none", "done"}
  /\ ChildEnds("killed")
  /\ kills' = kills + 1
  /\ UNCHANGED <<prntvars, pos, j, pdeathsig, chld_sig, stopped, stops>>

(* SIGSTOP and SIGCONT: without SA_NOCLDSTOP the parent is told of both. *)
Stop ==
  /\ stops < MaxStops
  /\ child \notin {"none", "done"} /\ ~ stopped
  /\ stopped' = TRUE
  /\ stops' = stops + 1
  /\ prnt_sig' = prnt_sig \cup {"SIGCHLD"}
  /\ UNCHANGED <<prntvars, chldvars, chld_sig, kills>>

Continue ==
  /\ child # "done" /\ stopped
  /\ stopped' = FALSE
  /\ prnt_sig' = prnt_sig \cup {"SIGCHLD"}
  /\ UNCHANGED <<prntvars, chldvars, chld_sig, kills, stops>>

-----------------------------------------------------------------------------
ParentStep == Fork \/ Suspend \/ Kill \/ Write \/ ParentError

ChildStep ==
  /\ ~ stopped
  /\ \/ Prctl \/ Getppid \/ Open \/ Read \/ SendBit \/ SendBitFails
     \/ ChildSuspend \/ Close \/ ChildError

Disturbance == KillParent \/ KillChild \/ Stop \/ Continue

Next == ParentStep \/ ChildStep \/ Disturbance

Spec == Init /\ [][Next]_vars

(* The system runs every process that is neither asleep nor stopped. *)
FairSpec == Spec /\ WF_vars(ParentStep) /\ WF_vars(ChildStep)

-----------------------------------------------------------------------------
(* Properties. *)

TypeOK ==
  /\ parent \in {"fork", "sigsuspend", "kill", "write", "done"}
  /\ child \in {"none", "prctl", "getppid", "open", "read", "kill",
                "sigsuspend", "close", "done"}
  /\ prnt_sig \subseteq USR \cup {"SIGCHLD"}
  /\ chld_sig \subseteq {"SIGUSR2", "SIGTERM"}
  /\ i \in 0..NBits /\ (parent \in {"fork", "sigsuspend", "kill"} => i \in Bits)
  /\ j \in 0..NBits /\ (child \in {"kill", "sigsuspend"} => j \in Bits)
  /\ cur_letter \in Letter /\ BIT \in {0, 1}
  /\ pos \in 0..Len(File) /\ (child \in {"kill", "sigsuspend"} => pos # 0)
  /\ pdeathsig \in BOOLEAN /\ stopped \in BOOLEAN
  /\ outcome \in {"running", "success", "failure", "killed"}
  /\ chld_end \in {"running", "success", "failure", "killed"}
  /\ written \in Seq(Letter)
  /\ kills \in 0..MaxKills /\ stops \in 0..MaxStops

(* No signal of the protocol is sent while an earlier one is pending, so   *)
(* none is merged with another: each bit waits for its own answer.         *)
NoSignalMerges ==
  [][/\ child = "kill" /\ child' = "sigsuspend" => prnt_sig \cap USR = {}
     /\ parent = "kill" /\ i' # i => "SIGUSR2" \notin chld_sig]_vars

(* What the parent writes is a prefix of the file, whichever process is    *)
(* killed, stopped or gets an error.                                       *)
OutputIsPrefix ==
  /\ Len(written) <= Len(File)
  /\ \A k \in 1..Len(written) : written[k] = File[k]

(* The child was never stopped and did not end with an error of its own:   *)
(* hnd_sigchld() cannot tell a stopped or failed child from one that has   *)
(* sent the whole file, and the parent then returns 0 after a prefix.      *)
Backed == stops = 0 /\ chld_end # "failure"

(* The parent is a copier of the abstract specification; a success that    *)
(* its child does not back counts as a failure.                            *)
Outcome ==
  IF outcome = "killed" \/ (outcome = "success" /\ ~ Backed)
    THEN "failure" ELSE outcome

FC == INSTANCE FileCopy WITH
        Copier  <- {"parent"},
        Files   <- {File},
        copied  <- [c \in {"parent"} |-> written],
        outcome <- [c \in {"parent"} |-> Outcome]

(* The parent writes the file letter by letter, reports success only when  *)
(* it is whole and the child backs it, and stands by its report.           *)
ImplementsFileCopy == FC!Spec

(* Neither process outlives the other: PR_SET_PDEATHSIG and the getppid()  *)
(* after it end the child unless it stays stopped, SIGCHLD ends the parent.*)
ChildFollowsParent ==
  (parent = "done" /\ child # "none") ~> (child = "done" \/ stopped)
ParentFollowsChild == child = "done" ~> parent = "done"

(* The file is written and both processes return 0, unless one of them is  *)
(* killed or stopped or gets an error: the acknowledged bits never leave   *)
(* both of them waiting.                                                   *)
Delivers ==
  <>(\/ (written = File /\ outcome = "success" /\ chld_end = "success")
     \/ kills > 0 \/ stops > 0
     \/ "failure" \in {outcome, chld_end})
=============================================================================
