---------------------------- MODULE SignalProofs ----------------------------
(***************************************************************************)
(* The bit protocol of 3_sem/Signal, for every file, every width of a      *)
(* letter and any number of kills and stops: no signal is merged with      *)
(* another, and the output is a prefix of the file.  Where only kills      *)
(* disturb it, it implements FileCopy.                                     *)
(***************************************************************************)
EXTENDS Signal, TLAPS

LEMMA BitFacts ==
  /\ NBits \in Nat \ {0} /\ 0 \in Bits /\ Bits \subseteq 0..NBits /\ Zero \in Letter
  /\ \A b \in Bits : /\ b + 1 \in 0..NBits /\ b \in Nat
                     /\ b + 1 < NBits => b + 1 \in Bits
                     /\ ~ (b + 1 < NBits) => b + 1 = NBits
  /\ Len(File) \in Nat
  /\ \A k \in 1..Len(File) : \A b \in Bits : File[k][b] \in {0, 1}
  /\ MaxKills \in Nat /\ MaxStops \in Nat
BY SignalAssumption DEF Bits, Letter, Zero

LEMMA TypeInit == Init => TypeOK
<1> SUFFICES ASSUME Init PROVE TypeOK
  OBVIOUS
<1>1. written \in Seq(Letter) /\ cur_letter \in Letter
  BY BitFacts DEF Init
<1>2. i \in 0..NBits /\ i \in Bits /\ j \in 0..NBits /\ pos \in 0..Len(File)
  BY BitFacts DEF Init
<1>3. kills \in 0..MaxKills /\ stops \in 0..MaxStops
  BY BitFacts DEF Init
<1>4. QED
  BY <1>1, <1>2, <1>3 DEF Init, TypeOK

LEMMA TypeStep == TypeOK /\ [Next]_vars => TypeOK'
<1> SUFFICES ASSUME TypeOK, [Next]_vars PROVE TypeOK'
    OBVIOUS
<1> USE BitFacts DEF TypeOK, USR, prntvars, chldvars
<1>1. CASE Fork
  BY <1>1 DEF Fork
<1>2. CASE Suspend
  <2>1. BIT' \in {0, 1} /\ cur_letter' \in Letter
    BY <1>2 DEF Suspend, Letter
  <2>2. chld_sig' \subseteq {"SIGUSR2", "SIGTERM"}
    BY <1>2 DEF Suspend, hnd_sigchld, ParentEnds
  <2>3. /\ parent' \in {"kill", "done"}
        /\ outcome' \in {"running", "success", "failure", "killed"}
    BY <1>2 DEF Suspend, hnd_sigchld, ParentEnds
  <2>4. QED
    BY <1>2, <2>1, <2>2, <2>3 DEF Suspend
<1>3. CASE Kill
  <2>1. i \in Bits
    BY <1>3 DEF Kill
  <2>2. i' \in 0..NBits /\ (parent' \in {"sigsuspend", "kill"} => i' \in Bits)
    BY <1>3, <2>1 DEF Kill
  <2>3. QED
    BY <1>3, <2>2 DEF Kill
<1>4. CASE Write
  <2>1. written' \in Seq(Letter)
    BY <1>4 DEF Write
  <2>2. QED
    BY <1>4, <2>1 DEF Write
<1>5. CASE ParentError
  BY <1>5 DEF ParentError, ParentEnds
<1>6. CASE Prctl
  BY <1>6 DEF Prctl
<1>7. CASE Getppid
  BY <1>7 DEF Getppid, ChildEnds
<1>8. CASE Open
  BY <1>8 DEF Open
<1>9. CASE Read
  <2>1. pos' \in 0..Len(File) /\ (child' = "kill" => pos' # 0)
    BY <1>9 DEF Read
  <2>2. QED
    BY <1>9, <2>1 DEF Read
<1>10. CASE SendBit
  <2>1. prnt_sig' \subseteq USR \cup {"SIGCHLD"}
    BY <1>10 DEF SendBit, BitSignal
  <2>2. QED
    BY <1>10, <2>1 DEF SendBit
<1>11. CASE SendBitFails \/ Close \/ ChildError
  BY <1>11 DEF SendBitFails, Close, ChildError, ChildEnds
<1>12. CASE ChildSuspend
  <2>1. j \in Bits /\ pos # 0
    BY <1>12 DEF ChildSuspend
  <2>2. j' \in 0..NBits /\ (child' \in {"kill", "sigsuspend"} => j' \in Bits)
    BY <1>12, <2>1 DEF ChildSuspend, ChildEnds
  <2>3. /\ child' \in {"kill", "read", "done"}
        /\ prnt_sig' \subseteq USR \cup {"SIGCHLD"}
        /\ chld_end' \in {"running", "success", "failure", "killed"}
    BY <1>12 DEF ChildSuspend, ChildEnds
  <2>4. QED
    BY <1>12, <2>1, <2>2, <2>3 DEF ChildSuspend
<1>13. CASE KillParent
  <2>1. kills' \in 0..MaxKills
    BY <1>13 DEF KillParent
  <2>2. QED
    BY <1>13, <2>1 DEF KillParent, ParentEnds
<1>14. CASE KillChild
  <2>1. kills' \in 0..MaxKills
    BY <1>14 DEF KillChild
  <2>2. QED
    BY <1>14, <2>1 DEF KillChild, ChildEnds
<1>15. CASE Stop
  <2>1. stops' \in 0..MaxStops
    BY <1>15 DEF Stop
  <2>2. QED
    BY <1>15, <2>1 DEF Stop
<1>16. CASE Continue
  <2>1. prnt_sig' \subseteq USR \cup {"SIGCHLD"}
    BY <1>16 DEF Continue
  <2>2. stopped' \in BOOLEAN /\ UNCHANGED <<prntvars, chldvars, chld_sig, kills, stops>>
    BY <1>16 DEF Continue
  <2>3. QED
    BY <2>1, <2>2
<1>17. CASE UNCHANGED vars
  BY <1>17 DEF vars
<1>18. QED
  BY <1>1, <1>2, <1>3, <1>4, <1>5, <1>6, <1>7, <1>8, <1>9, <1>10, <1>11,
     <1>12, <1>13, <1>14, <1>15, <1>16, <1>17
  DEF Next, ParentStep, ChildStep, Disturbance

(* Every variable keeps its type, whatever the file and the disturbances.  *)
THEOREM TypeCorrect == Spec => []TypeOK
BY TypeInit, TypeStep, PTL DEF Spec

-----------------------------------------------------------------------------
(* No signal is merged with another.                                       *)

BitPending == prnt_sig \cap USR # {}
AnswerPending == "SIGUSR2" \in chld_sig

(* At most one signal of the protocol is on its way, and only while the    *)
(* child waits, or has died waiting, and the parent is not about to        *)
(* answer.                                                                 *)
OneSignal ==
  /\ child \notin {"sigsuspend", "done"} =>
       ~ BitPending /\ ~ AnswerPending /\ parent # "kill"
  /\ BitPending => ~ AnswerPending /\ parent # "kill"
  /\ parent = "kill" => ~ AnswerPending
  /\ parent = "fork" => child = "none"

LEMMA OneSignalStep == TypeOK /\ OneSignal /\ [Next]_vars => OneSignal'
<1> SUFFICES ASSUME TypeOK, OneSignal, [Next]_vars PROVE OneSignal'
    OBVIOUS
<1> USE DEF OneSignal, BitPending, AnswerPending, USR
<1>1. CASE Fork
  BY <1>1 DEF Fork, TypeOK
<1>2. CASE Suspend
  <2>1. ~ BitPending' /\ child' = child /\ (AnswerPending' => AnswerPending)
    BY <1>2 DEF Suspend, hnd_sigchld, ParentEnds, chldvars
  <2>2. parent' \in {"kill", "done"} /\ (parent' = "kill" => BitPending)
    BY <1>2 DEF Suspend, hnd_sigchld, ParentEnds, TypeOK
  <2>3. QED
    BY <2>1, <2>2
<1>3. CASE Kill
  <2>1. /\ parent = "kill" /\ parent' \in {"sigsuspend", "write"}
        /\ UNCHANGED <<child, prnt_sig>>
    BY <1>3 DEF Kill, chldvars
  <2>2. ~ BitPending' /\ child' \in {"sigsuspend", "done"} /\ parent' \notin {"kill", "fork"}
    BY <2>1
  <2>3. QED
    BY ONLY <2>2 DEF OneSignal
<1>4. CASE Write
  BY <1>4 DEF Write, chldvars
<1>5. CASE ParentError \/ KillParent
  BY <1>5 DEF ParentError, KillParent, ParentEnds, chldvars
<1>6. CASE Prctl \/ Open
  BY <1>6 DEF Prctl, Open, prntvars
<1>7. CASE Getppid
  BY <1>7 DEF Getppid, ChildEnds, prntvars
<1>8. CASE Read
  BY <1>8 DEF Read, prntvars
<1>9. CASE SendBit
  BY <1>9 DEF SendBit, prntvars
<1>10. CASE SendBitFails \/ Close \/ ChildError
  BY <1>10 DEF SendBitFails, Close, ChildError, ChildEnds, prntvars
<1>11. CASE ChildSuspend
  BY <1>11 DEF ChildSuspend, ChildEnds, prntvars, TypeOK
<1>12. CASE KillChild
  BY <1>12 DEF KillChild, ChildEnds, prntvars
<1>13. CASE Stop \/ Continue
  BY <1>13 DEF Stop, Continue, prntvars, chldvars
<1>14. CASE UNCHANGED vars
  BY <1>14 DEF vars, prntvars, chldvars
<1>15. QED
  BY <1>1, <1>2, <1>3, <1>4, <1>5, <1>6, <1>7, <1>8, <1>9, <1>10, <1>11,
     <1>12, <1>13, <1>14
  DEF Next, ParentStep, ChildStep, Disturbance

LEMMA OneSignalInit == Init => OneSignal
BY DEF Init, OneSignal, BitPending, AnswerPending

(* Each bit waits for its own answer, whatever happens to either process:  *)
(* no signal of the protocol is sent while one of its kind is pending.     *)
THEOREM SignalsDoNotMerge == Spec => NoSignalMerges
<1>1. OneSignal /\ [Next]_vars =>
        [/\ child = "kill" /\ child' = "sigsuspend" => prnt_sig \cap USR = {}
         /\ parent = "kill" /\ i' # i => "SIGUSR2" \notin chld_sig]_vars
  BY DEF OneSignal, BitPending, AnswerPending
<1>2. QED
  BY <1>1, TypeInit, TypeStep, OneSignalInit, OneSignalStep, PTL DEF Spec, NoSignalMerges

-----------------------------------------------------------------------------
(* Where the two loops stand.                                              *)

(* The letter and the bit in it that the parent takes next, or has just    *)
(* taken and not answered; it answers a letter's last bit before write().  *)
NextLetter == IF parent = "write" THEN Len(written) + 2 ELSE Len(written) + 1
NextBit    == IF parent = "write" THEN 0 ELSE i

(* How many bits of cur_letter are those of the file.                      *)
Taken == IF parent = "write" THEN NBits ELSE IF parent = "kill" THEN i + 1 ELSE i

AtLetterStart == pos + 1 = NextLetter /\ NextBit = 0
AtBit == pos = NextLetter /\ j = NextBit

BetweenLetters ==
  child \in {"none", "prctl", "getppid", "open", "read", "close"} /\ AtLetterStart
BitToSend == child = "kill" /\ AtBit
BitSent  == /\ child \in {"sigsuspend", "done"} /\ AtBit /\ parent # "kill"
            /\ prnt_sig \cap USR = {BitSignal}
BitTaken == child \in {"sigsuspend", "done"} /\ AtBit /\ parent = "kill"
BitAnswered ==
  /\ child = "sigsuspend" /\ AnswerPending
  /\ IF j + 1 < NBits THEN pos = NextLetter /\ j + 1 = NextBit ELSE AtLetterStart
Over == child = "done" /\ ~ BitPending /\ parent # "kill"

(* While the parent lives, the child is exactly one bit ahead of it or     *)
(* level with it.                                                          *)
InStep ==
  parent # "done" =>
    BetweenLetters \/ BitToSend \/ BitSent \/ BitTaken \/ BitAnswered \/ Over

(* What has been taken and what has been written agrees with the file.     *)
Agrees ==
  /\ OutputIsPrefix
  /\ parent # "done" =>
       /\ Taken > 0 => Len(written) < Len(File)
       /\ \A b \in Bits : b < Taken => cur_letter[b] = File[Len(written) + 1][b]

LinkInv == TypeOK /\ OneSignal /\ InStep /\ Agrees

LEMMA LinkInit == Init => InStep /\ Agrees
<1> SUFFICES ASSUME Init PROVE InStep /\ Agrees
  OBVIOUS
<1>1. parent = "fork" /\ child = "none" /\ i = 0 /\ pos = 0 /\ written = <<>>
  BY DEF Init
<1>2. BetweenLetters
  BY <1>1 DEF BetweenLetters, AtLetterStart, NextLetter, NextBit
<1>3. Agrees
  BY <1>1, BitFacts DEF Agrees, OutputIsPrefix, Taken, Bits
<1>4. QED
  BY <1>2, <1>3 DEF InStep

(* The child stops where it is: what it had sent may still be taken.       *)
LEMMA ChildEndsInStep ==
  ASSUME LinkInv, NEW how, ChildEnds(how), child # "none",
         UNCHANGED <<prntvars, pos, j>>
  PROVE  InStep'
<1> SUFFICES ASSUME parent # "done" PROVE InStep'
  BY DEF InStep, prntvars
<1>1. /\ child' = "done" /\ UNCHANGED <<parent, i, written, pos, j>>
      /\ prnt_sig' \cap USR = prnt_sig \cap USR
  BY DEF ChildEnds, prntvars, USR
<1>2. (AtBit' <=> AtBit) /\ BitSignal' = BitSignal
  BY <1>1 DEF AtBit, NextLetter, NextBit, BitSignal
<1>3. CASE BitSent
  BY <1>1, <1>2, <1>3 DEF InStep, BitSent
<1>4. CASE BitTaken
  BY <1>1, <1>2, <1>4 DEF InStep, BitTaken
<1>5. CASE ~ BitSent /\ ~ BitTaken
  <2>1. ~ BitPending /\ parent # "kill"
    BY <1>5 DEF LinkInv, InStep, OneSignal, BetweenLetters, BitToSend, BitAnswered,
                Over, BitPending
  <2>2. QED
    BY <1>1, <2>1 DEF InStep, Over, BitPending
<1>6. QED
  BY <1>3, <1>4, <1>5

LEMMA InStepStep == LinkInv /\ [Next]_vars => InStep'
<1> SUFFICES ASSUME LinkInv, [Next]_vars, parent' # "done" PROVE InStep'
  BY DEF InStep
<1>1. /\ TypeOK /\ OneSignal /\ InStep /\ Agrees
      /\ Len(written) \in Nat /\ pos \in Nat /\ j \in Nat /\ i \in Nat
  BY BitFacts DEF LinkInv, TypeOK
<1>2. CASE Fork
  <2>1. BetweenLetters
    BY <1>1, <1>2 DEF Fork, InStep, OneSignal, BetweenLetters, BitToSend, BitSent,
                      BitTaken, BitAnswered, Over
  <2>2. BetweenLetters'
    BY <1>2, <2>1 DEF Fork, BetweenLetters, AtLetterStart, NextLetter, NextBit
  <2>3. QED
    BY <2>2 DEF InStep
<1>3. CASE Suspend
  <2>1. /\ parent = "sigsuspend" /\ parent' = "kill" /\ BitPending
        /\ UNCHANGED <<child, pos, j, i, written>>
    BY <1>1, <1>3 DEF Suspend, hnd_sigchld, ParentEnds, BitPending, USR, TypeOK, chldvars
  <2>2. BitSent
    BY <1>1, <2>1 DEF InStep, OneSignal, BetweenLetters, BitToSend, BitTaken,
                      BitAnswered, Over
  <2>3. BitTaken'
    BY <2>1, <2>2 DEF BitSent, BitTaken, AtBit, NextLetter, NextBit
  <2>4. QED
    BY <2>3 DEF InStep
<1>4. CASE Kill
  <2>1. /\ parent = "kill" /\ AnswerPending' /\ i' = i + 1
        /\ parent' = IF i + 1 < NBits THEN "sigsuspend" ELSE "write"
        /\ UNCHANGED <<child, pos, j, written, prnt_sig>>
    BY <1>4 DEF Kill, AnswerPending, chldvars
  <2>2. BitTaken
    BY <1>1, <2>1 DEF InStep, OneSignal, BetweenLetters, BitToSend, BitSent,
                      BitAnswered, Over
  <2>3. CASE child = "done"
    <3>1. ~ BitPending'
      BY <1>1, <2>1 DEF OneSignal, BitPending
    <3>2. QED
      BY <2>1, <2>3, <3>1 DEF InStep, Over
  <2>4. CASE child = "sigsuspend"
    <3>1. pos = Len(written) + 1 /\ j = i
      BY <2>1, <2>2 DEF BitTaken, AtBit, NextLetter, NextBit
    <3>2. CASE i + 1 < NBits
      <4>1. NextLetter' = Len(written) + 1 /\ NextBit' = i + 1
        BY <2>1, <3>2 DEF NextLetter, NextBit
      <4>2. QED
        BY <2>1, <2>4, <3>1, <3>2, <4>1 DEF InStep, BitAnswered
    <3>3. CASE ~ (i + 1 < NBits)
      <4>1. NextLetter' = Len(written) + 2 /\ NextBit' = 0
        BY <2>1, <3>3 DEF NextLetter, NextBit
      <4>2. AtLetterStart'
        BY <1>1, <2>1, <3>1, <4>1 DEF AtLetterStart
      <4>3. QED
        BY <2>1, <2>4, <3>1, <3>3, <4>2 DEF InStep, BitAnswered
    <3>4. QED
      BY <3>2, <3>3
  <2>5. QED
    BY <2>2, <2>3, <2>4 DEF BitTaken
<1>5. CASE Write
  <2>1. /\ parent = "write" /\ parent' = "sigsuspend" /\ i' = 0
        /\ UNCHANGED <<child, pos, j, prnt_sig, chld_sig>>
        /\ Len(written') = Len(written) + 1
    BY <1>1, <1>5 DEF Write, chldvars, TypeOK
  <2>2. NextLetter' = NextLetter /\ NextBit' = NextBit
    BY <1>1, <2>1 DEF NextLetter, NextBit
  <2>3. QED
    BY <1>1, <2>1, <2>2 DEF InStep, BetweenLetters, BitToSend, BitSent, BitTaken,
       BitAnswered, Over, AtLetterStart, AtBit, BitSignal, BitPending, AnswerPending
<1>6. CASE ParentError \/ KillParent
  BY <1>6 DEF ParentError, KillParent, ParentEnds
<1>7. CASE Prctl \/ Open \/ (Getppid /\ parent # "done")
  <2>1. /\ child \in {"prctl", "open", "getppid"} /\ child' \in {"getppid", "open", "read"}
        /\ UNCHANGED <<parent, i, written, pos>>
    BY <1>7 DEF Prctl, Open, Getppid, prntvars
  <2>2. AtLetterStart
    BY <1>1, <2>1 DEF InStep, BetweenLetters, BitToSend, BitSent, BitTaken, BitAnswered,
                      Over, prntvars
  <2>3. QED
    BY <2>1, <2>2 DEF InStep, BetweenLetters, AtLetterStart, NextLetter, NextBit
<1>8. CASE Getppid /\ parent = "done"
  BY <1>8 DEF Getppid, prntvars
<1>9. CASE Read
  <2>1. child = "read" /\ UNCHANGED <<parent, i, written>>
    BY <1>9 DEF Read, prntvars
  <2>2. AtLetterStart
    BY <1>1, <2>1 DEF InStep, BetweenLetters, BitToSend, BitSent, BitTaken, BitAnswered, Over
  <2>3. NextLetter' = NextLetter /\ NextBit' = NextBit
    BY <2>1 DEF NextLetter, NextBit
  <2>4. BitToSend' \/ BetweenLetters'
    BY <1>9, <2>2, <2>3 DEF Read, BitToSend, BetweenLetters, AtLetterStart, AtBit
  <2>5. QED
    BY <2>4 DEF InStep
<1>10. CASE SendBit
  <2>1. /\ child = "kill" /\ child' = "sigsuspend" /\ UNCHANGED <<parent, i, written, pos, j>>
        /\ prnt_sig' = prnt_sig \cup {BitSignal}
    BY <1>10 DEF SendBit, prntvars
  <2>2. AtBit /\ ~ BitPending /\ parent # "kill"
    BY <1>1, <2>1 DEF InStep, BetweenLetters, BitToSend, BitSent, BitTaken, BitAnswered,
                      Over, OneSignal
  <2>3. prnt_sig' \cap USR = {BitSignal'}
    BY <2>1, <2>2 DEF BitPending, BitSignal, USR
  <2>4. QED
    BY <2>1, <2>2, <2>3 DEF InStep, BitSent, AtBit, NextLetter, NextBit
<1>11. CASE SendBitFails \/ Close \/ ChildError \/ KillChild
  <2>1. UNCHANGED <<prntvars, pos, j>> /\ child # "none" /\ \E how : ChildEnds(how)
    BY <1>11 DEF SendBitFails, Close, ChildError, KillChild
  <2>2. QED
    BY <1>1, <2>1, ChildEndsInStep DEF LinkInv
<1>12. CASE ChildSuspend
  <2>1. UNCHANGED <<prntvars, pos>> /\ child = "sigsuspend"
    BY <1>12 DEF ChildSuspend
  <2>2. CASE "SIGTERM" \in chld_sig
    <3>1. ChildEnds("killed") /\ UNCHANGED j
      BY <1>12, <2>2 DEF ChildSuspend
    <3>2. QED
      BY <1>1, <2>1, <3>1, ChildEndsInStep DEF LinkInv
  <2>3. CASE "SIGTERM" \notin chld_sig
    <3>1. /\ AnswerPending /\ j' = j + 1
          /\ child' = IF j + 1 < NBits THEN "kill" ELSE "read"
      BY <1>1, <1>12, <2>3 DEF ChildSuspend, AnswerPending, TypeOK
    <3>2. ~ BitPending /\ parent # "kill"
      BY <1>1, <3>1 DEF OneSignal
    <3>3. ~ BitSent
      BY <3>2 DEF BitSent, BitPending
    <3>4. BitAnswered
      BY <1>1, <2>1, <3>2, <3>3 DEF InStep, BetweenLetters, BitToSend, BitTaken, Over,
                                    prntvars
    <3>5. NextLetter' = NextLetter /\ NextBit' = NextBit
      BY <2>1 DEF NextLetter, NextBit, prntvars
    <3>6. BitToSend' \/ BetweenLetters'
      BY <2>1, <3>1, <3>4, <3>5 DEF BitAnswered, BitToSend, BetweenLetters, AtBit,
                                    AtLetterStart
    <3>7. QED
      BY <3>6 DEF InStep
  <2>4. QED
    BY <2>2, <2>3
<1>13. CASE Stop \/ Continue \/ UNCHANGED vars
  <2>1. /\ UNCHANGED <<parent, i, written, child, pos, j, chld_sig>>
        /\ prnt_sig' \cap USR = prnt_sig \cap USR
    BY <1>13 DEF Stop, Continue, vars, prntvars, chldvars, USR
  <2>2. NextLetter' = NextLetter /\ NextBit' = NextBit /\ BitSignal' = BitSignal
    BY <2>1 DEF NextLetter, NextBit, BitSignal
  <2>3. (AtBit' <=> AtBit) /\ (AtLetterStart' <=> AtLetterStart)
    BY <2>1, <2>2 DEF AtBit, AtLetterStart
  <2>4. BetweenLetters \/ BitToSend => BetweenLetters' \/ BitToSend'
    BY <2>1, <2>3 DEF BetweenLetters, BitToSend
  <2>5. BitSent \/ BitTaken \/ Over => BitSent' \/ BitTaken' \/ Over'
    BY <2>1, <2>2, <2>3 DEF BitSent, BitTaken, Over, BitPending
  <2>6. BitAnswered => BitAnswered'
    BY <2>1, <2>2, <2>3 DEF BitAnswered, AnswerPending
  <2>7. QED
    BY <1>1, <2>1, <2>4, <2>5, <2>6 DEF InStep
<1>14. CASE ParentStep
  BY <1>2, <1>3, <1>4, <1>5, <1>6, <1>14 DEF ParentStep
<1>15. CASE ChildStep
  <2>1. Prctl \/ Open \/ Getppid => InStep'
    BY <1>7, <1>8
  <2>2. SendBitFails \/ Close \/ ChildError => InStep'
    BY <1>11
  <2>3. QED
    BY <1>9, <1>10, <1>12, <1>15, <2>1, <2>2 DEF ChildStep
<1>16. QED
  BY <1>6, <1>11, <1>13, <1>14, <1>15 DEF Next, Disturbance

LEMMA AgreesStep == LinkInv /\ [Next]_vars => Agrees'
<1> SUFFICES ASSUME LinkInv, [Next]_vars PROVE Agrees'
  OBVIOUS
<1>1. /\ TypeOK /\ OneSignal /\ InStep /\ Agrees /\ NBits \in Nat \ {0}
      /\ Len(written) \in Nat /\ i \in Nat /\ Len(File) \in Nat
  BY BitFacts DEF LinkInv, TypeOK
<1>2. CASE UNCHANGED <<parent, i, cur_letter, written>>
  BY <1>1, <1>2 DEF Agrees, OutputIsPrefix, Taken
<1>3. CASE parent' = "done" /\ UNCHANGED written
  BY <1>1, <1>3 DEF Agrees, OutputIsPrefix
<1>4. CASE Fork
  <2>1. /\ parent = "fork" /\ parent' = "sigsuspend"
        /\ UNCHANGED <<i, cur_letter, written>>
    BY <1>4 DEF Fork
  <2>2. Taken' = Taken
    BY <2>1 DEF Taken
  <2>3. QED
    BY <1>1, <2>1, <2>2 DEF Agrees, OutputIsPrefix
<1>5. CASE Suspend /\ "SIGCHLD" \notin prnt_sig
  <2>1. /\ parent = "sigsuspend" /\ parent' = "kill" /\ BitPending
        /\ BIT' = IF "SIGUSR1" \in prnt_sig THEN 0 ELSE 1
        /\ cur_letter' = [cur_letter EXCEPT ![i] = BIT']
        /\ UNCHANGED <<i, written>>
    BY <1>1, <1>5 DEF Suspend, BitPending, USR, TypeOK
  <2>2. BitSent
    BY <1>1, <2>1 DEF InStep, OneSignal, BetweenLetters, BitToSend, BitTaken,
                      BitAnswered, Over
  <2>3. pos = Len(written) + 1 /\ j = i /\ pos \in 1..Len(File) /\ i \in Bits
    BY <1>1, <2>1, <2>2 DEF BitSent, AtBit, NextLetter, NextBit, TypeOK
  <2>4. BIT' = File[pos][j]
    <3>1. File[pos][j] \in {0, 1}
      BY <2>3, BitFacts
    <3>2. "SIGUSR1" \in prnt_sig <=> BitSignal = "SIGUSR1"
      BY <2>2 DEF BitSent, USR
    <3>3. QED
      BY <2>1, <3>1, <3>2 DEF BitSignal
  <2>5. Taken' = i + 1 /\ Taken = i
    BY <2>1 DEF Taken
  <2>6. ASSUME NEW b \in Bits, b < i + 1
        PROVE  cur_letter'[b] = File[Len(written) + 1][b]
    <3>1. CASE b = i
      BY <1>1, <2>1, <2>3, <2>4, <3>1 DEF TypeOK, Letter
    <3>2. CASE b # i
      <4>1. b < i
        BY <1>1, <2>6, <3>2, BitFacts
      <4>2. cur_letter[b] = File[Len(written) + 1][b]
        BY <1>1, <2>1, <2>5, <4>1 DEF Agrees
      <4>3. QED
        BY <1>1, <2>1, <3>2, <4>2 DEF TypeOK, Letter
    <3>3. QED
      BY <3>1, <3>2
  <2>7. Len(written) < Len(File)
    BY <1>1, <2>3
  <2>8. QED
    BY <1>1, <2>1, <2>5, <2>6, <2>7 DEF Agrees, OutputIsPrefix
<1>6. CASE Kill
  <2>1. /\ parent = "kill" /\ i' = i + 1
        /\ parent' = IF i + 1 < NBits THEN "sigsuspend" ELSE "write"
        /\ UNCHANGED <<cur_letter, written>>
    BY <1>6 DEF Kill
  <2>2. Taken' = i + 1 /\ Taken = i + 1
    BY <1>1, <2>1, BitFacts DEF Taken, TypeOK
  <2>3. QED
    BY <1>1, <2>1, <2>2 DEF Agrees, OutputIsPrefix
<1>7. CASE Write
  <2>1. /\ parent = "write" /\ parent' = "sigsuspend" /\ i' = 0
        /\ written' = Append(written, cur_letter)
    BY <1>7 DEF Write
  <2>2. Taken = NBits /\ Taken' = 0
    BY <2>1 DEF Taken
  <2>3. Len(written) < Len(File) /\ cur_letter = File[Len(written) + 1]
    <3>1. Len(written) < Len(File)
      BY <1>1, <2>1, <2>2 DEF Agrees
    <3>2. \A b \in Bits : cur_letter[b] = File[Len(written) + 1][b]
      BY <1>1, <2>1, <2>2 DEF Agrees, Bits
    <3>3. cur_letter \in Letter /\ File[Len(written) + 1] \in Letter
      BY <1>1, <3>1, SignalAssumption DEF TypeOK
    <3>4. QED
      BY <3>1, <3>2, <3>3 DEF Letter
  <2>4. OutputIsPrefix'
    BY <1>1, <2>1, <2>3 DEF Agrees, OutputIsPrefix, TypeOK
  <2>5. ~ (Taken' > 0) /\ \A b \in Bits : ~ (b < Taken')
    BY <2>2, BitFacts
  <2>6. QED
    BY <2>4, <2>5 DEF Agrees
<1>8. QED
  <2>1. CASE Fork \/ Kill \/ Write
    BY <1>4, <1>6, <1>7, <2>1
  <2>2. CASE Suspend
    BY <1>3, <1>5, <2>2 DEF Suspend, hnd_sigchld, ParentEnds
  <2>3. CASE ParentError \/ KillParent
    BY <1>3, <2>3 DEF ParentError, KillParent, ParentEnds
  <2>4. CASE ChildStep \/ KillChild \/ Stop \/ Continue \/ UNCHANGED vars
    BY <1>2, <2>4 DEF ChildStep, Prctl, Getppid, Open, Read, SendBit, SendBitFails,
       ChildSuspend, Close, ChildError, KillChild, Stop, Continue, vars, prntvars
  <2>5. QED
    BY <2>1, <2>2, <2>3, <2>4 DEF Next, ParentStep, Disturbance

LEMMA LinkInvariant == Spec => []LinkInv
<1>1. Init => LinkInv
  BY TypeInit, OneSignalInit, LinkInit DEF LinkInv
<1>2. LinkInv /\ [Next]_vars => LinkInv'
  BY TypeStep, OneSignalStep, InStepStep, AgreesStep DEF LinkInv
<1>3. QED
  BY <1>1, <1>2, PTL DEF Spec

(* What the parent writes is a prefix of the file, for every file, however *)
(* the two processes are scheduled, killed or stopped, and whatever fails. *)
THEOREM OutputCorrect == Spec => []OutputIsPrefix
<1>1. LinkInv => OutputIsPrefix
  BY DEF LinkInv, Agrees
<1>2. QED
  BY <1>1, LinkInvariant, PTL

-----------------------------------------------------------------------------
(* How the two processes end.                                              *)

(* While nothing stops the child, SIGCHLD means that it has ended; and a   *)
(* child that ended by itself had its last letter acknowledged to the last *)
(* bit.                                                                    *)
ExitInv ==
  /\ stops = 0 => ~ stopped /\ ("SIGCHLD" \in prnt_sig => child = "done")
  /\ child # "done" => chld_end = "running"
  /\ child = "done" => chld_end \in {"success", "failure", "killed"}
  /\ child = "close" => pos = Len(File)
  /\ parent # "done" /\ chld_end = "success" =>
       pos = Len(File) /\ AtLetterStart /\ ~ BitPending /\ parent # "kill"
  /\ parent = "done" <=> outcome # "running"
  /\ outcome = "success" /\ stops = 0 => child = "done"
  /\ outcome = "success" /\ Backed => written = File

LEMMA ExitInit == Init => ExitInv
BY DEF Init, ExitInv, Backed

(* The child ends; its parent, if it has ended before, had no reason to    *)
(* report success.                                                         *)
LEMMA ChildEndsExit ==
  ASSUME LinkInv, ExitInv, NEW how \in {"success", "failure", "killed"},
         ChildEnds(how), child # "done", how = "success" => child = "close",
         UNCHANGED <<prntvars, pos, j, stopped, stops>>
  PROVE  ExitInv'
<1>1. /\ child' = "done" /\ chld_end' = how
      /\ UNCHANGED <<parent, i, written, outcome, pos, stopped, stops>>
      /\ prnt_sig' \cap USR = prnt_sig \cap USR
  BY DEF ChildEnds, prntvars, USR
<1>2. (AtLetterStart' <=> AtLetterStart) /\ (BitPending' <=> BitPending)
  BY <1>1 DEF AtLetterStart, NextLetter, NextBit, BitPending
<1>3. how = "success" /\ parent # "done" =>
        pos = Len(File) /\ AtLetterStart /\ ~ BitPending /\ parent # "kill"
  BY DEF LinkInv, InStep, OneSignal, ExitInv, BetweenLetters, BitToSend, BitSent, BitTaken,
         BitAnswered, Over
<1>4. QED
  BY <1>1, <1>2, <1>3 DEF ExitInv, Backed

LEMMA ExitStep ==
  ASSUME LinkInv, ExitInv, [Next]_vars PROVE ExitInv'
<1>1. /\ TypeOK /\ OneSignal /\ InStep /\ Agrees
      /\ Len(written) \in Nat /\ pos \in Nat /\ i \in Nat /\ Len(File) \in Nat
  BY BitFacts DEF LinkInv, TypeOK
<1>2. CASE Stop \/ Continue
  <2>1. /\ stops' # 0
        /\ UNCHANGED <<parent, i, written, outcome, child, chld_end, pos>>
        /\ prnt_sig' \cap USR = prnt_sig \cap USR
    BY <1>1, <1>2 DEF Stop, Continue, ExitInv, TypeOK, prntvars, chldvars, USR
  <2>2. (AtLetterStart' <=> AtLetterStart) /\ (BitPending' <=> BitPending)
    BY <2>1 DEF AtLetterStart, NextLetter, NextBit, BitPending
  <2>3. QED
    BY <2>1, <2>2 DEF ExitInv, Backed
<1>3. CASE Fork
  BY <1>1, <1>3 DEF Fork, ExitInv, OneSignal, TypeOK
<1>4. CASE Suspend
  <2>1. CASE "SIGCHLD" \in prnt_sig
    <3>1. /\ parent' = "done" /\ prnt_sig' = {}
          /\ UNCHANGED <<written, child, chld_end, pos, stopped, stops>>
          /\ outcome' = IF chld_end = "killed" THEN "failure" ELSE "success"
      BY <1>4, <2>1 DEF Suspend, hnd_sigchld, ParentEnds, chldvars
    <3>2. parent = "sigsuspend"
      BY <1>4 DEF Suspend
    <3>3. chld_end = "success" => written = File
      <4> SUFFICES ASSUME chld_end = "success" PROVE written = File
        OBVIOUS
      <4>1. Len(written) = Len(File)
        BY <1>1, <3>2 DEF ExitInv, AtLetterStart, NextLetter
      <4>2. \A k \in 1..Len(File) : written[k] = File[k]
        BY <1>1, <4>1 DEF Agrees, OutputIsPrefix
      <4>3. written \in Seq(Letter) /\ File \in Seq(Letter)
        BY <1>1, SignalAssumption DEF TypeOK
      <4>4. QED
        BY <4>1, <4>2, <4>3
    <3>4. stops = 0 => child = "done" /\ chld_end \in {"success", "failure", "killed"}
      BY <2>1 DEF ExitInv
    <3>5. QED
      BY <3>1, <3>2, <3>3, <3>4 DEF ExitInv, Backed
  <2>2. CASE "SIGCHLD" \notin prnt_sig
    <3>1. /\ parent = "sigsuspend" /\ BitPending /\ prnt_sig' = {} /\ parent' = "kill"
          /\ UNCHANGED <<child, chld_end, pos, outcome, written, stopped, stops>>
      BY <1>1, <1>4, <2>2 DEF Suspend, BitPending, USR, TypeOK, chldvars
    <3>2. QED
      BY <3>1 DEF ExitInv
  <2>3. QED
    BY <2>1, <2>2
<1>5. CASE Kill
  <2>1. /\ parent = "kill" /\ parent' \in {"sigsuspend", "write"}
        /\ UNCHANGED <<child, chld_end, pos, outcome, written, prnt_sig, stopped, stops>>
    BY <1>5 DEF Kill, chldvars
  <2>2. QED
    BY <2>1 DEF ExitInv, Backed
<1>6. CASE Write
  <2>1. /\ parent = "write" /\ parent' = "sigsuspend" /\ i' = 0
        /\ UNCHANGED <<child, chld_end, pos, outcome, prnt_sig, stopped, stops>>
        /\ Len(written') = Len(written) + 1
    BY <1>1, <1>6 DEF Write, chldvars, TypeOK
  <2>2. AtLetterStart => AtLetterStart'
    BY <1>1, <2>1 DEF AtLetterStart, NextLetter, NextBit
  <2>3. QED
    BY <2>1, <2>2 DEF ExitInv, BitPending
<1>7. CASE ParentError \/ KillParent
  <2>1. /\ parent' = "done" /\ outcome' \in {"failure", "killed"}
        /\ UNCHANGED <<child, chld_end, pos, written, prnt_sig, stopped, stops>>
    BY <1>7 DEF ParentError, KillParent, ParentEnds, chldvars
  <2>2. QED
    BY <2>1 DEF ExitInv, Backed
<1>8. CASE Prctl \/ Open \/ (Getppid /\ parent # "done") \/ SendBit
  <2>1. /\ child \in {"prctl", "open", "getppid", "kill"}
        /\ child' \in {"getppid", "open", "read", "sigsuspend"}
        /\ UNCHANGED <<parent, outcome, written, pos, chld_end, stopped, stops>>
        /\ "SIGCHLD" \in prnt_sig' => "SIGCHLD" \in prnt_sig
    BY <1>8 DEF Prctl, Open, Getppid, SendBit, BitSignal, prntvars
  <2>2. QED
    BY <2>1 DEF ExitInv, Backed
<1>9. CASE Read
  <2>1. /\ child = "read" /\ child' \in {"kill", "close"}
        /\ child' = "close" => pos' = Len(File)
        /\ UNCHANGED <<parent, outcome, written, chld_end, prnt_sig, stopped, stops>>
    BY <1>1, <1>9 DEF Read, prntvars, TypeOK
  <2>2. QED
    BY <2>1 DEF ExitInv, Backed
<1>10. CASE ChildSuspend /\ "SIGTERM" \notin chld_sig
  <2>1. /\ child = "sigsuspend" /\ child' \in {"kill", "read"}
        /\ UNCHANGED <<parent, outcome, written, pos, chld_end, prnt_sig, stopped, stops>>
    BY <1>10 DEF ChildSuspend, prntvars
  <2>2. QED
    BY <2>1 DEF ExitInv, Backed
<1>11. CASE \/ Getppid /\ parent = "done"
            \/ SendBitFails \/ Close \/ ChildError \/ KillChild
            \/ ChildSuspend /\ "SIGTERM" \in chld_sig
  <2>1. \E how \in {"success", "failure", "killed"} :
          /\ ChildEnds(how) /\ UNCHANGED <<prntvars, pos, j, stopped, stops>>
          /\ child # "done"
          /\ how = "success" => child = "close"
    BY <1>11 DEF Getppid, SendBitFails, Close, KillChild, ChildSuspend, ChildError
  <2>2. QED
    BY <2>1, ChildEndsExit
<1>12. CASE UNCHANGED vars
  <2>1. UNCHANGED <<parent, i, written, outcome, child, chld_end, pos, prnt_sig, stopped, stops>>
    BY <1>12 DEF vars, prntvars, chldvars
  <2>2. (AtLetterStart' <=> AtLetterStart) /\ (BitPending' <=> BitPending)
    BY <2>1 DEF AtLetterStart, NextLetter, NextBit, BitPending
  <2>3. QED
    BY <2>1, <2>2 DEF ExitInv, Backed
<1>13. CASE ParentStep
  BY <1>3, <1>4, <1>5, <1>6, <1>7, <1>13 DEF ParentStep
<1>14. CASE ChildStep
  BY <1>8, <1>9, <1>10, <1>11, <1>14 DEF ChildStep
<1>15. CASE Disturbance
  BY <1>2, <1>7, <1>11, <1>15 DEF Disturbance
<1>16. QED
  BY <1>12, <1>13, <1>14, <1>15 DEF Next

LEMMA ExitInvariant == Spec => []ExitInv
<1>1. LinkInv /\ ExitInv /\ [Next]_vars => ExitInv'
  BY ExitStep
<1>2. QED
  BY <1>1, ExitInit, LinkInvariant, PTL DEF Spec

(* The program implements FileCopy: write() is Deliver, the parent's exit  *)
(* is Succeed or Abort, and every other step leaves the copy and its       *)
(* outcome alone.                                                          *)
THEOREM Implements == Spec => ImplementsFileCopy
<1> USE DEF FC!vars
<1>1. Init => FC!Init
  BY DEF Init, FC!Init, Outcome, Backed
<1>2. ASSUME LinkInv, ExitInv, ExitInv', [Next]_vars
      PROVE  [FC!Next]_(FC!vars)
  <2> DEFINE copied == [c \in {"parent"} |-> written]
  <2> DEFINE ended == [c \in {"parent"} |-> Outcome]
  <2>1. TypeOK /\ Agrees /\ NBits \in Nat \ {0}
    BY <1>2, BitFacts DEF LinkInv
  <2>2. CASE UNCHANGED <<written, Outcome>>
    BY <2>2
  <2>3. CASE Write
    <3>1. /\ parent = "write" /\ written' = Append(written, cur_letter)
          /\ outcome' = outcome
      BY <2>3 DEF Write
    <3>2. Len(written) < Len(File) /\ Len(written) \in Nat
      BY <2>1, <3>1 DEF Agrees, Taken, TypeOK
    <3>3. cur_letter = File[Len(written) + 1]
      <4>1. \A b \in Bits : cur_letter[b] = File[Len(written) + 1][b]
        BY <2>1, <3>1 DEF Agrees, Taken, Bits
      <4>2. cur_letter \in Letter /\ File[Len(written) + 1] \in Letter
        BY <2>1, <3>2, SignalAssumption DEF TypeOK
      <4>3. QED
        BY <4>1, <4>2 DEF Letter
    <3>4. FC!IsPrefixOf(copied["parent"], File)
      BY <2>1 DEF FC!IsPrefixOf, Agrees, OutputIsPrefix
    <3>5. copied' = [copied EXCEPT !["parent"] = Append(@, File[Len(@) + 1])]
      BY <3>1, <3>3
    <3>6. ended["parent"] = "running" /\ ended' = ended
      BY <1>2, <3>1 DEF ExitInv, Outcome
    <3>7. FC!Deliver("parent")
      BY <3>2, <3>4, <3>5, <3>6 DEF FC!Deliver
    <3>8. QED
      BY <3>7 DEF FC!Next
  <2>4. CASE UNCHANGED written /\ outcome = "running" /\ outcome' # "running"
    <3>1. outcome' \in {"success", "failure", "killed"}
      BY <1>2, <2>1, <2>4, TypeStep DEF TypeOK
    <3>2. ended["parent"] = "running" /\ copied' = copied
      BY <2>4 DEF Outcome
    <3>3. CASE outcome' = "success" /\ Backed'
      <4>1. ended' = [ended EXCEPT !["parent"] = "success"]
        BY <3>3 DEF Outcome
      <4>2. copied["parent"] \in {File}
        BY <1>2, <2>4, <3>3 DEF ExitInv
      <4>3. QED
        BY <3>2, <4>1, <4>2 DEF FC!Succeed, FC!Next
    <3>4. CASE outcome' \in {"failure", "killed"} \/ (outcome' = "success" /\ ~ Backed')
      <4>1. ended' = [ended EXCEPT !["parent"] = "failure"]
        BY <3>4 DEF Outcome
      <4>2. QED
        BY <3>2, <4>1 DEF FC!Abort, FC!Next
    <3>5. QED
      BY <3>1, <3>3, <3>4
  <2>5. CASE Suspend \/ ParentError \/ KillParent
    <3>1. UNCHANGED written /\ parent # "done"
      BY <2>5 DEF Suspend, ParentError, KillParent
    <3>2. outcome = "running"
      BY <1>2, <3>1 DEF ExitInv
    <3>3. outcome' = "running" => Outcome' = Outcome
      BY <3>2 DEF Outcome
    <3>4. QED
      BY <2>2, <2>4, <3>1, <3>2, <3>3
  <2>6. CASE Fork \/ Kill \/ ChildStep \/ KillChild \/ Stop \/ Continue \/ UNCHANGED vars
    <3>1. UNCHANGED <<written, outcome>>
      BY <2>6 DEF Fork, Kill, ChildStep, Prctl, Getppid, Open, Read, SendBit,
         SendBitFails, ChildSuspend, Close, ChildError, KillChild, Stop, Continue, vars,
         prntvars
    <3>2. outcome = "success" => (Backed' <=> Backed)
      <4>1. stops = 0 /\ outcome = "success" => child = "done"
        BY <1>2 DEF ExitInv
      <4>2. child = "done" => UNCHANGED <<stops, chld_end>>
        BY <2>6 DEF Fork, Kill, ChildStep, Prctl, Getppid, Open, Read, SendBit,
           SendBitFails, ChildSuspend, Close, ChildError, KillChild, Stop, Continue,
           vars, chldvars
      <4>3. stops # 0 => stops' # 0
        BY <2>1, <2>6 DEF Fork, Kill, ChildStep, Prctl, Getppid, Open, Read, SendBit,
           SendBitFails, ChildSuspend, Close, ChildError, KillChild, Stop, Continue,
           vars, TypeOK
      <4>4. QED
        BY <4>1, <4>2, <4>3 DEF Backed
    <3>3. Outcome' = Outcome
      BY <3>1, <3>2 DEF Outcome
    <3>4. QED
      BY <2>2, <3>1, <3>3
  <2>7. QED
    BY <1>2, <2>3, <2>5, <2>6 DEF Next, ParentStep, Disturbance
<1>3. QED
  BY <1>1, <1>2, ExitInvariant, LinkInvariant, PTL DEF Spec, ImplementsFileCopy, FC!Spec
=============================================================================
