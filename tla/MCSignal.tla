----------------------------- MODULE MCSignal -------------------------------
(* Model-checking instances of Signal: a file of three letters of NBits    *)
(* bits: every second bit set, then the last one only, then all of them.   *)
EXTENDS Signal

MCFile == << [b \in Bits |-> b % 2],
             [b \in Bits |-> IF b = NBits - 1 THEN 1 ELSE 0],
             [b \in Bits |-> 1] >>
=============================================================================
