----------------------------- MODULE MCSharmem ------------------------------
(* Model-checking instances of Sharmem.                                    *)
EXTENDS Sharmem, TLC

(* Processes of one program are interchangeable: no property names one.    *)
Symmetry == Permutations(Writers) \cup Permutations(Readers)
=============================================================================
