----------------------------- MODULE MCNetwork -------------------------------
(* Model-checking instances of Network: the constants are in the .cfg.     *)
(* No symmetry: the run checks liveness, which symmetry can hide.          *)
EXTENDS Network
=============================================================================
