------------------------------ MODULE MCFifo --------------------------------
(* Model-checking instances of Fifo: the constants are in the .cfg files.  *)
(* No symmetry: the runs check liveness, which symmetry can hide.          *)
EXTENDS Fifo
=============================================================================
