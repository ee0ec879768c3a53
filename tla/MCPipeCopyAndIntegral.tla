----------------------- MODULE MCPipeCopyAndIntegral ------------------------
(* PipeCopy and Integral for TLC.  The two programs share nothing: they run *)
(* side by side, each in its own processes.                                 *)
EXTENDS PipeCopy, Integral

SideBySideInit == Init /\ IntegralInit

SideBySideNext ==
  \/ Next /\ UNCHANGED integral_vars
  \/ IntegralNext /\ UNCHANGED vars

SideBySide ==
  /\ SideBySideInit
  /\ [][SideBySideNext]_<<vars, integral_vars>>
  /\ WF_vars(Parent) /\ WF_vars(Child)
=============================================================================
