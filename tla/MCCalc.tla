------------------------------- MODULE MCCalc -------------------------------
(* The instance of Calc that TLC checks: machines with one to four          *)
(* processors, with and without two processors a core, in either order,     *)
(* with gaps in the ids, out of order, and without ids.                     *)
EXTENDS Calc

MCCPUInfos == {<<>>, <<0>>, <<0, 1>>, <<3, 3>>, <<0, 1, 2>>, <<1, 1, 0>>,
               <<0, 1, 0, 1>>, <<0, 0, 1, 1>>, <<0, 2, 0, 2>>}

=============================================================================
