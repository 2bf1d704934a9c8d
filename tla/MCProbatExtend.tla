--------------------------- MODULE MCProbatExtend ---------------------------
(***************************************************************************)
(* ProbatExtend for TLC.                                                   *)
(***************************************************************************)
EXTENDS ProbatExtend

MCWork == 1 .. 3

=============================================================================
