---------------------------- MODULE MCProbeBatch ----------------------------
(* Instances of ProbeBatch for TLC.                                        *)
EXTENDS ProbeBatch
=============================================================================
