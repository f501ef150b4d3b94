--------------------------- MODULE MCRowSelection ---------------------------
(* Instances of RowSelection for TLC.                                      *)
EXTENDS RowSelection
=============================================================================
