--------------------------- MODULE MCRotateWriter ---------------------------
(* RotateWriter for TLC: everything it needs is a number. *)
EXTENDS RotateWriter
=============================================================================
