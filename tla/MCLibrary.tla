------------------------------ MODULE MCLibrary ------------------------------
(* Model-checking instance of Library: see MCLibrary.cfg for its constants. *)
EXTENDS Library
=============================================================================
