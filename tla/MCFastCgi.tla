------------------------------ MODULE MCFastCgi ------------------------------
(* FastCgi for model checking: one id, which two requests use in turn.      *)
EXTENDS FastCgi
CONSTANTS i1, r1, r2
=============================================================================
