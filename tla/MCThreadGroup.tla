--------------------------- MODULE MCThreadGroup ---------------------------
(* ThreadGroup with a few threads, given by the configuration.          *)
EXTENDS ThreadGroup
=============================================================================
