--------------------------- MODULE MCSharedMutex ---------------------------
(* SharedMutex with a few threads, given by the configuration.          *)
EXTENDS SharedMutex
=============================================================================
