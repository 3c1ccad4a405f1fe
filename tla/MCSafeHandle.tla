---------------------------- MODULE MCSafeHandle ----------------------------
(* SafeHandle on small instances; the cfg files choose the threads.        *)
EXTENDS SafeHandle, TLC

\* Using threads and handles are interchangeable (safety runs only).
Symmetry == Permutations(Users) \cup Permutations(Handles)
=============================================================================
