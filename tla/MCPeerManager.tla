--------------------------- MODULE MCPeerManager ---------------------------
(* PeerManager with addresses that meet in a New bucket, one that does not, *)
(* and one Tried bucket.                                                   *)
EXTENDS PeerManager, TLC

CONSTANTS a1, a2, a3

MCHash(a) == IF a = a1 THEN 1 ELSE 2

\* Objects are interchangeable, and so are addresses with the same hash.
Symmetry == Permutations(Peers) \cup Permutations({a2, a3})
=============================================================================
