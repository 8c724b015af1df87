----------------------------- MODULE MCGRPCWire -----------------------------
(* Instances of GRPCWire for TLC. *)
EXTENDS GRPCWire, TLC

\* Every link ends at the same pod here.
OnePod == [l \in Links |-> CHOOSE p \in Pods : TRUE]

\* The goroutines that serve RPCs are interchangeable, and so are the interface
\* ids on the peers' nodes.
Symmetry == Permutations(Calls) \cup Permutations(PeerIfs)
=============================================================================
