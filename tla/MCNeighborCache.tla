-------------------------- MODULE MCNeighborCache --------------------------
(* Small instances of NeighborCache for TLC. *)
EXTENDS NeighborCache, TLC

\* Addresses, MAC addresses and ports are only compared for equality.
Symmetry == Permutations(Ports) \cup Permutations(Addrs) \cup Permutations(Macs)
=============================================================================
