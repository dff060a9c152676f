---------------------------- MODULE MCConnections ----------------------------
(* Instances of Connections for TLC. *)
EXTENDS Connections, TLC

Symmetry == Permutations(Descs) \cup Permutations(Programs)
=============================================================================
