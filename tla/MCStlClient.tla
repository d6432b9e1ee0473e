---------------------------- MODULE MCStlClient ----------------------------
(* Two clients compete for one port; nothing tells them apart. *)
EXTENDS StlClient, TLC

CONSTANTS c1, c2

Symmetry == Permutations({c1, c2})
=============================================================================
