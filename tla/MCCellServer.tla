----------------------------- MODULE MCCellServer -----------------------------
(***************************************************************************)
(* CellServer for TLC: clients and descriptors are interchangeable.        *)
(***************************************************************************)
EXTENDS CellServer, TLC

Symmetry == Permutations(Clients) \cup Permutations(Fds)
=============================================================================
