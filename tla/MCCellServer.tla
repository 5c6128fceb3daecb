---------------------------- MODULE MCCellServer ----------------------------
(* Small instances of CellServer for TLC. *)
EXTENDS CellServer, TLC

ClientSymmetry == Permutations(Clients)
=============================================================================
