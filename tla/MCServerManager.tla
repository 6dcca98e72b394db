-------------------------- MODULE MCServerManager --------------------------
(***************************************************************************)
(* A small instance of ServerManager: more sessions than cache entries.    *)
(***************************************************************************)
EXTENDS ServerManager, TLC

Symmetry == Permutations(Requests)
=============================================================================
