---------------------------- MODULE MCFullyAsync ----------------------------
(* Instances of FullyAsyncProps; all constants are numbers given by the cfg. *)
EXTENDS FullyAsyncProps
=============================================================================
