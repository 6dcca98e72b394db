-------------------------- MODULE MCToolAgentLoop --------------------------
(***************************************************************************)
(* Small instances of ToolAgentLoop for TLC.                               *)
(***************************************************************************)
EXTENDS ToolAgentLoopProps

MCLens1 == {1}
MCLens12 == {1, 2}
=============================================================================
