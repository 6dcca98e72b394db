---------------------------- MODULE MCSftCollect ----------------------------
(***************************************************************************)
(* A small instance of SftCollect: two runs whose task ranges overlap.     *)
(***************************************************************************)
EXTENDS SftCollectProps

MCRanges == {<<0, 1>>, <<1>>}
=============================================================================
