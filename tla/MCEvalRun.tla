----------------------------- MODULE MCEvalRun -----------------------------
(***************************************************************************)
(* Small instances of EvalRun: every job its own policy object, as in      *)
(* collect_sft_data.py, or one object for all, as in run_baseline_eval.py  *)
(* and eval_sft.py.                                                        *)
(***************************************************************************)
EXTENDS EvalRunProps, TLC

CONSTANTS j1, j2, a, b, c, x, bad

\* The answers of the model server to j1: no call, one, two that do not end the episode, two
\* with the terminate tool first, a malformed one.  j2 only keeps the pool busy.
MCMessages == (j1 :> {<<>>, <<a>>, <<c>>, <<a, b>>, <<x, a>>, <<bad>>}) @@ (j2 :> {<<a>>})

MCOneCall == [j \in Jobs |-> {<<>>, <<a>>}]

MCOwnPolicy == [j \in Jobs |-> j]
MCSharedPolicy == [j \in Jobs |-> CHOOSE p \in Policies : TRUE]
=============================================================================
