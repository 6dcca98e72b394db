--------------------------- MODULE MCComputations ---------------------------
(***************************************************************************)
(* Small inputs for Computations.                                          *)
(***************************************************************************)
EXTENDS Computations

Step(tool, values, error, found, short) ==
    [tool |-> tool, values |-> values, error |-> error, found |-> found, short |-> short]

Steps ==
    {Step("implicit_think", {}, FALSE, {}, FALSE),
     Step("think", {}, TRUE, {}, FALSE),
     Step("get_user_details", {"u"}, TRUE, {}, FALSE),
     Step("get_user_details", {"u"}, FALSE, {"r"}, FALSE),
     Step("get_reservation_details", {"unknown"}, TRUE, {}, TRUE),
     Step("calculate", {}, FALSE, {}, FALSE),
     Step("cancel_reservation", {"r"}, TRUE, {}, FALSE),
     Step("transfer_to_human_agents", {"s"}, FALSE, {}, FALSE)}

Messages ==
    [role : {"system", "user", "tool"}, size : {1}, newline : {FALSE}]
    \union [role : {"assistant"}, size : {0, 3}, newline : BOOLEAN]

Samples == [uid : {1, 2}, reward : {0, 2}, mask : {<<>>, <<0>>, <<1, 0, 1>>, <<1, 1, 0, 1>>}]

Lengths == {1, 2, 4, 7}

MCInputs == [f \in {"pass_at_k", "prm_lite", "sft_labels", "advantage", "balance"} |->
                CASE f = "pass_at_k" -> BOOLEAN
                  [] f = "prm_lite" -> Steps
                  [] f = "sft_labels" -> Messages
                  [] f = "advantage" -> Samples
                  [] f = "balance" -> Lengths]
MCLongest == [pass_at_k |-> 8, prm_lite |-> 6, sft_labels |-> 6, advantage |-> 3, balance |-> 6]
MCKs == {1, 2, 3, 4, 8}
MCWorlds == {1, 2, 3}
=============================================================================
