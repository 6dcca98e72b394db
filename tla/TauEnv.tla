------------------------------- MODULE TauEnv -------------------------------
(***************************************************************************)
(* The tau-bench environment one trajectory talks to: Env in               *)
(* tau-bench/tau_bench/envs/base.py with the airline terminate tool.       *)
(*                                                                         *)
(* An environment is a value [data, said].  `data' is the domain database, *)
(* `said' tells whether every string of task.outputs occurs in some        *)
(* RESPOND action of env.actions (TRUE from the start for a task without   *)
(* outputs).  env.step is a set of possible results: the observation of a  *)
(* tool and the reply of the user simulator are chosen by the environment. *)
(***************************************************************************)
EXTENDS Naturals

CONSTANTS
    Data,      \* the states of the domain database
    InitData,  \* what data_load_func returns
    GoalData   \* InitData after replaying the task's ground-truth actions

ASSUME DataAssumption == InitData \in Data /\ GoalData \in Data

Envs == [data : Data, said : BOOLEAN]

\* What env.step hands back: the environment after the step, the reward, the
\* done flag and whether the observation starts with "Error:".
StepResults == [env : Envs, reward : {0, 1}, done : BOOLEAN, error : BOOLEAN]

\* Env.reset; `trivial' is TRUE for a task whose list of outputs is empty.
Reset(trivial) == [data |-> InitData, said |-> trivial]

-----------------------------------------------------------------------------
\* Env.calculate_reward, the number: the database hash equals the hash of the
\* ground truth and every expected output was told to the user.
CalculateReward(e) == IF e.data = GoalData /\ e.said THEN 1 ELSE 0

\* Env.calculate_reward, the side effect: self.data is loaded again and the
\* ground-truth actions are replayed on it, so the environment is left holding
\* the goal database.
AfterReplay(e) == [e EXCEPT !.data = GoalData]

-----------------------------------------------------------------------------
\* Env.step on a tool that does not terminate: it may write the database (or,
\* like a read-only or unknown tool, leave it) and it may answer "Error: ...".
ToolStep(e) ==
    {[env |-> [e EXCEPT !.data = d], reward |-> 0, done |-> FALSE, error |-> x] :
        d \in Data, x \in BOOLEAN}

\* Env.step on the terminate tool transfer_to_human_agents: done, and the reward
\* is computed whatever its observation, however often the environment was done
\* before.
TransferStep(e) ==
    {[env |-> AfterReplay(e), reward |-> CalculateReward(e), done |-> TRUE, error |-> x] :
        x \in BOOLEAN}

\* The environment after the RESPOND action was appended to env.actions; the
\* message may mention the outputs.  This much happens even when the user
\* simulator then raises.
Heard(e) == {[e EXCEPT !.said = e.said \/ told] : told \in BOOLEAN}

\* Env.step on RESPOND when the user simulator answers: done iff the answer
\* holds ###STOP###.
RespondStep(e) ==
    UNION {{[env |-> h, reward |-> 0, done |-> FALSE, error |-> FALSE],
            [env |-> AfterReplay(h), reward |-> CalculateReward(h),
             done |-> TRUE, error |-> FALSE]} : h \in Heard(e)}
=============================================================================
