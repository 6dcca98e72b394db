------------------------------ MODULE PrmLite ------------------------------
(***************************************************************************)
(* The process reward of src/envs/tau_bench_interaction.py: a score per    *)
(* step of the action history, averaged, with corrections for the whole    *)
(* trajectory, in hundredths.  A step is a record                          *)
(*   [tool, values, error, found, short]                                   *)
(* of the tool, the set of its parameter values, whether the observation   *)
(* was an error, the entities extracted from it and whether the message    *)
(* held fewer than 30 characters of reasoning.                             *)
(***************************************************************************)
EXTENDS Integers, Sequences, FiniteSets

ReadTools == {"list_all_airports", "search_direct_flight", "search_onestop_flight",
              "get_user_details", "get_reservation_details", "calculate"}
WriteTools == {"book_reservation", "cancel_reservation", "update_reservation_baggages",
               "update_reservation_passengers", "update_reservation_flights", "send_certificate"}
EscalationTools == {"transfer_to_human_agents"}
ThinkTools == {"think", "implicit_think"}

\* A parameter value that is a filler word or breaks the pattern of its field.
Placeholder == "unknown"

Pay(condition, amount) == IF condition THEN amount ELSE 0
Signature(step) == <<step.tool, step.values>>
Thinks(step) == step.tool \in ThinkTools
HasPlaceholder(step) == Placeholder \in step.values

\* Defect: the window is cut at one step, so a thought hides what is before it.
LastStepOnly(before, step) ==
    \E j \in DOMAIN before :
        j = Len(before) /\ ~Thinks(before[j]) /\ Signature(before[j]) = Signature(step)

\* _is_redundant: the same call among the last three steps, thoughts not counting as calls.
IsRedundant(before, step) ==
    \E j \in DOMAIN before :
        j > Len(before) - 3 /\ ~Thinks(before[j]) /\ Signature(before[j]) = Signature(step)

Before(h, i) == SubSeq(h, 1, i - 1)

\* P3: after an error the same call again, or anything else.
AfterError(h, i) ==
    IF i = 1 \/ ~h[i - 1].error THEN 0
    ELSE IF Signature(h[i - 1]) = Signature(h[i]) THEN -4 ELSE 5

\* P4: handing over to a human, twice as bad without having read anything.
Escalation(h, i) ==
    Pay(h[i].tool \in EscalationTools,
        IF \E j \in 1..(i - 1) : h[j].tool \in ReadTools THEN -5 ELSE -10)

\* B1: a parameter value that an earlier observation held.
Chained(h, i) == h[i].values \cap UNION {h[j].found : j \in 1..(i - 1)} # {}

\* B2: the first use of a read tool.
FirstRead(h, i) ==
    h[i].tool \in ReadTools /\ \A j \in 1..(i - 1) : h[j].tool # h[i].tool

\* B4/B5: a thought pays if it does not follow another, is not the last step and is
\* not followed by a filler or redundant call.
GuidesAction(h, i) ==
    /\ i > 1 => ~Thinks(h[i - 1])
    /\ i < Len(h)
    /\ ~HasPlaceholder(h[i + 1])
    /\ ~IsRedundant(Before(h, i + 1), h[i + 1])

StepScore(h, i) ==
    IF Thinks(h[i]) THEN Pay(GuidesAction(h, i), 1)
    ELSE LET writes == h[i].tool \in WriteTools
         IN  Pay(HasPlaceholder(h[i]), IF writes THEN -5 ELSE -3)
             + Pay(IsRedundant(Before(h, i), h[i]), -3)
             + AfterError(h, i)
             + Escalation(h, i)
             + Pay(Chained(h, i), IF writes THEN 8 ELSE 4)
             + Pay(FirstRead(h, i), 1)
             + Pay(h[i].short, -2)

\* P5, B7 and P8: no reasoning at all, three kinds of reading, more than eight steps.
TrajectoryScore(h) ==
    Pay(Len(h) >= 3 /\ \A i \in DOMAIN h : ~Thinks(h[i]), -5)
    + Pay(Cardinality({h[i].tool : i \in DOMAIN h} \cap ReadTools) >= 3, 1)
    - (IF Len(h) > 8 THEN Len(h) - 8 ELSE 0)

\* sum(per_step_scores)
StepScores(h) ==
    LET sum[i \in 0..Len(h)] == IF i = 0 THEN 0 ELSE sum[i - 1] + StepScore(h, i)
    IN  sum[Len(h)]

\* _compute_reasoning_quality_score as a fraction: the mean of the steps plus the
\* corrections, in [-50, 50].
ReasoningQuality(h) ==
    IF h = <<>> THEN [num |-> 0, den |-> 1]
    ELSE LET sum == TrajectoryScore(h) * Len(h) + StepScores(h)
             top == 50 * Len(h)
         IN  [num |-> IF sum > top THEN top ELSE IF sum < -top THEN -top ELSE sum, den |-> Len(h)]

-----------------------------------------------------------------------------
\* Step i repeats a call that failed with nothing but thoughts, at most two, in between.
RepeatsError(h, i) ==
    /\ ~Thinks(h[i])
    /\ \E j \in 1..(i - 1) : /\ j >= i - 3 /\ h[j].error /\ Signature(h[j]) = Signature(h[i])
                             /\ \A k \in (j + 1)..(i - 1) : Thinks(h[k]) /\ ~h[k].error

Worse(p, q) == p.num * q.den < q.num * p.den

\* A step that repeats an error costs, and one that hands the customer over is never
\* paid, not even as the recovery from an error, unless its parameters were taken from
\* an earlier observation; and ending on a repeated error lowers the score of any
\* history whose score is not negative (a negative mean is diluted by one more step).
\* A thought that fails itself, a think call with wrong arguments, is no such thought:
\* whatever follows it is paid as the recovery from an error, line 190.
GivingUpNeverPays(h) ==
    /\ \A i \in DOMAIN h : ~Chained(h, i) =>
           /\ RepeatsError(h, i) => StepScore(h, i) < 0
           /\ h[i].tool \in EscalationTools => StepScore(h, i) <= 0
    /\ LET last == Len(h)
           before == ReasoningQuality(Before(h, last))
       IN  last > 1 /\ RepeatsError(h, last) /\ ~Chained(h, last) /\ before.num >= 0 =>
               Worse(ReasoningQuality(h), before)
=============================================================================
