------------------------------ MODULE Planning ------------------------------
(***************************************************************************)
(* How plan_job comes by a plan: get_planner (worker/planner/factory.py),  *)
(* MockPlanner.plan and OpenAIPlanner.plan, and the validation of          *)
(* PlannedStep and ExecutionPlan (shared/models.py).                       *)
(*                                                                         *)
(* A plan is the set of rows that _persist_plan makes of its steps.  What  *)
(* a language model answers is any reply of the set Replies.               *)
(***************************************************************************)
EXTENDS TaskGraph, FiniteSets

CONSTANTS
    ApiKey,      \* OPENAI_API_KEY is set
    AboutFiles,  \* the prompt asks about uploaded documents
    Replies,     \* what the model may answer: [kind, rows]
    MaxSteps     \* _MAX_STEPS

\* No answer, text that is no JSON, JSON without a list of steps, a step that
\* does not validate.
Unreadable == {"apierror", "nonjson", "nosteps", "badstep"}

ASSUME PlanningAssumption ==
    /\ ApiKey \in BOOLEAN /\ AboutFiles \in BOOLEAN
    /\ MaxSteps \in Nat
    /\ \A r \in Replies :
          /\ r.kind \in Unreadable \cup {"steps", "odd"}
          /\ r.rows \subseteq Task

\* The two plans of MockPlanner.
Steps(rows) == { <<StepOf[t], Deps[t]>> : t \in rows }

RetrievalPlan == { <<"retrieve_docs", {}>>, <<"synthesise", {"retrieve_docs"}>> }

WebSearchPlan ==
    { <<"web_search", {}>>, <<"analyse_results", {"web_search"}>>,
      <<"synthesise", {"web_search", "analyse_results"}>> }

MockPlan == IF AboutFiles THEN RetrievalPlan ELSE WebSearchPlan

\* What ExecutionPlan and _MAX_STEPS accept.  First, without the check of the
\* dependencies.
AcceptsUnchecked(rows) == rows # {} /\ Cardinality(rows) <= MaxSteps

Accepts(rows) ==
    /\ rows # {}
    /\ Cardinality(rows) <= MaxSteps
    /\ \A t \in rows : Deps[t] \subseteq StepsOf(rows)

\* The plans that planner.plan may return.
Plans ==
    IF ApiKey
    THEN { r.rows : r \in { x \in Replies : x.kind = "steps" /\ Accepts(x.rows) } }
    ELSE { rows \in SUBSET Task : Steps(rows) = MockPlan
                                  /\ Cardinality(rows) = Cardinality(MockPlan) }

\* It raises PlannerError: the model cannot be reached, or its answer is no plan.
MayReject ==
    ApiKey /\ \E r \in Replies :
        r.kind \in Unreadable \/ (r.kind = "steps" /\ ~Accepts(r.rows))

\* It raises anything else: JSON that is no object, an answer without choices.
MayBreak == ApiKey /\ \E r \in Replies : r.kind = "odd"

\* What validation does not look at: the step_ids are unique, and no step
\* depends on itself through others.
Schedulable(rows) ==
    /\ \A t, u \in rows : StepOf[t] = StepOf[u] => t = u
    /\ \A some \in SUBSET rows \ {{}} :
          \E t \in some : Deps[t] \cap StepsOf(some) = {}
=============================================================================
