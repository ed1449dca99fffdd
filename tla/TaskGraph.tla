----------------------------- MODULE TaskGraph -----------------------------
(***************************************************************************)
(* The rows of table tasks that belong to one job, seen as a dependency    *)
(* graph, and the pure functions of worker/tasks/executor.py over it.      *)
(*                                                                         *)
(* A row t carries a step_id, StepOf[t], and the step_ids it depends on,   *)
(* Deps[t].  Dependencies name steps, not rows: two rows may carry the     *)
(* same step_id (nothing in ExecutionPlan rejects it, and a second         *)
(* delivery of plan_job inserts every step again).                         *)
(***************************************************************************)
EXTENDS Naturals

CONSTANTS
    Step,        \* step_ids
    Task,        \* rows of table tasks of the job
    StepOf,      \* TaskModel.step_id
    Deps,        \* TaskModel.dependencies
    Synthesis    \* the rows with task_type = "synthesis"; the others are "tool_call"

ASSUME GraphAssumption ==
    /\ StepOf \in [Task -> Step]
    /\ Deps \in [Task -> SUBSET Step]
    /\ Synthesis \subseteq Task

\* Rows with the same step_id have the same dependencies.  True of a plan
\* without repeated step_ids, and of one plan persisted several times.
ConsistentIds == \A t, u \in Task : StepOf[t] = StepOf[u] => Deps[t] = Deps[u]

StepsOf(rows) == { StepOf[t] : t \in rows }

\* Every dependency of t is the step of some row of done.
Released(t, done) == Deps[t] \subseteq StepsOf(done)

----------------------------------------------------------------------------

\* _newly_ready_step_ids: the step_ids of the pending rows of view whose
\* dependencies are all among succeeded.  view maps each row that was read to
\* the status that was read.  First, two ways to get it wrong.
NewlyReadyIgnoringDeps(view, succeeded) ==
    StepsOf({ t \in DOMAIN view : view[t] = "pending" })

NewlyReadyAnyDep(view, succeeded) ==
    StepsOf({ t \in DOMAIN view : /\ view[t] = "pending"
                                  /\ Deps[t] = {} \/ Deps[t] \cap succeeded # {} })

NewlyReady(view, succeeded) ==
    StepsOf({ t \in DOMAIN view : /\ view[t] = "pending"
                                  /\ Deps[t] \subseteq succeeded })

\* reached is closed when a row that depends on a seed or on a reached step,
\* and is no seed itself, is reached.
ClosedUnderDependents(rows, seeds, reached) ==
    \A t \in rows :
        Deps[t] \cap (reached \cup (seeds \cap StepsOf(rows))) # {}
            => StepOf[t] \in reached \cup seeds

\* _transitive_dependents: the step_ids that depend, directly or through other
\* steps, on a seed.  The breadth-first search over the reversed edges visits
\* the least closed set.  First, a search that stops at depth one.
DirectDependents(rows, seeds) ==
    { StepOf[t] : t \in { u \in rows : Deps[u] \cap seeds # {} } } \ seeds

TransitiveDependents(rows, seeds) ==
    { s \in StepsOf(rows) \ seeds :
        \A reached \in SUBSET (StepsOf(rows) \ seeds) :
            ClosedUnderDependents(rows, seeds, reached) => s \in reached }

\* dict {t.step_id: t for t in rows} restricted to steps: one row for each
\* step.  Which one, when a step_id is repeated, depends on the order in which
\* the database returns the rows.
RowChoices(rows, steps) ==
    { chosen \in SUBSET rows :
        /\ StepsOf(chosen) = steps
        /\ \A t, u \in chosen : StepOf[t] = StepOf[u] => t = u }

\* ExecutionPlan.ready_steps({}): the steps with no dependency.
ReadySteps == StepsOf({ t \in Task : Deps[t] = {} })
=============================================================================
