------------------------------ MODULE Platform ------------------------------
(***************************************************************************)
(* A job from POST /jobs to its outcome: the API process that creates it,  *)
(* the Celery task plan_job (worker/tasks/planner.py) that plans it, and   *)
(* the handler execute_step of module Executor, all in one pool: the       *)
(* worker consumes queues "planner" and "executor", and each of its        *)
(* processes handles one message at a time.  With one process              *)
(* (docker-compose.yml) plan_job always ends before a step begins; with    *)
(* two (docker-compose.prod.yml) the steps it has just sent run beside it. *)
(***************************************************************************)
EXTENDS Executor, Planning

VARIABLES
    api,         \* create_job: "committed" until the message is sent
    pq,          \* messages in queue "planner": how many for each retries
    ppc,         \* what a pool process does next in plan_job
    ptries,      \* self.request.retries
    inserted,    \* rows inserted so far
    roots,       \* rows it has inserted, then those it still has to queue
    root         \* the row it has queued and not sent

planning == <<api, pq, ppc, ptries, inserted, roots, root>>
allVars  == <<vars, planning>>

PlanLocation == {"idle", "planning", "retrying", "persisted", "queueing",
                 "sending", "starting"}

PlatformTypeOK ==
    /\ TypeOK
    /\ api \in {"committed", "sent", "died"}
    /\ pq \in [0..MaxRetries -> Nat]
    /\ ppc \in [Worker -> PlanLocation]
    /\ ptries \in [Worker -> 0..MaxRetries]
    /\ inserted \subseteq Task
    /\ roots \in [Worker -> SUBSET Task]
    /\ root \in [Worker -> Task \cup {NoTask}]

\* create_job has committed the row and has not sent the message.
PlatformInit ==
    /\ job = "pending"
    /\ status = [t \in Task |-> "absent"]
    /\ mq = [m \in Message |-> 0]
    /\ attempts = [t \in Task |-> 0]
    /\ output = {}
    /\ collected = [t \in Task |-> {}]
    /\ pc = [w \in Worker |-> "idle"]
    /\ cur = [w \in Worker |-> NoTask]
    /\ tries = [w \in Worker |-> 0]
    /\ seen = [w \in Worker |-> 0]
    /\ own = [w \in Worker |-> "expired"]
    /\ batch = [w \in Worker |-> {}]
    /\ dirty = [w \in Worker |-> NoTask]
    /\ cancel = "none"
    /\ memories = 0
    /\ faults = 0
    /\ api = "committed"
    /\ pq = [n \in 0..MaxRetries |-> 0]
    /\ ppc = [w \in Worker |-> "idle"]
    /\ ptries = [w \in Worker |-> 0]
    /\ inserted = {}
    /\ roots = [w \in Worker |-> {}]
    /\ root = [w \in Worker |-> NoTask]

----------------------------------------------------------------------------
(* create_job, after its commit *)

SendPlan ==
    /\ api = "committed"
    /\ api' = "sent"
    /\ pq' = [pq EXCEPT ![0] = @ + 1]
    /\ UNCHANGED <<vars, ppc, ptries, inserted, roots, root>>

\* Before it sends, create_job reads its row again, which raises if the job is
\* gone.
AbandonCreate ==
    /\ api = "committed"
    /\ job = "absent"
    /\ api' = "died"
    /\ UNCHANGED <<vars, pq, ppc, ptries, inserted, roots, root>>

\* The API process dies, or the broker refuses the message.
LosePlan ==
    /\ api = "committed" /\ "unsent" \in FaultKinds /\ faults < MaxFaults
    /\ api' = "died"
    /\ faults' = faults + 1
    /\ UNCHANGED <<database, mq, session, cancel, memories,
                   pq, ppc, ptries, inserted, roots, root>>

----------------------------------------------------------------------------
(* plan_job *)

GoOn(w, l) == ppc' = [ppc EXCEPT ![w] = l]

FinishPlan(w) ==
    /\ GoOn(w, "idle")
    /\ ptries' = [ptries EXCEPT ![w] = 0]
    /\ roots'  = [roots EXCEPT ![w] = {}]
    /\ root'   = [root EXCEPT ![w] = NoTask]

\* What the handler writes to the job, which must still be there: all it knows
\* of the job is that it exists.
WriteJob(value) ==
    /\ job # "absent"
    /\ job' = value
    /\ UNCHANGED <<status, attempts, output, collected>>

\* First, with the tries counted in place of the retries.
StartPlanningCountingTries(w, n) ==
    /\ pc[w] = "idle" /\ ppc[w] = "idle" /\ pq[n] > 0
    /\ pq' = [pq EXCEPT ![n] = @ - 1]
    /\ IF job = "absent"
       THEN UNCHANGED <<database, ppc, ptries>>
       ELSE /\ WriteJob("planning")
            /\ GoOn(w, "planning")
            /\ ptries' = [ptries EXCEPT ![w] = n + 1]
    /\ UNCHANGED <<mq, session, cancel, memories, faults, api, inserted, roots, root>>

StartPlanning(w, n) ==
    /\ pc[w] = "idle" /\ ppc[w] = "idle" /\ pq[n] > 0
    /\ pq' = [pq EXCEPT ![n] = @ - 1]
    /\ IF job = "absent"
       THEN UNCHANGED <<database, ppc, ptries>>
       ELSE /\ WriteJob("planning")
            /\ GoOn(w, "planning")
            /\ ptries' = [ptries EXCEPT ![w] = n]
    /\ UNCHANGED <<mq, session, cancel, memories, faults, api, inserted, roots, root>>

\* planner.plan raises PlannerError: the job fails for good.
RejectPlan(w) ==
    /\ ppc[w] = "planning" /\ MayReject
    /\ IF job = "absent" THEN UNCHANGED database ELSE WriteJob("failed")
    /\ FinishPlan(w)
    /\ UNCHANGED <<mq, session, cancel, memories, faults, api, pq, inserted>>

\* planner.plan raises anything else: the job fails and is tried again.
BreakPlan(w) ==
    /\ ppc[w] = "planning" /\ MayBreak
    /\ IF job = "absent" THEN UNCHANGED database ELSE WriteJob("failed")
    /\ GoOn(w, "retrying")
    /\ UNCHANGED <<mq, session, cancel, memories, faults, api, pq, ptries, inserted, roots, root>>

RetryPlan(w) ==
    /\ ppc[w] = "retrying"
    /\ pq' = IF ptries[w] < MaxRetries
             THEN [pq EXCEPT ![ptries[w] + 1] = @ + 1] ELSE pq
    /\ FinishPlan(w)
    /\ UNCHANGED <<vars, api, inserted>>

\* _persist_plan: every row of the plan in one commit, each with an id of its
\* own.
PersistPlan(w) ==
    /\ ppc[w] = "planning"
    /\ job # "absent"
    /\ \E rows \in Plans :
          /\ rows \cap inserted = {}
          /\ inserted' = inserted \cup rows
          /\ status' = [t \in Task |-> IF t \in rows THEN "pending" ELSE status[t]]
          /\ roots' = [roots EXCEPT ![w] = rows]
    /\ GoOn(w, "persisted")
    /\ UNCHANGED <<job, attempts, output, collected, mq, session, cancel, memories,
                   faults, api, pq, ptries, root>>

\* The steps of a plan with no dependencies, taken to be all and as they are.
PlanReadyAll(rows) == StepsOf(rows)
PlanReady(rows) == StepsOf({ t \in rows : Deps[t] = {} })

\* The job becomes planned; of the rows inserted, those of the steps that are
\* ready are to be queued.
MarkPlanned(w) ==
    /\ ppc[w] = "persisted"
    /\ WriteJob("planned")
    /\ \E ready \in RowChoices(roots[w], PlanReady(roots[w])) :
          roots' = [roots EXCEPT ![w] = ready]
    /\ GoOn(w, "queueing")
    /\ UNCHANGED <<mq, session, cancel, memories, faults, api, pq, ptries, inserted, root>>

\* A row of the plan becomes queued: an UPDATE of whatever it is now.
QueueRoot(w, t) ==
    /\ ppc[w] = "queueing" /\ t \in roots[w]
    /\ status[t] # "absent"
    /\ status' = [status EXCEPT ![t] = "queued"]
    /\ roots' = [roots EXCEPT ![w] = @ \ {t}]
    /\ root'  = [root EXCEPT ![w] = t]
    /\ GoOn(w, "sending")
    /\ UNCHANGED <<job, attempts, output, collected, mq, session, cancel, memories,
                   faults, api, pq, ptries, inserted>>

SendRoot(w) ==
    /\ ppc[w] = "sending"
    /\ status[root[w]] # "absent"
    /\ Put(root[w], 0)
    /\ root' = [root EXCEPT ![w] = NoTask]
    /\ GoOn(w, "queueing")
    /\ UNCHANGED <<database, session, cancel, memories, faults, api, pq, ptries,
                   inserted, roots>>

\* Last, the job becomes running, whatever it is now.
StartJob(w) ==
    /\ ppc[w] = "queueing" /\ roots[w] = {}
    /\ WriteJob("running")
    /\ FinishPlan(w)
    /\ UNCHANGED <<mq, session, cancel, memories, faults, api, pq, inserted>>

\* The job was deleted in the meantime: plan_job returns or raises.
AbandonPlan(w) ==
    /\ ppc[w] \in {"planning", "persisted", "queueing", "sending"}
    /\ job = "absent"
    /\ FinishPlan(w)
    /\ UNCHANGED <<vars, api, pq, inserted>>

CrashPlanner(w) ==
    /\ ppc[w] # "idle" /\ faults < MaxFaults
    /\ faults' = faults + 1
    /\ \/ "lost" \in FaultKinds /\ UNCHANGED pq
       \/ "redelivered" \in FaultKinds /\ pq' = [pq EXCEPT ![ptries[w]] = @ + 1]
    /\ FinishPlan(w)
    /\ UNCHANGED <<database, mq, session, cancel, memories, api, inserted>>

RedeliverPlan(w) ==
    /\ "duplicate" \in FaultKinds
    /\ ppc[w] # "idle" /\ faults < MaxFaults
    /\ faults' = faults + 1
    /\ pq' = [pq EXCEPT ![ptries[w]] = @ + 1]
    /\ UNCHANGED <<database, mq, session, cancel, memories,
                   api, ppc, ptries, inserted, roots, root>>

----------------------------------------------------------------------------

PlannerStep(w) ==
    \/ \E n \in 0..MaxRetries : StartPlanning(w, n)
    \/ RejectPlan(w) \/ BreakPlan(w) \/ RetryPlan(w)
    \/ PersistPlan(w) \/ MarkPlanned(w)
    \/ \E t \in Task : QueueRoot(w, t)
    \/ SendRoot(w) \/ StartJob(w) \/ AbandonPlan(w)

\* A process of the pool handles one message at a time, of either queue.
ExecutorStep(w) ==
    /\ ppc[w] = "idle"
    /\ TakeMessage(w) \/ HandlerStep(w)
    /\ UNCHANGED planning

PlatformNext ==
    \/ SendPlan \/ AbandonCreate \/ LosePlan
    \/ Api /\ UNCHANGED planning
    \/ \E w \in Worker :
          \/ PlannerStep(w) \/ CrashPlanner(w) \/ RedeliverPlan(w)
          \/ ExecutorStep(w)
          \/ (Crash(w) \/ Redeliver(w)) /\ UNCHANGED planning

PlatformSpec == PlatformInit /\ [][PlatformNext]_allVars

FairPlatformSpec ==
    /\ PlatformSpec
    /\ WF_allVars(SendPlan)
    /\ \A w \in Worker : WF_allVars(PlannerStep(w) \/ ExecutorStep(w))

----------------------------------------------------------------------------

\* A job whose plan has unique step_ids and no cycle reaches an outcome and
\* keeps it, whatever its steps are; validation lets other plans pass, and those
\* may wait for ever (shared/models.py:130).
SchedulableJobEnds ==
    <>[](job \in TerminalJob \cup {"absent"} \/ ~Schedulable(Present))
=============================================================================
