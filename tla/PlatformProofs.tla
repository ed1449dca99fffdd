--------------------------- MODULE PlatformProofs ---------------------------
(***************************************************************************)
(* Theorems about Platform: what was proved of the handler alone, which    *)
(* finds its rows inserted and its first messages sent, still holds when   *)
(* plan_job is at work beside it.                                          *)
(***************************************************************************)
EXTENDS Platform, OutcomeProofs

(***************************************************************************)
(* Steps                                                                   *)
(***************************************************************************)

\* A step that does not belong to the handler or to the requests on a job.
PlanningStep ==
    \/ SendPlan \/ AbandonCreate \/ LosePlan
    \/ \E w \in Worker : PlannerStep(w) \/ CrashPlanner(w) \/ RedeliverPlan(w)

LEMMA PlatformSteps ==
    ASSUME [PlatformNext]_allVars
    PROVE  ([Next]_vars /\ UNCHANGED planning) \/ PlanningStep
  BY DEF PlatformNext, ExecutorStep, Next, PlanningStep, allVars

\* What the planning of a job does to the rows and to the handler.
LEMMA PlanningEffects ==
    ASSUME PlanningStep
    PROVE  /\ UNCHANGED <<attempts, output, collected, session, cancel, memories>>
           /\ job' = "absent" <=> job = "absent"
           /\ status' = status \/ \E w \in Worker : PersistPlan(w) \/ \E t \in Task : QueueRoot(w, t)
           /\ mq' = mq \/ \E w \in Worker : SendRoot(w)
<1> USE DEF database, vars, WriteJob
<1>1. CASE SendPlan \/ AbandonCreate \/ LosePlan
  BY <1>1 DEF SendPlan, AbandonCreate, LosePlan
<1>2. ASSUME NEW w \in Worker, NEW n \in 0..MaxRetries, StartPlanning(w, n)
      PROVE  /\ UNCHANGED <<status, attempts, output, collected, mq, session, cancel, memories>>
             /\ job' = "absent" <=> job = "absent"
  BY <1>2 DEF StartPlanning
<1>3. ASSUME NEW w \in Worker,
             RejectPlan(w) \/ BreakPlan(w) \/ RetryPlan(w) \/ MarkPlanned(w)
             \/ StartJob(w) \/ AbandonPlan(w) \/ CrashPlanner(w) \/ RedeliverPlan(w)
      PROVE  /\ UNCHANGED <<status, attempts, output, collected, mq, session, cancel, memories>>
             /\ job' = "absent" <=> job = "absent"
  BY <1>3 DEF RejectPlan, BreakPlan, RetryPlan, MarkPlanned, StartJob, AbandonPlan,
              CrashPlanner, RedeliverPlan
<1>4. ASSUME NEW w \in Worker, PersistPlan(w) \/ (\E t \in Task : QueueRoot(w, t)) \/ SendRoot(w)
      PROVE  /\ UNCHANGED <<job, attempts, output, collected, session, cancel, memories>>
             /\ SendRoot(w) => status' = status
             /\ ~SendRoot(w) => mq' = mq
  BY <1>4 DEF PersistPlan, QueueRoot, SendRoot
<1> QED
  BY <1>1, <1>2, <1>3, <1>4 DEF PlanningStep, PlannerStep

(***************************************************************************)
(* Types                                                                   *)
(***************************************************************************)

\* A row about to be sent is a row.
PlatformTypeInv ==
    /\ PlatformTypeOK
    /\ HandlesRow
    /\ \A w \in Worker : ppc[w] = "sending" => root[w] \in Task

\* Whatever the model answers, a plan consists of rows.
LEMMA PlansHaveRows == \A rows \in Plans : rows \in SUBSET Task
  BY PlanningAssumption DEF Plans

LEMMA InitPlatformTypes == PlatformInit => PlatformTypeInv
<1> SUFFICES ASSUME PlatformInit PROVE PlatformTypeInv
  OBVIOUS
<1>1. TypeOK /\ HandlesRow
  BY ExecutorAssumption
     DEF PlatformInit, TypeOK, TaskStatus, JobStatus, Location, Message, HandlesRow
<1>2. /\ api = "committed" /\ pq = [n \in 0..MaxRetries |-> 0]
      /\ ppc = [w \in Worker |-> "idle"] /\ ptries = [w \in Worker |-> 0]
      /\ inserted = {} /\ roots = [w \in Worker |-> {}] /\ root = [w \in Worker |-> NoTask]
  BY DEF PlatformInit
<1> QED
  BY <1>1, <1>2, ExecutorAssumption DEF PlatformTypeInv, PlatformTypeOK, PlanLocation

LEMMA FinishPlanTypes ==
    ASSUME PlatformTypeInv, NEW w \in Worker, FinishPlan(w)
    PROVE  /\ ppc' \in [Worker -> PlanLocation]
           /\ ptries' \in [Worker -> 0..MaxRetries]
           /\ roots' \in [Worker -> SUBSET Task]
           /\ root' \in [Worker -> Task \cup {NoTask}]
           /\ \A v \in Worker : ppc'[v] = "sending" => root'[v] \in Task
  BY ExecutorAssumption DEF PlatformTypeInv, PlatformTypeOK, FinishPlan, GoOn, PlanLocation

\* The handler's variables.
LEMMA PlanningKeepsTypes ==
    ASSUME PlatformTypeInv, PlanningStep
    PROVE  TypeInv'
<1> USE DEF PlatformTypeInv, PlatformTypeOK
<1>1. status' \in [Task -> TaskStatus \cup {"absent"}]
  BY PlanningEffects DEF TypeOK, PersistPlan, QueueRoot, TaskStatus
<1>2. mq' \in [Message -> Nat]
  <2>1. ASSUME NEW w \in Worker, SendRoot(w) PROVE mq' \in [Message -> Nat]
    <3>1. root[w] \in Task /\ 0 \in 0..MaxRetries /\ Put(root[w], 0)
      BY <2>1, ExecutorAssumption DEF SendRoot
    <3> QED
      BY <3>1, QueueTypes
  <2> QED
    BY <2>1, PlanningEffects DEF TypeOK
<1>3. job' \in JobStatus \cup {"absent"} /\ faults' \in Nat
  <2> USE DEF TypeOK, JobStatus, WriteJob, database, vars
  <2>1. CASE SendPlan \/ AbandonCreate \/ LosePlan
    BY <2>1 DEF SendPlan, AbandonCreate, LosePlan
  <2>2. ASSUME NEW w \in Worker, PlannerStep(w)
        PROVE  job' \in JobStatus \cup {"absent"} /\ faults' \in Nat
    BY <2>2 DEF PlannerStep, StartPlanning, RejectPlan, BreakPlan, RetryPlan, PersistPlan,
                MarkPlanned, QueueRoot, SendRoot, StartJob, AbandonPlan
  <2>3. ASSUME NEW w \in Worker, CrashPlanner(w) \/ RedeliverPlan(w)
        PROVE  job' \in JobStatus \cup {"absent"} /\ faults' \in Nat
    BY <2>3 DEF CrashPlanner, RedeliverPlan
  <2> QED
    BY <2>1, <2>2, <2>3 DEF PlanningStep
<1> QED
  BY <1>1, <1>2, <1>3, PlanningEffects DEF TypeInv, TypeOK, HandlesRow, session

LEMMA NextPlatformTypes == PlatformTypeInv /\ [PlatformNext]_allVars => PlatformTypeInv'
<1> SUFFICES ASSUME PlatformTypeInv, [PlatformNext]_allVars PROVE PlatformTypeInv'
  OBVIOUS
<1> USE DEF PlatformTypeInv, PlatformTypeOK
<1>1. TypeInv'
  BY PlatformSteps, PlanningKeepsTypes, NextTypes DEF TypeInv
<1>2. SUFFICES /\ api' \in {"committed", "sent", "died"}
               /\ pq' \in [0..MaxRetries -> Nat]
               /\ ppc' \in [Worker -> PlanLocation]
               /\ ptries' \in [Worker -> 0..MaxRetries]
               /\ inserted' \subseteq Task
               /\ roots' \in [Worker -> SUBSET Task]
               /\ root' \in [Worker -> Task \cup {NoTask}]
               /\ \A w \in Worker : ppc'[w] = "sending" => root'[w] \in Task
  BY <1>1 DEF TypeInv
<1>3. 0 \in 0..MaxRetries
  BY ExecutorAssumption
<1>4. CASE UNCHANGED planning
  BY <1>4 DEF planning
<1>5. CASE SendPlan \/ AbandonCreate \/ LosePlan
  BY <1>3, <1>5 DEF SendPlan, AbandonCreate, LosePlan
<1>6. ASSUME NEW w \in Worker, NEW n \in 0..MaxRetries, StartPlanning(w, n)
      PROVE  <1>2!1
  <2>1. pq[n] \in Nat /\ pq[n] > 0
    BY <1>6 DEF StartPlanning
  <2>2. pq[n] - 1 \in Nat
    BY <2>1
  <2>3. pq' = [pq EXCEPT ![n] = pq[n] - 1] /\ UNCHANGED <<api, inserted, roots, root>>
    BY <1>6 DEF StartPlanning
  <2>4. pq' \in [0..MaxRetries -> Nat]
    BY <2>2, <2>3
  <2>5. \/ UNCHANGED <<ppc, ptries>>
        \/ ppc' = [ppc EXCEPT ![w] = "planning"] /\ ptries' = [ptries EXCEPT ![w] = n]
    BY <1>6 DEF StartPlanning, GoOn
  <2> QED
    BY <2>3, <2>4, <2>5 DEF PlanLocation
<1>7. ASSUME NEW w \in Worker, RejectPlan(w) \/ AbandonPlan(w) \/ StartJob(w)
      PROVE  <1>2!1
  BY <1>7, FinishPlanTypes DEF RejectPlan, AbandonPlan, StartJob
<1>8. ASSUME NEW w \in Worker, BreakPlan(w) PROVE <1>2!1
  BY <1>8 DEF BreakPlan, GoOn, PlanLocation
<1>9. ASSUME NEW w \in Worker, RetryPlan(w) PROVE <1>2!1
  <2>1. ptries[w] < MaxRetries => ptries[w] + 1 \in 0..MaxRetries
    BY ExecutorAssumption
  <2> QED
    BY <1>9, <2>1, FinishPlanTypes DEF RetryPlan
<1>10. ASSUME NEW w \in Worker, PersistPlan(w) PROVE <1>2!1
  BY <1>10, PlansHaveRows DEF PersistPlan, GoOn, PlanLocation
<1>11. ASSUME NEW w \in Worker, MarkPlanned(w) PROVE <1>2!1
  BY <1>11 DEF MarkPlanned, RowChoices, GoOn, PlanLocation
<1>12. ASSUME NEW w \in Worker, NEW t \in Task, QueueRoot(w, t) PROVE <1>2!1
  BY <1>12 DEF QueueRoot, GoOn, PlanLocation
<1>13. ASSUME NEW w \in Worker, SendRoot(w) PROVE <1>2!1
  BY <1>13 DEF SendRoot, GoOn, PlanLocation
<1>14. ASSUME NEW w \in Worker, CrashPlanner(w) PROVE <1>2!1
  <2>1. pq' \in [0..MaxRetries -> Nat] /\ UNCHANGED <<api, inserted>>
    BY <1>14 DEF CrashPlanner
  <2>2. FinishPlan(w)
    BY <1>14 DEF CrashPlanner
  <2> QED
    BY <2>1, <2>2, FinishPlanTypes
<1>15. ASSUME NEW w \in Worker, RedeliverPlan(w) PROVE <1>2!1
  BY <1>15 DEF RedeliverPlan
<1> QED
  BY <1>4, <1>5, <1>6, <1>7, <1>8, <1>9, <1>10, <1>11, <1>12, <1>13, <1>14, <1>15,
     PlatformSteps DEF PlanningStep, PlannerStep

\* Every variable keeps its type, whatever the model answers and however often
\* plan_job is delivered: in particular no row is inserted that is not of a plan,
\* and no message of either queue is taken that is not there.
THEOREM PlatformTypeCorrect == PlatformSpec => []PlatformTypeOK
<1>1. PlatformTypeInv => PlatformTypeOK
  BY DEF PlatformTypeInv
<1> QED
  BY <1>1, InitPlatformTypes, NextPlatformTypes, PTL DEF PlatformSpec

(***************************************************************************)
(* No step runs ahead of its dependencies, nor of the plan                 *)
(***************************************************************************)

\* What plan_job is about to queue and to send has no dependencies.
RootsReleased ==
    \A w \in Worker :
        /\ ppc[w] \in {"queueing", "sending"} => \A t \in roots[w] : Deps[t] = {}
        /\ ppc[w] = "sending" => Deps[root[w]] = {}

PlatformSafeInv == PlatformTypeInv /\ SafeInv /\ RootsReleased

LEMMA InitPlatformSafe == PlatformInit => PlatformSafeInv
<1> SUFFICES ASSUME PlatformInit PROVE PlatformSafeInv
  OBVIOUS
<1>1. PlatformTypeInv /\ TypeInv
  BY InitPlatformTypes DEF PlatformTypeInv, PlatformTypeOK, TypeInv
<1>2. ReleasedRows /\ SucceededHasOutput /\ DeletedIsEmpty
  BY DEF PlatformInit, ReleasedRows, SucceededHasOutput, DeletedIsEmpty
<1>3. ReleasedMessages
  BY DEF PlatformInit, ReleasedMessages, Message
<1>4. ReleasedWork /\ RootsReleased
  BY ExecutorAssumption DEF PlatformInit, ReleasedWork, RootsReleased
<1> QED
  BY <1>1, <1>2, <1>3, <1>4 DEF PlatformSafeInv, SafeInv

\* The rows of the ready steps of a plan are ready themselves.
LEMMA PlanRootsAreReady ==
    ASSUME ConsistentIds, NEW rows \in SUBSET Task,
           NEW ready \in RowChoices(rows, PlanReady(rows)), NEW t \in ready
    PROVE  Deps[t] = {}
<1>1. t \in Task /\ StepOf[t] \in PlanReady(rows)
  BY DEF RowChoices, StepsOf
<1>2. PICK u \in rows : Deps[u] = {} /\ StepOf[u] = StepOf[t]
  BY <1>1 DEF PlanReady, StepsOf
<1> QED
  BY <1>1, <1>2 DEF ConsistentIds

LEMMA NextRootsReleased ==
    ConsistentIds /\ PlatformSafeInv /\ [PlatformNext]_allVars => RootsReleased'
<1> SUFFICES ASSUME ConsistentIds, PlatformSafeInv, [PlatformNext]_allVars PROVE RootsReleased'
  OBVIOUS
<1> USE DEF PlatformSafeInv, PlatformTypeInv, PlatformTypeOK, RootsReleased, GoOn
<1>1. CASE UNCHANGED planning
  BY <1>1 DEF planning
<1>2. CASE SendPlan \/ AbandonCreate \/ LosePlan
  BY <1>2 DEF SendPlan, AbandonCreate, LosePlan
<1>3. ASSUME NEW w \in Worker, FinishPlan(w) PROVE RootsReleased'
  BY <1>3 DEF FinishPlan
<1>4. ASSUME NEW w \in Worker, NEW n \in 0..MaxRetries, StartPlanning(w, n) PROVE RootsReleased'
  <2>1. UNCHANGED <<roots, root>> /\ (ppc' = ppc \/ ppc' = [ppc EXCEPT ![w] = "planning"])
    BY <1>4 DEF StartPlanning
  <2> QED
    BY <2>1
<1>5. ASSUME NEW w \in Worker, BreakPlan(w) \/ PersistPlan(w) \/ RedeliverPlan(w)
      PROVE  RootsReleased'
  BY <1>5 DEF BreakPlan, PersistPlan, RedeliverPlan
<1>6. ASSUME NEW w \in Worker, MarkPlanned(w) PROVE RootsReleased'
  <2>1. PICK ready \in RowChoices(roots[w], PlanReady(roots[w])) :
          roots' = [roots EXCEPT ![w] = ready]
    BY <1>6 DEF MarkPlanned
  <2>2. \A t \in ready : Deps[t] = {}
    BY PlanRootsAreReady
  <2> QED
    BY <1>6, <2>1, <2>2 DEF MarkPlanned
<1>7. ASSUME NEW w \in Worker, NEW t \in Task, QueueRoot(w, t) PROVE RootsReleased'
  BY <1>7 DEF QueueRoot
<1>8. ASSUME NEW w \in Worker, SendRoot(w) PROVE RootsReleased'
  BY <1>8 DEF SendRoot
<1> QED
  BY <1>1, <1>2, <1>3, <1>4, <1>5, <1>6, <1>7, <1>8, PlatformSteps
     DEF PlanningStep, PlannerStep, RejectPlan, RetryPlan, StartJob, AbandonPlan, CrashPlanner

LEMMA PlanningIsSafe ==
    ASSUME PlatformSafeInv, PlanningStep
    PROVE  SafeInv'
<1>t. TypeInv /\ TypeInv'
  BY PlanningKeepsTypes DEF PlatformSafeInv, SafeInv
<1>1. /\ UNCHANGED <<attempts, output, pc, cur, own, batch, dirty>>
      /\ job' = "absent" <=> job = "absent"
  BY PlanningEffects DEF session
<1>2. \A t : MayRun(t)' <=> MayRun(t)
  BY <1>1 DEF MayRun
<1>3. ASSUME NEW t \in Task, status'[t] # status[t]
      PROVE  /\ job # "absent" /\ status'[t] \in {"pending", "queued"}
             /\ status'[t] = "queued" => Deps[t] = {}
  <2>1. PICK w \in Worker : PersistPlan(w) \/ \E u \in Task : QueueRoot(w, u)
    BY <1>3, PlanningEffects
  <2>2. CASE PersistPlan(w)
    BY <1>3, <2>2 DEF PersistPlan
  <2>3. ASSUME NEW u \in Task, QueueRoot(w, u)
        PROVE  job # "absent" /\ status'[t] = "queued" /\ Deps[t] = {}
    BY <1>t, <1>3, <2>3
       DEF QueueRoot, PlatformSafeInv, RootsReleased, SafeInv, DeletedIsEmpty, TypeInv, TypeOK
  <2> QED
    BY <2>1, <2>2, <2>3
<1>4. ReleasedRows'
  BY <1>1, <1>2, <1>3 DEF PlatformSafeInv, SafeInv, ReleasedRows, MayRun, Released
<1>5. ReleasedMessages'
  <2> SUFFICES ASSUME NEW t \in Task, NEW n \in 0..MaxRetries, mq'[<<t, n>>] > 0
               PROVE  MayRun(t)
    BY <1>2 DEF ReleasedMessages
  <2>1. CASE mq[<<t, n>>] > 0
    BY <2>1 DEF PlatformSafeInv, SafeInv, ReleasedMessages
  <2>2. CASE ~(mq[<<t, n>>] > 0)
    <3>1. PICK w \in Worker : SendRoot(w)
      BY <2>2, PlanningEffects
    <3>2. t = root[w]
      BY <1>t, <2>2, <3>1 DEF SendRoot, Put, TypeInv, TypeOK, Message
    <3> QED
      BY <3>1, <3>2 DEF SendRoot, PlatformSafeInv, RootsReleased, MayRun, Released
  <2> QED
    BY <2>1, <2>2
<1>6. ReleasedWork'
  BY <1>1, <1>2 DEF PlatformSafeInv, SafeInv, ReleasedWork
<1>7. SucceededHasOutput'
  BY <1>1, <1>3 DEF PlatformSafeInv, SafeInv, SucceededHasOutput
<1>8. DeletedIsEmpty'
  BY <1>1, <1>3 DEF PlatformSafeInv, SafeInv, DeletedIsEmpty
<1> QED
  BY <1>t, <1>4, <1>5, <1>6, <1>7, <1>8 DEF SafeInv

LEMMA NextPlatformSafe ==
    ConsistentIds /\ PlatformSafeInv /\ [PlatformNext]_allVars => PlatformSafeInv'
<1> SUFFICES ASSUME ConsistentIds, PlatformSafeInv, [PlatformNext]_allVars
             PROVE  PlatformSafeInv'
  OBVIOUS
<1>1. SafeInv'
  BY PlatformSteps, PlanningIsSafe, NextSafe DEF PlatformSafeInv
<1> QED
  BY <1>1, NextPlatformTypes, NextRootsReleased DEF PlatformSafeInv

\* Also while plan_job is still at work, is delivered again, or inserts a second
\* copy of its plan, no row is queued, running or ever claimed before every step
\* it depends on has left an output.
THEOREM PlatformDependenciesHold == ConsistentIds => (PlatformSpec => []DependenciesFirst)
<1> SUFFICES ASSUME ConsistentIds PROVE PlatformSpec => []DependenciesFirst
  OBVIOUS
<1>1. PlatformInit => PlatformSafeInv
  BY InitPlatformSafe
<1>2. PlatformSafeInv /\ [PlatformNext]_allVars => PlatformSafeInv'
  BY NextPlatformSafe
<1>3. PlatformSafeInv => DependenciesFirst
  BY SafeInvImplies DEF PlatformSafeInv
<1> QED
  BY <1>1, <1>2, <1>3, PTL DEF PlatformSpec

(***************************************************************************)
(* The platform implements Dataflow                                        *)
(***************************************************************************)

PlatformFlowInv == PlatformSafeInv /\ FlowInv

LEMMA NextPlatformFlow ==
    ASSUME ConsistentIds, PlatformFlowInv, [PlatformNext]_allVars
    PROVE  PlatformFlowInv' /\ [Promise!FlowNext]_(Promise!flow)
<1>1. PlatformSafeInv'
  BY NextPlatformSafe DEF PlatformFlowInv
<1>2. CASE [Next]_vars
  BY <1>1, <1>2, NextFlow, StepImplementsFlow DEF PlatformFlowInv
<1>3. CASE PlanningStep
  <2>1. /\ UNCHANGED <<attempts, output, pc, cur>>
        /\ job' = "absent" <=> job = "absent"
    BY <1>3, PlanningEffects DEF session
  <2>2. CallsAreClaimed'
    BY <2>1 DEF PlatformFlowInv, FlowInv, CallsAreClaimed, InvokingTool
  <2>3. UNCHANGED <<job # "absent", { t \in Task : attempts[t] > 0 }, output>>
    BY <2>1
  <2> QED
    BY <1>1, <2>2, <2>3 DEF PlatformFlowInv, FlowInv, PlatformSafeInv, Promise!flow
<1> QED
  BY <1>2, <1>3, PlatformSteps

\* From the request that creates a job on, the platform implements Dataflow: what
\* plan_job does is no step of it, however often it is delivered.
THEOREM PlatformRefinement == ConsistentIds => (PlatformSpec => ImplementsDataflow)
<1> SUFFICES ASSUME ConsistentIds PROVE PlatformSpec => ImplementsDataflow
  OBVIOUS
<1>1. PlatformInit => PlatformFlowInv
  BY InitPlatformSafe
     DEF PlatformInit, PlatformFlowInv, PlatformSafeInv, FlowInv, CallsAreClaimed, InvokingTool
<1>2. PlatformFlowInv /\ [PlatformNext]_allVars
        => PlatformFlowInv' /\ [Promise!FlowNext]_(Promise!flow)
  BY NextPlatformFlow
<1>3. PlatformInit => Promise!FlowInit
  BY DEF PlatformInit, Promise!FlowInit
<1> QED
  BY <1>1, <1>2, <1>3, PTL DEF PlatformSpec, ImplementsDataflow, Promise!FlowSpec

(***************************************************************************)
(* One pool process, as in docker-compose.yml                              *)
(*                                                                         *)
(* plan_job has ended when the first step begins, and a step has ended     *)
(* when the next begins, so that only requests come between what a handler *)
(* reads and what it writes.  Nothing is assumed of the plan: its          *)
(* step_ids may be repeated and its dependencies circular.                 *)
(***************************************************************************)

OneProcess == \A v, w \in Worker : v = w

PlanQueued == \E n \in 0..MaxRetries : pq[n] > 0

\* The job has a try of plan_job to come.
ToBePlanned ==
    api = "committed" \/ PlanQueued \/ \E w \in Worker : ppc[w] \in {"planning", "retrying"}

\* The message of plan_job is in one place, and while there is one to come no row
\* has been inserted.
PlannedOnce ==
    /\ \A n \in 0..MaxRetries :
          /\ pq[n] <= 1
          /\ \A m \in 0..MaxRetries : pq[n] > 0 /\ pq[m] > 0 => m = n
    /\ api = "committed" => ~PlanQueued
    /\ \A w \in Worker : ppc[w] # "idle" => api # "committed" /\ ~PlanQueued
    /\ ToBePlanned => inserted = {}

\* While plan_job is at work no handler is, and the job has no outcome but the one
\* that a failed try has given it.
PlannerAlone ==
    \A w \in Worker :
        ppc[w] # "idle" => /\ pc[w] = "idle"
                           /\ job # "succeeded"
                           /\ ppc[w] # "retrying" => job # "failed"

\* What may happen, with one process.
LEMMA SingleSteps ==
    ASSUME OneProcess, DeliversOnce, PlannerAlone, [PlatformNext]_allVars
    PROVE  \/ /\ [Next]_vars /\ UNCHANGED planning
              /\ (\E w \in Worker : ppc[w] # "idle") => Api \/ UNCHANGED vars
           \/ SendPlan \/ AbandonCreate \/ LosePlan
           \/ \E w \in Worker : pc[w] = "idle" /\ (PlannerStep(w) \/ CrashPlanner(w))
<1>1. ASSUME NEW w \in Worker, PlannerStep(w) \/ CrashPlanner(w) PROVE pc[w] = "idle"
  <2>1. CASE \E n \in 0..MaxRetries : StartPlanning(w, n)
    BY <2>1 DEF StartPlanning
  <2>2. CASE ~\E n \in 0..MaxRetries : StartPlanning(w, n)
    <3>1. ppc[w] # "idle"
      BY <1>1, <2>2 DEF PlannerStep, RejectPlan, BreakPlan, RetryPlan, PersistPlan, MarkPlanned,
                        QueueRoot, SendRoot, StartJob, AbandonPlan, CrashPlanner
    <3> QED
      BY <3>1 DEF PlannerAlone
  <2> QED
    BY <2>1, <2>2
<1>2. ASSUME NEW w \in Worker, ExecutorStep(w) \/ ((Crash(w) \/ Redeliver(w)) /\ UNCHANGED planning)
      PROVE  Next /\ UNCHANGED planning /\ \A v \in Worker : ppc[v] = "idle"
  <2>1. ppc[w] = "idle"
    BY <1>2 DEF ExecutorStep, Crash, Redeliver, PlannerAlone
  <2> QED
    BY <1>2, <2>1 DEF ExecutorStep, Next, OneProcess
<1>3. \A w \in Worker : ~RedeliverPlan(w)
  BY DEF RedeliverPlan, DeliversOnce
<1> QED
  BY <1>1, <1>2, <1>3 DEF PlatformNext, Next, allVars

\* The two steps by which plan_job writes rows, and what it sends.
LEMMA PlannerWrites ==
    ASSUME PlatformTypeInv, NEW w \in Worker, PlannerStep(w) \/ CrashPlanner(w)
    PROVE  /\ UNCHANGED <<attempts, output, collected, session, cancel, memories>>
           /\ job' = "absent" <=> job = "absent"
           /\ \/ UNCHANGED <<status, mq, inserted>>
              \/ PersistPlan(w) /\ UNCHANGED mq
              \/ (\E t \in Task : QueueRoot(w, t)) /\ UNCHANGED <<mq, inserted>>
              \/ SendRoot(w) /\ UNCHANGED <<status, inserted>>
<1> USE DEF database, vars, WriteJob
<1>1. ASSUME NEW n \in 0..MaxRetries, StartPlanning(w, n)
      PROVE  UNCHANGED <<status, mq, inserted>>
  BY <1>1 DEF StartPlanning
<1>2. ASSUME RejectPlan(w) \/ BreakPlan(w) \/ RetryPlan(w) \/ MarkPlanned(w)
             \/ StartJob(w) \/ AbandonPlan(w) \/ CrashPlanner(w)
      PROVE  UNCHANGED <<status, mq, inserted>>
  BY <1>2 DEF RejectPlan, BreakPlan, RetryPlan, MarkPlanned, StartJob, AbandonPlan, CrashPlanner
<1>3. PersistPlan(w) => UNCHANGED mq
  BY DEF PersistPlan
<1>4. \A t \in Task : QueueRoot(w, t) => UNCHANGED <<mq, inserted>>
  BY DEF QueueRoot
<1>5. SendRoot(w) => UNCHANGED <<status, inserted>>
  BY DEF SendRoot
<1>6. PlanningStep
  BY DEF PlanningStep
<1> QED
  BY <1>1, <1>2, <1>3, <1>4, <1>5, <1>6, PlanningEffects DEF PlannerStep

LEMMA NextPlannedOnce ==
    ASSUME PlatformTypeInv, OneProcess, DeliversOnce, PlannerAlone, PlannedOnce,
           [PlatformNext]_allVars
    PROVE  PlannedOnce'
<1> USE DEF PlatformTypeInv, PlatformTypeOK, GoOn
<1>t. \A n \in 0..MaxRetries : pq[n] \in Nat
  OBVIOUS
<1>s. ASSUME UNCHANGED <<pq, inserted>>, api' = "committed" => api = "committed",
             \A w \in Worker : ppc'[w] # "idle" => ppc[w] # "idle",
             \A w \in Worker : ppc'[w] \in {"planning", "retrying"}
                                  => ppc[w] \in {"planning", "retrying"}
      PROVE  PlannedOnce'
  BY <1>s DEF PlannedOnce, PlanQueued, ToBePlanned
<1>1. CASE UNCHANGED planning
  BY <1>1 DEF planning, PlannedOnce, PlanQueued, ToBePlanned
<1>2. CASE AbandonCreate \/ LosePlan
  BY <1>s, <1>2 DEF AbandonCreate, LosePlan
<1>3. CASE SendPlan
  <2>1. \A n \in 0..MaxRetries : pq[n] = 0
    BY <1>t, <1>3 DEF SendPlan, PlannedOnce, PlanQueued
  <2>2. \A n \in 0..MaxRetries : pq'[n] = IF n = 0 THEN 1 ELSE 0
    BY <1>3, <2>1 DEF SendPlan
  <2>3. \A n \in 0..MaxRetries : pq'[n] <= 1 /\ (pq'[n] > 0 => n = 0)
    BY <2>2
  <2>4. /\ \A w \in Worker : ppc'[w] = "idle"
        /\ inserted' = {} /\ api' # "committed"
    BY <1>3 DEF SendPlan, PlannedOnce, ToBePlanned
  <2> QED
    BY <2>3, <2>4 DEF PlannedOnce
<1>4. ASSUME NEW w \in Worker, NEW n \in 0..MaxRetries, StartPlanning(w, n) PROVE PlannedOnce'
  <2>1. pq[n] = 1 /\ \A m \in 0..MaxRetries : m # n => pq[m] = 0
    BY <1>t, <1>4 DEF StartPlanning, PlannedOnce
  <2>2. pq' = [pq EXCEPT ![n] = pq[n] - 1] /\ UNCHANGED <<api, inserted>>
    BY <1>4 DEF StartPlanning
  <2>3. \A m \in 0..MaxRetries : pq'[m] = 0
    BY <2>1, <2>2
  <2>4. api # "committed" /\ inserted = {}
    BY <1>4 DEF StartPlanning, PlannedOnce, PlanQueued, ToBePlanned
  <2> QED
    BY <2>2, <2>3, <2>4 DEF PlannedOnce, PlanQueued
<1>5. ASSUME NEW w \in Worker, FinishPlan(w), UNCHANGED <<api, pq, inserted>> PROVE PlannedOnce'
  BY <1>s, <1>5 DEF FinishPlan
<1>6. ASSUME NEW w \in Worker, BreakPlan(w) PROVE PlannedOnce'
  BY <1>s, <1>6 DEF BreakPlan
<1>7. ASSUME NEW w \in Worker, RetryPlan(w) PROVE PlannedOnce'
  <2>1. /\ \A m \in 0..MaxRetries : pq[m] = 0
        /\ inserted = {} /\ api # "committed"
    BY <1>t, <1>7 DEF RetryPlan, PlannedOnce, PlanQueued, ToBePlanned
  <2>2. \A v \in Worker : ppc'[v] = "idle"
    BY <1>7 DEF RetryPlan, FinishPlan, OneProcess
  <2>3. \A m \in 0..MaxRetries : pq'[m] = 0 \/ (m = ptries[w] + 1 /\ pq'[m] = 1)
    <3> DEFINE k == ptries[w] + 1
    <3>1. pq' = pq \/ pq' = [pq EXCEPT ![k] = pq[k] + 1]
      BY <1>7 DEF RetryPlan
    <3> HIDE DEF k
    <3>2. \A m \in 0..MaxRetries : pq'[m] = pq[m] \/ (m = k /\ pq'[m] = pq[m] + 1)
      BY <3>1
    <3>3. \A m \in 0..MaxRetries : pq'[m] = 0 \/ (m = k /\ pq'[m] = 1)
      BY <2>1, <3>2
    <3> QED
      BY <3>3 DEF k
  <2>4. \A m \in 0..MaxRetries : pq'[m] <= 1 /\ (pq'[m] > 0 => m = ptries[w] + 1)
    BY <2>3
  <2> QED
    BY <1>7, <2>1, <2>2, <2>4 DEF RetryPlan, PlannedOnce
<1>8. ASSUME NEW w \in Worker, PersistPlan(w) PROVE PlannedOnce'
  <2>1. UNCHANGED <<pq, api>> /\ api # "committed" /\ ~PlanQueued
    BY <1>8 DEF PersistPlan, PlannedOnce
  <2>2. \A v \in Worker : ppc'[v] = "persisted"
    BY <1>8 DEF PersistPlan, OneProcess
  <2> QED
    BY <2>1, <2>2 DEF PlannedOnce, PlanQueued, ToBePlanned
<1>9. ASSUME NEW w \in Worker, MarkPlanned(w) \/ (\E t \in Task : QueueRoot(w, t)) \/ SendRoot(w)
      PROVE  PlannedOnce'
  BY <1>s, <1>9 DEF MarkPlanned, QueueRoot, SendRoot
<1>10. ASSUME NEW w \in Worker, CrashPlanner(w) PROVE PlannedOnce'
  BY <1>5, <1>10 DEF CrashPlanner, DeliversOnce
<1>11. ASSUME NEW w \in Worker, RejectPlan(w) \/ StartJob(w) \/ AbandonPlan(w) PROVE PlannedOnce'
  BY <1>5, <1>11 DEF RejectPlan, StartJob, AbandonPlan
<1> QED
  BY <1>1, <1>2, <1>3, <1>4, <1>6, <1>7, <1>8, <1>9, <1>10, <1>11, SingleSteps DEF PlannerStep

LEMMA NextPlannerAlone ==
    ASSUME PlatformTypeInv, OneProcess, DeliversOnce, PlannerAlone, [PlatformNext]_allVars
    PROVE  PlannerAlone'
<1> USE DEF PlatformTypeInv, PlatformTypeOK, GoOn, WriteJob, database, vars, session
<1>a. ASSUME NEW w \in Worker, FinishPlan(w) PROVE PlannerAlone'
  BY <1>a DEF FinishPlan, OneProcess, PlannerAlone
<1>1. CASE UNCHANGED planning /\ (Api \/ UNCHANGED vars)
  <2>1. /\ pc' = pc /\ ppc' = ppc
        /\ job' \in {job, "cancelled", "absent"}
    BY <1>1 DEF Api, CancelRead, CancelWrite, DeleteJob, planning
  <2> QED
    BY <2>1 DEF PlannerAlone
<1>2. CASE UNCHANGED planning /\ \A w \in Worker : ppc[w] = "idle"
  BY <1>2 DEF planning, PlannerAlone
<1>3. CASE SendPlan \/ AbandonCreate \/ LosePlan
  BY <1>3 DEF SendPlan, AbandonCreate, LosePlan, PlannerAlone
<1>4. ASSUME NEW w \in Worker, NEW n \in 0..MaxRetries, StartPlanning(w, n) PROVE PlannerAlone'
  <2>1. pc[w] = "idle" /\ pc' = pc /\ ((ppc' = ppc /\ job' = job) \/ job' = "planning")
    BY <1>4 DEF StartPlanning
  <2> QED
    BY <2>1 DEF OneProcess, PlannerAlone
<1>5. ASSUME NEW w \in Worker, BreakPlan(w) PROVE PlannerAlone'
  <2>1. pc[w] = "idle" /\ pc' = pc /\ ppc'[w] = "retrying" /\ job' \in {job, "failed"}
        /\ job # "succeeded"
    BY <1>5 DEF BreakPlan, PlannerAlone
  <2> QED
    BY <2>1 DEF OneProcess, PlannerAlone
<1>6. ASSUME NEW w \in Worker,
             PersistPlan(w) \/ MarkPlanned(w) \/ (\E t \in Task : QueueRoot(w, t)) \/ SendRoot(w)
      PROVE  PlannerAlone'
  <2>1. /\ ppc[w] \notin {"idle", "retrying"} /\ pc' = pc /\ job' \in {job, "planned"}
    BY <1>6 DEF PersistPlan, MarkPlanned, QueueRoot, SendRoot
  <2> QED
    BY <2>1 DEF OneProcess, PlannerAlone
<1>7. ASSUME NEW w \in Worker,
             \/ RejectPlan(w) \/ RetryPlan(w) \/ StartJob(w) \/ AbandonPlan(w) \/ CrashPlanner(w)
      PROVE  PlannerAlone'
  BY <1>a, <1>7 DEF RejectPlan, RetryPlan, StartJob, AbandonPlan, CrashPlanner
<1> QED
  BY <1>1, <1>2, <1>3, <1>4, <1>5, <1>6, <1>7, SingleSteps DEF PlannerStep

\* The rows that exist are those inserted, and no other row has a message.
RowsOfPlan ==
    \A t \in Task :
        IF t \in inserted
        THEN job # "absent" => status[t] # "absent"
        ELSE status[t] = "absent" /\ ~HasMessage(t)

NoRowsLeft == job = "absent" => Present = {}

\* What plan_job is about to queue is pending, and what it has queued is still to
\* be sent.
RootsPending ==
    \A w \in Worker :
        /\ ppc[w] \in {"persisted", "queueing", "sending"}
              => \A t \in roots[w] : status[t] \in {"pending", "absent"}
        /\ ppc[w] = "sending"
              => status[root[w]] \in {"queued", "absent"} /\ ~HasMessage(root[w])

\* What a handler has read of other rows is what they are: those it is about to
\* skip are pending, the one it is about to queue again is queued.
ReadsHold ==
    \A w \in Worker :
        /\ pc[w] = "pruning" => \A t \in batch[w] : status[t] \in {"pending", "absent"}
        /\ dirty[w] # NoTask => /\ pc[w] \in {"enqueuing", "sending"}
                                /\ status[dirty[w]] \in {"queued", "absent"}

SingleInv ==
    /\ PlatformTypeInv
    /\ PlannedOnce
    /\ PlannerAlone
    /\ DeliveryInv
    /\ RowsOfPlan
    /\ NoRowsLeft
    /\ RootsPending
    /\ ReadsHold
    /\ \A w \in Worker : Place(w)

LEMMA InitSingle == PlatformInit => SingleInv
<1> SUFFICES ASSUME PlatformInit PROVE SingleInv
  OBVIOUS
<1>1. PlatformTypeInv /\ TypeInv
  BY InitPlatformTypes DEF PlatformTypeInv, PlatformTypeOK, TypeInv
<1>2. \A n \in 0..MaxRetries : pq[n] = 0
  BY DEF PlatformInit
<1>3. \A t \in Task, n \in 0..MaxRetries : mq[<<t, n>>] = 0
  BY DEF PlatformInit, Message
<1>4. \A w \in Worker : /\ pc[w] = "idle" /\ cur[w] = NoTask /\ own[w] = "expired"
                        /\ dirty[w] = NoTask /\ ppc[w] = "idle"
  BY DEF PlatformInit
<1>5. ASSUME NEW t \in Task PROVE ~HasMessage(t) /\ status[t] = "absent"
  <2>1. ~InQueue(t)
    <3>1. \A n \in 0..MaxRetries : ~(mq[<<t, n>>] > 0)
      BY <1>3
    <3> QED
      BY <3>1 DEF InQueue
  <2>2. \A w \in Worker : cur[w] # t /\ ~AboutToSend(w, t)
    BY <1>4, ExecutorAssumption DEF AboutToSend
  <2> QED
    BY <2>1, <2>2 DEF PlatformInit, HasMessage
<1>6. PlannedOnce
  BY <1>2 DEF PlatformInit, PlannedOnce, PlanQueued, ToBePlanned
<1>7. DeliveryInv
  <2>1. \A t \in Task : OneMessage(t)
    BY <1>3, <1>5 DEF OneMessage, HasMessage
  <2> QED
    BY <1>1, <2>1 DEF DeliveryInv
<1>8. inserted = {} /\ job = "pending"
  BY DEF PlatformInit
<1> QED
  BY <1>1, <1>4, <1>5, <1>6, <1>7, <1>8
     DEF SingleInv, PlannerAlone, RowsOfPlan, NoRowsLeft, RootsPending, ReadsHold, Place,
         InvokingTool, Behind

\* A step of the handler or of a request brings no row into being, nor a job.
LEMMA NothingAppears ==
    ASSUME TypeInv, [Next]_vars
    PROVE  /\ \A t \in Task : status[t] = "absent" => status'[t] = "absent"
           /\ job = "absent" => job' = "absent"
           /\ job # "absent" /\ job' = "absent" => \A t \in Task : status'[t] = "absent"
           /\ job' # "absent" => \A t \in Task : status'[t] = "absent" => status[t] = "absent"
<1>1. ASSUME NEW t \in Task, status[t] = "absent", status'[t] # "absent" PROVE FALSE
  <2>1. ASSUME NEW w \in Worker, t = cur[w]
        PROVE  ~SkipTask(w) /\ ~ClaimTask(w) /\ ~Succeed(w) /\ ~FailTask(w)
    BY <1>1, <2>1 DEF SkipTask, ClaimTask, Claimable, Succeed, FailTask
  <2>2. ASSUME NEW w \in Worker, NEW u \in Task, Enqueue(w, u) PROVE t # dirty[w]
    BY <1>1, <2>2, ExecutorAssumption DEF Enqueue
  <2> QED
    BY <1>1, <2>1, <2>2, RowMoves
<1>2. job = "absent" => job' = "absent"
  BY OtherWriters DEF CompleteJob, FailJob, CancelWrite, DeleteJob
<1>3. job # "absent" /\ job' = "absent" => DeleteJob
  BY OtherWriters DEF CompleteJob, FailJob, CancelWrite
<1>4. ASSUME NEW t \in Task, status[t] # "absent", status'[t] = "absent" PROVE job' = "absent"
  BY <1>4, RowMoves DEF DeleteJob
<1> QED
  BY <1>1, <1>2, <1>3, <1>4 DEF DeleteJob

\* Whether a row has a message is up to the queue and the handlers.
LEMMA MessagesKept ==
    ASSUME UNCHANGED <<mq, pc, cur, dirty>>
    PROVE  \A t : HasMessage(t)' <=> HasMessage(t)
  BY DEF HasMessage, InQueue, AboutToSend

\* A message is sent for one row.
LEMMA RootMessages ==
    ASSUME SingleInv, NEW w \in Worker, SendRoot(w), NEW t \in Task
    PROVE  /\ t # root[w] => \A n \in 0..MaxRetries : mq'[<<t, n>>] = mq[<<t, n>>]
           /\ t = root[w] => \A n \in 0..MaxRetries : mq'[<<t, n>>] = IF n = 0 THEN 1 ELSE 0
           /\ UNCHANGED <<pc, cur, dirty>>
<1>1. /\ mq' = [mq EXCEPT ![<<root[w], 0>>] = mq[<<root[w], 0>>] + 1]
      /\ UNCHANGED <<pc, cur, dirty>>
  BY DEF SendRoot, Put, session
<1>2. \A n \in 0..MaxRetries : <<t, n>> \in Message /\ mq[<<t, n>>] \in Nat
  BY DEF SingleInv, DeliveryInv, TypeInv, TypeOK, Message
<1>3. t = root[w] => \A n \in 0..MaxRetries : mq[<<t, n>>] = 0
  BY <1>2 DEF SendRoot, SingleInv, RootsPending, HasMessage, InQueue
<1> QED
  BY <1>1, <1>2, <1>3 DEF SingleInv, DeliveryInv, TypeInv, TypeOK

LEMMA PlannerDelivers ==
    ASSUME SingleInv, NEW w \in Worker, PlannerStep(w) \/ CrashPlanner(w), NEW t \in Task
    PROVE  OneMessage(t)'
<1>1. UNCHANGED <<pc, cur, dirty>>
  BY PlannerWrites DEF SingleInv, session
<1>2. OneMessage(t)
  BY DEF SingleInv, DeliveryInv
<1>3. CASE mq' = mq
  <2>1. HasMessage(t) => status'[t] # "pending"
    <3>1. CASE UNCHANGED status
      BY <1>2, <3>1 DEF OneMessage, HasMessage
    <3>2. CASE PersistPlan(w)
      <4>1. HasMessage(t) => t \in inserted /\ status[t] # "pending"
        BY <1>2 DEF SingleInv, RowsOfPlan, OneMessage, HasMessage
      <4> QED
        BY <3>2, <4>1 DEF PersistPlan
    <3>3. ASSUME NEW u \in Task, QueueRoot(w, u) PROVE HasMessage(t) => status'[t] # "pending"
      <4>1. status' = [status EXCEPT ![u] = "queued"]
        BY <3>3 DEF QueueRoot
      <4>2. HasMessage(t) => status[t] # "pending"
        BY <1>2 DEF OneMessage, HasMessage
      <4> QED
        BY <4>1, <4>2 DEF SingleInv, DeliveryInv, TypeInv, TypeOK
    <3>4. CASE SendRoot(w)
      BY <3>1, <3>4 DEF SendRoot, database
    <3> QED
      BY <3>1, <3>2, <3>3, <3>4, PlannerWrites DEF SingleInv
  <2> QED
    BY <1>1, <1>2, <1>3, <2>1 DEF OneMessage, InQueue, HasMessage, AboutToSend
<1>4. CASE SendRoot(w)
  <2>1. status' = status
    BY <1>4 DEF SendRoot, database
  <2>2. CASE t # root[w]
    <3>1. \A n \in 0..MaxRetries : mq'[<<t, n>>] = mq[<<t, n>>]
      BY <1>4, <2>2, RootMessages
    <3> QED
      BY <1>1, <1>2, <2>1, <3>1 DEF OneMessage, InQueue, AboutToSend
  <2>3. CASE t = root[w]
    <3>1. \A n \in 0..MaxRetries : mq'[<<t, n>>] <= 1 /\ (mq'[<<t, n>>] > 0 => n = 0)
      BY <1>4, <2>3, RootMessages
    <3>2. \A v \in Worker : cur'[v] # t /\ ~AboutToSend(v, t)'
      BY <1>1, <1>4, <2>3 DEF SendRoot, SingleInv, RootsPending, HasMessage, AboutToSend
    <3>3. status'[t] # "pending"
      BY <1>4, <2>1, <2>3 DEF SendRoot, SingleInv, RootsPending
    <3> QED
      BY <3>1, <3>2, <3>3 DEF OneMessage
  <2> QED
    BY <2>2, <2>3
<1> QED
  BY <1>3, <1>4, PlannerWrites DEF SingleInv

LEMMA NextSingleDelivery ==
    ASSUME OneProcess, DeliversOnce, SingleInv, [PlatformNext]_allVars
    PROVE  DeliveryInv'
<1>1. CASE [Next]_vars
  BY <1>1, NextDelivery DEF SingleInv
<1>2. CASE PlanningStep
  <2>1. TypeInv'
    BY <1>2, PlanningKeepsTypes DEF SingleInv
  <2>2. ASSUME NEW t \in Task PROVE OneMessage(t)'
    <3>1. CASE SendPlan \/ AbandonCreate \/ LosePlan
      <4>1. UNCHANGED <<status, mq, pc, cur, dirty>>
        BY <3>1 DEF SendPlan, AbandonCreate, LosePlan, vars, database, session
      <4> QED
        BY <4>1 DEF SingleInv, DeliveryInv, OneMessage, InQueue, AboutToSend
    <3>2. ASSUME NEW w \in Worker, PlannerStep(w) \/ CrashPlanner(w) PROVE OneMessage(t)'
      BY <3>2, PlannerDelivers
    <3>3. \A w \in Worker : ~RedeliverPlan(w)
      BY DEF RedeliverPlan, DeliversOnce
    <3> QED
      BY <1>2, <3>1, <3>2, <3>3 DEF PlanningStep
  <2> QED
    BY <2>1, <2>2 DEF DeliveryInv
<1> QED
  BY <1>1, <1>2, PlatformSteps

LEMMA NextRowsOfPlan ==
    ASSUME OneProcess, DeliversOnce, SingleInv, [PlatformNext]_allVars
    PROVE  RowsOfPlan' /\ NoRowsLeft'
<1>t. TypeInv
  BY DEF SingleInv, DeliveryInv
<1>1. CASE [Next]_vars /\ UNCHANGED planning
  <2>1. inserted' = inserted
    BY <1>1 DEF planning
  <2>2. ASSUME NEW t \in Task, t \notin inserted PROVE ~HasMessage(t)'
    BY <1>t, <1>1, <2>2, MessageMoves DEF SingleInv, RowsOfPlan
  <2>3. RowsOfPlan'
    BY <1>t, <1>1, <2>1, <2>2, NothingAppears DEF SingleInv, RowsOfPlan
  <2>4. NoRowsLeft'
    BY <1>t, <1>1, NothingAppears DEF SingleInv, NoRowsLeft, Present
  <2> QED
    BY <2>3, <2>4
<1>2. CASE SendPlan \/ AbandonCreate \/ LosePlan
  <2>1. UNCHANGED <<job, status, mq, pc, cur, dirty, inserted>>
    BY <1>2 DEF SendPlan, AbandonCreate, LosePlan, vars, database, session
  <2> QED
    BY <2>1, MessagesKept DEF SingleInv, RowsOfPlan, NoRowsLeft, Present
<1>3. ASSUME NEW w \in Worker, PlannerStep(w) \/ CrashPlanner(w)
      PROVE  RowsOfPlan' /\ NoRowsLeft'
  <2>1. UNCHANGED <<pc, cur, dirty>> /\ (job' = "absent" <=> job = "absent")
    BY <1>3, PlannerWrites DEF SingleInv, session
  <2>2. CASE UNCHANGED <<status, mq, inserted>>
    BY <2>1, <2>2, MessagesKept DEF SingleInv, RowsOfPlan, NoRowsLeft, Present
  <2>3. CASE PersistPlan(w) /\ UNCHANGED mq
    <3>1. PICK rows \in Plans :
            /\ inserted' = inserted \cup rows
            /\ status' = [t \in Task |-> IF t \in rows THEN "pending" ELSE status[t]]
      BY <2>3 DEF PersistPlan
    <3>2. job' # "absent"
      BY <2>3 DEF PersistPlan
    <3> QED
      BY <2>1, <2>3, <3>1, <3>2, MessagesKept DEF SingleInv, RowsOfPlan, NoRowsLeft, Present
  <2>4. ASSUME NEW u \in Task, QueueRoot(w, u), UNCHANGED <<mq, inserted>>
        PROVE  RowsOfPlan' /\ NoRowsLeft'
    <3>1. status[u] # "absent" /\ status' = [status EXCEPT ![u] = "queued"]
      BY <2>4 DEF QueueRoot
    <3>2. u \in inserted /\ job # "absent"
      BY <3>1 DEF SingleInv, RowsOfPlan, NoRowsLeft, Present
    <3> QED
      BY <1>t, <2>1, <2>4, <3>1, <3>2, MessagesKept
         DEF SingleInv, RowsOfPlan, NoRowsLeft, Present, TypeInv, TypeOK
  <2>5. CASE SendRoot(w) /\ UNCHANGED <<status, inserted>>
    <3>1. root[w] \in inserted
      BY <2>5 DEF SendRoot, SingleInv, RowsOfPlan, PlatformTypeInv
    <3>2. ASSUME NEW t \in Task, t \notin inserted PROVE ~HasMessage(t)'
      <4>1. ~HasMessage(t) /\ t # root[w]
        BY <3>1, <3>2 DEF SingleInv, RowsOfPlan
      <4> QED
        BY <2>1, <2>5, <4>1, RootMessages DEF HasMessage, InQueue, AboutToSend
    <3> QED
      BY <2>1, <2>5, <3>2 DEF SingleInv, RowsOfPlan, NoRowsLeft, Present
  <2> QED
    BY <1>3, <2>2, <2>3, <2>4, <2>5, PlannerWrites DEF SingleInv
<1> QED
  BY <1>1, <1>2, <1>3, SingleSteps DEF SingleInv

LEMMA NextRootsPending ==
    ASSUME OneProcess, DeliversOnce, SingleInv, [PlatformNext]_allVars
    PROVE  RootsPending'
<1> USE DEF SingleInv, PlatformTypeInv, PlatformTypeOK, GoOn
<1>1. CASE UNCHANGED planning /\ (Api \/ UNCHANGED vars)
  <2>1. UNCHANGED <<mq, pc, cur, dirty, ppc, roots, root>>
    BY <1>1 DEF Api, CancelRead, CancelWrite, DeleteJob, vars, session, planning
  <2>2. status' = status \/ status' = [t \in Task |-> "absent"]
    BY <1>1 DEF Api, CancelRead, CancelWrite, DeleteJob, vars, database
  <2> QED
    BY <2>1, <2>2, MessagesKept DEF RootsPending
<1>2. CASE UNCHANGED planning /\ \A w \in Worker : ppc[w] = "idle"
  BY <1>2 DEF planning, RootsPending
<1>3. CASE SendPlan \/ AbandonCreate \/ LosePlan
  <2>1. UNCHANGED <<status, mq, pc, cur, dirty, ppc, roots, root>>
    BY <1>3 DEF SendPlan, AbandonCreate, LosePlan, vars, database, session
  <2> QED
    BY <2>1, MessagesKept DEF RootsPending
<1>4. ASSUME NEW w \in Worker, ppc'[w] \notin {"persisted", "queueing", "sending"}
      PROVE  RootsPending'
  BY <1>4 DEF OneProcess, RootsPending
<1>5. ASSUME NEW w \in Worker, NEW n \in 0..MaxRetries, StartPlanning(w, n) PROVE RootsPending'
  <2>1. ppc'[w] \in {"idle", "planning"}
    BY <1>5 DEF StartPlanning
  <2> QED
    BY <1>4, <2>1
<1>6. ASSUME NEW w \in Worker,
             \/ RejectPlan(w) \/ BreakPlan(w) \/ RetryPlan(w) \/ StartJob(w)
             \/ AbandonPlan(w) \/ CrashPlanner(w)
      PROVE  RootsPending'
  <2>1. ppc'[w] \in {"idle", "retrying"}
    BY <1>6 DEF RejectPlan, BreakPlan, RetryPlan, StartJob, AbandonPlan, CrashPlanner, FinishPlan
  <2> QED
    BY <1>4, <2>1
<1>7. ASSUME NEW w \in Worker, PersistPlan(w) PROVE RootsPending'
  <2>1. PICK rows \in Plans :
          /\ status' = [t \in Task |-> IF t \in rows THEN "pending" ELSE status[t]]
          /\ roots' = [roots EXCEPT ![w] = rows]
    BY <1>7 DEF PersistPlan
  <2>2. rows \in SUBSET Task /\ ppc'[w] = "persisted"
    BY <1>7, PlansHaveRows DEF PersistPlan
  <2> QED
    BY <2>1, <2>2 DEF OneProcess, RootsPending
<1>8. ASSUME NEW w \in Worker, MarkPlanned(w) PROVE RootsPending'
  <2>1. PICK ready \in RowChoices(roots[w], PlanReady(roots[w])) :
          roots' = [roots EXCEPT ![w] = ready]
    BY <1>8 DEF MarkPlanned
  <2>2. ready \subseteq roots[w] /\ status' = status /\ ppc[w] = "persisted" /\ ppc'[w] = "queueing"
    BY <1>8, <2>1 DEF MarkPlanned, WriteJob, RowChoices
  <2> QED
    BY <2>1, <2>2 DEF OneProcess, RootsPending
<1>9. ASSUME NEW w \in Worker, NEW t \in Task, QueueRoot(w, t) PROVE RootsPending'
  <2>1. status[t] = "pending"
    BY <1>9 DEF QueueRoot, RootsPending
  <2>2. ~HasMessage(t)
    BY <2>1 DEF DeliveryInv, OneMessage, HasMessage
  <2>3. /\ UNCHANGED <<mq, pc, cur, dirty>>
        /\ ppc[w] = "queueing" /\ ppc'[w] = "sending"
        /\ status' = [status EXCEPT ![t] = "queued"]
        /\ roots'[w] = roots[w] \ {t} /\ root'[w] = t
    BY <1>9 DEF QueueRoot, session
  <2>4. status'[t] = "queued" /\ \A u \in Task : u # t => status'[u] = status[u]
    BY <2>3 DEF DeliveryInv, TypeInv, TypeOK
  <2> QED
    BY <2>2, <2>3, <2>4, MessagesKept DEF OneProcess, RootsPending
<1>10. ASSUME NEW w \in Worker, SendRoot(w) PROVE RootsPending'
  BY <1>10 DEF SendRoot, database, OneProcess, RootsPending
<1> QED
  BY <1>1, <1>2, <1>3, <1>5, <1>6, <1>7, <1>8, <1>9, <1>10, SingleSteps DEF PlannerStep

\* While the planner is at work, nobody has read anything.
LEMMA IdleReadsHold ==
    ASSUME OneProcess, SingleInv, UNCHANGED session, NEW w \in Worker, pc[w] = "idle"
    PROVE  ReadsHold' /\ \A v \in Worker : Place(v)'
<1>1. \A v \in Worker : pc'[v] = "idle" /\ dirty'[v] = NoTask /\ own'[v] = "expired"
  BY DEF OneProcess, SingleInv, ReadsHold, DeliveryInv, TypeInv, HandlesRow, session
<1> QED
  BY <1>1 DEF ReadsHold, Place, InvokingTool, Behind

\* The row of the process is left alone, but for what the process does with it.
LEMMA SingleHeldRow ==
    ASSUME OneProcess, SingleInv, [Next]_vars, NEW w \in Worker, pc[w] # "idle",
           ~SkipTask(w), ~ClaimTask(w), ~Succeed(w), ~FailTask(w)
    PROVE  status'[cur[w]] \in {status[cur[w]], "absent"}
<1> DEFINE t == cur[w]
<1> SUFFICES ASSUME status'[t] # status[t] PROVE status'[t] = "absent"
  OBVIOUS
<1>t. TypeInv /\ t \in Task /\ status[t] # "pending" /\ Place(w)
  BY DEF SingleInv, DeliveryInv, TypeInv, HandlesRow, OneMessage
<1>1. ASSUME NEW v \in Worker, NEW u \in Task, Enqueue(v, u), t = dirty[v] PROVE FALSE
  BY <1>t, <1>1, ExecutorAssumption DEF Enqueue, OneProcess, SingleInv, ReadsHold, Place, Behind
<1>2. ASSUME NEW v \in Worker, SkipDownstream(v), t \in batch[v], status[t] # "absent" PROVE FALSE
  BY <1>t, <1>2 DEF SkipDownstream, SingleInv, ReadsHold
<1> QED
  BY <1>t, <1>1, <1>2, RowMoves DEF OneProcess

LEMMA NextReadsHold ==
    ASSUME OneProcess, SingleInv, [Next]_vars, NEW w \in Worker
    PROVE  /\ pc'[w] = "pruning" => \A t \in batch'[w] : status'[t] \in {"pending", "absent"}
           /\ dirty'[w] # NoTask => /\ pc'[w] \in {"enqueuing", "sending"}
                                    /\ status'[dirty'[w]] \in {"queued", "absent"}
<1>t. TypeInv /\ dirty[w] \in Task \cup {NoTask} /\ batch[w] \in SUBSET Task
  BY DEF SingleInv, DeliveryInv, TypeInv, TypeOK
<1>r. /\ pc[w] = "pruning" => \A t \in batch[w] : status[t] \in {"pending", "absent"}
      /\ dirty[w] # NoTask => /\ pc[w] \in {"enqueuing", "sending"}
                              /\ status[dirty[w]] \in {"queued", "absent"}
  BY DEF SingleInv, ReadsHold
<1> USE DEF TypeInv, TypeOK, GoTo
<1>1. ASSUME NEW u \in Task, Enqueue(w, u)
      PROVE  /\ pc'[w] # "pruning"
             /\ dirty'[w] # NoTask => pc'[w] = "sending" /\ status'[dirty'[w]] = "queued"
  BY <1>t, <1>1 DEF Enqueue
<1>2. CASE SkipDownstream(w)
  BY <1>t, <1>r, <1>2 DEF SkipDownstream, Finish
<1>3. CASE ~SkipDownstream(w) /\ \A u \in Task : ~Enqueue(w, u)
  <2>1. ASSUME pc[w] \in {"pruning", "enqueuing", "sending"}, NEW t \in Task
        PROVE  status'[t] \in {status[t], "absent"}
    BY <1>t, <1>3, <2>1, RowMoves DEF OneProcess, SkipTask, ClaimTask, Succeed, FailTask
  <2>2. CASE Closes(w)
    BY <2>2 DEF Closes
  <2>3. CASE Rests(w)
    BY <1>t, <1>r, <2>1, <2>3 DEF Rests
  <2>4. CASE Send(w)
    BY <1>r, <2>4 DEF Send, database
  <2>5. CASE ReadDependents(w)
    BY <1>t, <1>r, <2>5 DEF ReadDependents, database
  <2>n. pc[w] \notin {"enqueuing", "sending"} => dirty[w] = NoTask
    BY <1>r
  <2>6. CASE \E t \in Task, n \in 0..MaxRetries : LoadTask(w, t, n)
    BY <1>t, <2>n, <2>6 DEF LoadTask
  <2>7. CASE Preflight(w) \/ ClaimTask(w) \/ Collect(w) \/ Succeed(w) \/ FailTask(w)
    BY <1>t, <2>n, <2>7 DEF Preflight, ClaimTask, Collect, Succeed, FailTask
  <2>8. CASE Reload(w) \/ ReadJob(w) \/ CompleteJob(w) \/ ReadReady(w)
    BY <1>t, <2>n, <2>8 DEF Reload, ReadJob, CompleteJob, ReadReady
  <2>9. CASE ReadTasks(w) \/ JudgeJob(w)
    <3>1. pc'[w] # "pruning" /\ dirty'[w] = NoTask
      BY <1>t, <2>n, <2>9 DEF ReadTasks, Verdict, JudgeJob, Finish
    <3> QED
      BY <3>1
  <2> QED
    BY <1>t, <1>3, <2>2, <2>3, <2>4, <2>5, <2>6, <2>7, <2>8, <2>9, ProcessMoves
<1> QED
  BY <1>1, <1>2, <1>3

LEMMA NextSingle ==
    OneProcess /\ DeliversOnce /\ SingleInv /\ [PlatformNext]_allVars => SingleInv'
<1> SUFFICES ASSUME OneProcess, DeliversOnce, SingleInv, [PlatformNext]_allVars PROVE SingleInv'
  OBVIOUS
<1>1. PlatformTypeInv' /\ PlannedOnce' /\ PlannerAlone'
  BY NextPlatformTypes, NextPlannedOnce, NextPlannerAlone DEF SingleInv
<1>2. DeliveryInv' /\ RowsOfPlan' /\ NoRowsLeft' /\ RootsPending'
  BY NextSingleDelivery, NextRowsOfPlan, NextRootsPending
<1>3. ReadsHold' /\ \A w \in Worker : Place(w)'
  <2>1. CASE [Next]_vars
    <3>1. ReadsHold'
      BY <2>1, NextReadsHold DEF ReadsHold
    <3>2. ASSUME NEW w \in Worker PROVE Place(w)'
      BY <2>1, SingleHeldRow, NextPlace DEF SingleInv, DeliveryInv
    <3> QED
      BY <3>1, <3>2
  <2>2. CASE SendPlan \/ AbandonCreate \/ LosePlan
    <3>1. UNCHANGED <<status, session>>
      BY <2>2 DEF SendPlan, AbandonCreate, LosePlan, vars, database
    <3> QED
      BY <3>1 DEF SingleInv, ReadsHold, Place, InvokingTool, Behind, session
  <2>3. ASSUME NEW w \in Worker, pc[w] = "idle", PlannerStep(w) \/ CrashPlanner(w)
        PROVE  ReadsHold' /\ \A v \in Worker : Place(v)'
    BY <2>3, PlannerWrites, IdleReadsHold DEF SingleInv
  <2> QED
    BY <2>1, <2>2, <2>3, SingleSteps DEF SingleInv
<1> QED
  BY <1>1, <1>2, <1>3 DEF SingleInv

\* A row with an outcome keeps it.
LEMMA SingleOutcomeStays ==
    ASSUME OneProcess, DeliversOnce, SingleInv, [PlatformNext]_allVars,
           NEW t \in Task, status[t] \in TerminalTask
    PROVE  status'[t] \in {status[t], "absent"}
<1> SUFFICES ASSUME status'[t] # status[t] PROVE status'[t] = "absent"
  OBVIOUS
<1>t. TypeInv
  BY DEF SingleInv, DeliveryInv
<1>1. CASE [Next]_vars
  <2>1. ASSUME NEW w \in Worker, t = cur[w]
        PROVE  ~SkipTask(w) /\ ~ClaimTask(w) /\ ~Succeed(w) /\ ~FailTask(w)
    BY <2>1 DEF SingleInv, Place, SkipTask, ClaimTask, Succeed, FailTask, InvokingTool, TerminalTask
  <2>2. ASSUME NEW w \in Worker, NEW u \in Task, Enqueue(w, u)
        PROVE  t # dirty[w] /\ status[t] # "pending"
    BY <2>2, ExecutorAssumption DEF Enqueue, SingleInv, ReadsHold, TerminalTask
  <2>3. ASSUME NEW w \in Worker, SkipDownstream(w) PROVE t \notin batch[w]
    BY <2>3 DEF SkipDownstream, SingleInv, ReadsHold, TerminalTask
  <2> QED
    BY <1>t, <1>1, <2>1, <2>2, <2>3, RowMoves
<1>2. CASE SendPlan \/ AbandonCreate \/ LosePlan
  BY <1>2 DEF SendPlan, AbandonCreate, LosePlan, vars, database
<1>3. ASSUME NEW w \in Worker, PlannerStep(w) \/ CrashPlanner(w) PROVE FALSE
  <2>1. CASE PersistPlan(w)
    <3>1. t \in inserted
      BY DEF SingleInv, RowsOfPlan, TerminalTask
    <3> QED
      BY <2>1, <3>1 DEF PersistPlan
  <2>2. ASSUME NEW u \in Task, QueueRoot(w, u) PROVE FALSE
    <3>1. status[u] \in {"pending", "absent"} /\ status' = [status EXCEPT ![u] = "queued"]
      BY <2>2 DEF QueueRoot, SingleInv, RootsPending
    <3> QED
      BY <1>t, <3>1 DEF TypeInv, TypeOK, TerminalTask
  <2>3. CASE UNCHANGED status
    BY <2>3
  <2> QED
    BY <1>3, <2>1, <2>2, <2>3, PlannerWrites DEF SingleInv
<1> QED
  BY <1>1, <1>2, <1>3, SingleSteps DEF SingleInv

\* With one process, from the request that creates the job on, a row that has
\* succeeded, failed or been skipped keeps that status (executor.py:21): also when
\* two rows are dispatched together, and whatever the plan looks like.
THEOREM SingleProcessRowsAreFinal ==
    OneProcess /\ DeliversOnce => (PlatformSpec => TaskOutcomeIsFinal)
<1> SUFFICES ASSUME OneProcess, DeliversOnce PROVE PlatformSpec => TaskOutcomeIsFinal
  OBVIOUS
<1>1. PlatformInit => SingleInv
  BY InitSingle
<1>2. SingleInv /\ [PlatformNext]_allVars => SingleInv'
  BY NextSingle
<1>3. SingleInv /\ [PlatformNext]_allVars
         => [\A t \in Task : status[t] \in TerminalTask => status'[t] \in {status[t], "absent"}]_vars
  BY SingleOutcomeStays
<1> QED
  BY <1>1, <1>2, <1>3, PTL DEF PlatformSpec, TaskOutcomeIsFinal

\* The row of a busy process exists as long as the job does.
LEMMA HandledRowExists ==
    ASSUME SingleInv, NEW w \in Worker, pc[w] # "idle"
    PROVE  /\ cur[w] \in inserted
           /\ job # "absent" => status[cur[w]] # "absent"
<1>1. cur[w] \in Task /\ HasMessage(cur[w])
  BY DEF SingleInv, DeliveryInv, TypeInv, HandlesRow, HasMessage
<1> QED
  BY <1>1 DEF SingleInv, RowsOfPlan

\* While the job exists, these facts stay true.
LEMMA SingleFactsStay ==
    ASSUME OneProcess, DeliversOnce, SingleInv, [PlatformNext]_allVars, job' # "absent"
    PROVE  /\ job # "absent"
           /\ SomeFailed => SomeFailed'
           /\ Excused => Excused'
           /\ [Next]_vars /\ NoneFailed => NoneFailed'
<1>t. TypeInv
  BY DEF SingleInv, DeliveryInv
<1>1. job # "absent" /\ (cancel = "accepted" => cancel' = "accepted")
  <2>1. CASE [Next]_vars
    BY <1>t, <2>1, NothingAppears, OtherWriters DEF CancelRead, CancelWrite
  <2>2. CASE PlanningStep
    BY <2>2, PlanningEffects
  <2> QED
    BY <2>1, <2>2, PlatformSteps
<1>2. ASSUME NEW t \in Task, status[t] \in TerminalTask PROVE status'[t] = status[t]
  <2>1. status'[t] # "absent"
    <3>1. CASE [Next]_vars
      BY <1>t, <1>2, <3>1, NothingAppears DEF TerminalTask
    <3>2. CASE PlanningStep
      <4>1. t \in inserted
        BY <1>2 DEF SingleInv, RowsOfPlan, TerminalTask
      <4>2. t \in inserted'
        <5>1. CASE SendPlan \/ AbandonCreate \/ LosePlan
          BY <4>1, <5>1 DEF SendPlan, AbandonCreate, LosePlan
        <5>2. ASSUME NEW w \in Worker, PlannerStep(w) \/ CrashPlanner(w) PROVE t \in inserted'
          BY <4>1, <5>2, PlannerWrites DEF SingleInv, PersistPlan
        <5> QED
          BY <3>2, <4>1, <5>1, <5>2 DEF PlanningStep, RedeliverPlan
      <4> QED
        BY <4>2, NextRowsOfPlan DEF RowsOfPlan
    <3> QED
      BY <3>1, <3>2, PlatformSteps
  <2> QED
    BY <1>2, <2>1, SingleOutcomeStays
<1>3. SomeFailed => SomeFailed'
  BY <1>2 DEF SomeFailed, TerminalTask
<1>4. ASSUME [Next]_vars, NoneFailed PROVE NoneFailed'
  BY <1>t, <1>2, <1>4, NothingAppears DEF NoneFailed, Present, TerminalTask
<1> QED
  BY <1>1, <1>3, <1>4 DEF Excused

\* The job has the outcome that its rows give it, or that of a try of plan_job
\* that failed before there were any.
SingleOutcomes ==
    /\ SingleInv
    /\ job = "failed" => SomeFailed \/ inserted = {}
    /\ job = "succeeded" => /\ NoneFailed
                            /\ inserted # {}
                            /\ \A w \in Worker : pc[w] \in {"idle", "remembering"}
    /\ job = "cancelled" => cancel = "accepted"
    /\ (\E t \in Task : status[t] = "skipped") => Excused
    /\ \A w \in Worker : Justified(w)

LEMMA InitSingleOutcomes == PlatformInit => SingleOutcomes
<1> SUFFICES ASSUME PlatformInit PROVE SingleOutcomes
  OBVIOUS
<1>1. \A t \in Task : status[t] # "skipped"
  BY DEF PlatformInit
<1> QED
  BY <1>1, InitSingle DEF PlatformInit, SingleOutcomes, Justified

\* A process that is idle, or done but for the memory, stays so when every row
\* has an outcome.
LEMMA NothingToLoad ==
    ASSUME TypeInv, [Next]_vars, NEW w \in Worker, pc[w] \in {"idle", "remembering"},
           \A t \in Present : status[t] \in TerminalTask
    PROVE  pc'[w] \in {pc[w], "idle"}
<1>1. ASSUME NEW t \in Task, NEW n \in 0..MaxRetries PROVE ~LoadTask(w, t, n)
  BY DEF LoadTask, Present
<1>2. \A t \in Task : ~Enqueue(w, t)
  BY DEF Enqueue
<1>3. CASE Rests(w) \/ Closes(w)
  BY <1>3 DEF Rests, Closes
<1>4. CASE ~Rests(w) /\ ~Closes(w)
  BY <1>1, <1>2, <1>4, ProcessMoves
     DEF Preflight, ClaimTask, Collect, Succeed, FailTask, Reload, ReadJob, ReadTasks,
         CompleteJob, ReadReady, Send, ReadDependents, SkipDownstream, JudgeJob
<1> QED
  BY <1>3, <1>4

\* Handlers and requests.
LEMMA HandlerOutcomes ==
    ASSUME OneProcess, DeliversOnce, SingleOutcomes, [PlatformNext]_allVars,
           [Next]_vars, UNCHANGED planning
    PROVE  SingleOutcomes'
<1>t. SingleInv /\ SingleInv' /\ TypeInv /\ inserted' = inserted
  BY NextSingle DEF SingleOutcomes, SingleInv, DeliveryInv, planning
<1>f. job' # "absent" => /\ job # "absent"
                         /\ SomeFailed => SomeFailed'
                         /\ NoneFailed => NoneFailed'
                         /\ Excused => Excused'
  BY <1>t, SingleFactsStay
<1>v. ASSUME NEW w \in Worker, CompleteJob(w) \/ FailJob(w)
      PROVE  /\ (job' = "succeeded" /\ NoneFailed) \/ (job' = "failed" /\ SomeFailed)
             /\ inserted # {} /\ pc'[w] \in {"idle", "remembering"}
  <2>1. pc[w] # "idle" /\ job # "absent"
    BY <1>v DEF CompleteJob, FailJob
  <2>2. pc'[w] \in {"idle", "remembering"}
    BY <1>t, <1>v DEF CompleteJob, FailJob, Finish, GoTo, TypeInv, TypeOK
  <2> QED
    BY <1>t, <1>v, <2>1, <2>2, HandledRowExists, VerdictsHold DEF SingleOutcomes, SingleInv
<1>w. job' # job /\ job' \in {"failed", "succeeded"} => \E w \in Worker : CompleteJob(w) \/ FailJob(w)
  BY OtherWriters DEF CancelWrite, DeleteJob
<1>1. job' = "failed" => SomeFailed' \/ inserted' = {}
  BY <1>t, <1>f, <1>v, <1>w DEF SingleOutcomes
<1>2. ASSUME job' = "succeeded"
      PROVE  NoneFailed' /\ inserted' # {} /\ \A w \in Worker : pc'[w] \in {"idle", "remembering"}
  <2>1. CASE job = "succeeded"
    <3>1. \A t \in Present : status[t] \in TerminalTask
      BY <2>1 DEF SingleOutcomes, NoneFailed, TerminalTask
    <3> QED
      BY <1>t, <1>f, <1>2, <2>1, <3>1, NothingToLoad DEF SingleOutcomes
  <2>2. CASE job # "succeeded"
    BY <1>t, <1>f, <1>v, <1>w, <1>2, <2>2 DEF OneProcess
  <2> QED
    BY <2>1, <2>2
<1>3. job' = "cancelled" => cancel' = "accepted"
  <2>1. CASE job' = job
    BY <2>1, OtherWriters DEF SingleOutcomes, CancelRead, CancelWrite
  <2>2. CASE job' # job
    BY <2>2, OtherWriters DEF CompleteJob, FailJob, CancelWrite, DeleteJob
  <2> QED
    BY <2>1, <2>2
<1>4. ASSUME NEW t \in Task, status'[t] = "skipped" PROVE Excused'
  <2>1. job' # "absent"
    BY <1>t, <1>4 DEF SingleInv, NoRowsLeft, Present
  <2>2. Excused
    <3>1. CASE status[t] = "skipped"
      BY <3>1 DEF SingleOutcomes
    <3>2. CASE status[t] # "skipped"
      <4>1. PICK w \in Worker : SkipTask(w) \/ SkipDownstream(w)
        BY <1>t, <1>4, <3>2, RowMoves
      <4>2. CASE SkipTask(w)
        BY <1>f, <2>1, <4>2 DEF SkipTask, SingleOutcomes, Justified
      <4>3. CASE SkipDownstream(w)
        <5>1. pc[w] = "pruning"
          BY <4>3 DEF SkipDownstream
        <5>2. cur[w] \in Task /\ status[cur[w]] = "failed"
          BY <1>t, <1>f, <2>1, <5>1, HandledRowExists DEF SingleInv, Place, TypeInv, HandlesRow
        <5> QED
          BY <5>2 DEF Excused, SomeFailed
      <4> QED
        BY <4>1, <4>2, <4>3
    <3> QED
      BY <3>1, <3>2
  <2> QED
    BY <1>f, <2>1, <2>2
<1>5. ASSUME NEW w \in Worker PROVE Justified(w)'
  <2>1. pc[w] = "loaded" /\ job \in {"failed", "cancelled"} => Excused
    BY <1>t, HandledRowExists DEF SingleOutcomes, Excused
  <2> QED
    BY <1>t, <1>f, <2>1, NextJustified DEF SingleOutcomes, SingleInv
<1> QED
  BY <1>t, <1>1, <1>2, <1>3, <1>4, <1>5 DEF SingleOutcomes

\* plan_job.
LEMMA PlannerOutcomes ==
    ASSUME OneProcess, DeliversOnce, SingleOutcomes, [PlatformNext]_allVars,
           NEW w \in Worker, pc[w] = "idle", PlannerStep(w) \/ CrashPlanner(w)
    PROVE  SingleOutcomes'
<1>t. SingleInv /\ SingleInv'
  BY NextSingle DEF SingleOutcomes
<1>1. /\ UNCHANGED <<session, cancel>>
      /\ \A v \in Worker : pc'[v] = "idle"
  BY <1>t, PlannerWrites DEF SingleInv, OneProcess, session
<1>2. /\ job' \in {"succeeded", "cancelled"} => job' = job
      /\ job' # "succeeded"
      /\ job' = "failed" => inserted' = {}
  <2> USE DEF WriteJob, SingleInv, PlannerAlone, database, vars
  <2>1. CASE \E n \in 0..MaxRetries : StartPlanning(w, n)
    BY <1>t, <2>1 DEF StartPlanning
  <2>2. CASE RejectPlan(w) \/ BreakPlan(w) \/ RetryPlan(w)
    <3>1. inserted' = {}
      BY <1>t, <2>2 DEF RejectPlan, BreakPlan, RetryPlan, PlannedOnce, ToBePlanned
    <3>2. job' \in {job, "failed"} /\ job # "succeeded"
      BY <1>t, <2>2 DEF RejectPlan, BreakPlan, RetryPlan
    <3> QED
      BY <3>1, <3>2
  <2>3. CASE PersistPlan(w) \/ (\E t \in Task : QueueRoot(w, t)) \/ SendRoot(w)
    BY <1>t, <2>3 DEF PersistPlan, QueueRoot, SendRoot
  <2>4. CASE MarkPlanned(w) \/ StartJob(w) \/ AbandonPlan(w)
    BY <2>4 DEF MarkPlanned, StartJob, AbandonPlan
  <2>5. CASE CrashPlanner(w)
    <3>1. ppc[w] # "idle" /\ job' = job /\ inserted' = inserted
      BY <2>5 DEF CrashPlanner
    <3>2. job = "failed" => inserted = {}
      BY <1>t, <3>1 DEF PlannedOnce, ToBePlanned
    <3> QED
      BY <1>t, <3>1, <3>2
  <2> QED
    BY <2>1, <2>2, <2>3, <2>4, <2>5 DEF PlannerStep
<1>3. ASSUME NEW t \in Task, status'[t] = "skipped" PROVE Excused'
  <2>1. status[t] = "skipped"
    <3>1. CASE PersistPlan(w)
      BY <1>3, <3>1 DEF PersistPlan
    <3>2. ASSUME NEW u \in Task, QueueRoot(w, u) PROVE status[t] = "skipped"
      BY <1>t, <1>3, <3>2 DEF QueueRoot, SingleInv, DeliveryInv, TypeInv, TypeOK
    <3>3. CASE UNCHANGED status
      BY <1>3, <3>3
    <3> QED
      BY <1>t, <3>1, <3>2, <3>3, PlannerWrites DEF SingleInv
  <2>2. job' # "absent"
    BY <1>t, <1>3 DEF SingleInv, NoRowsLeft, Present
  <2> QED
    BY <1>t, <2>1, <2>2, SingleFactsStay DEF SingleOutcomes
<1>4. \A v \in Worker : Justified(v)'
  BY <1>1 DEF Justified
<1> QED
  BY <1>t, <1>1, <1>2, <1>3, <1>4 DEF SingleOutcomes

LEMMA NextSingleOutcomes ==
    OneProcess /\ DeliversOnce /\ SingleOutcomes /\ [PlatformNext]_allVars => SingleOutcomes'
<1> SUFFICES ASSUME OneProcess, DeliversOnce, SingleOutcomes, [PlatformNext]_allVars
             PROVE  SingleOutcomes'
  OBVIOUS
<1>1. CASE [Next]_vars /\ UNCHANGED planning
  BY <1>1, HandlerOutcomes
<1>2. CASE SendPlan \/ AbandonCreate \/ LosePlan
  <2>1. UNCHANGED <<job, status, pc, cancel, inserted>>
    BY <1>2 DEF SendPlan, AbandonCreate, LosePlan, vars, database, session
  <2>2. SingleInv'
    BY NextSingle DEF SingleOutcomes
  <2> QED
    BY <2>1, <2>2 DEF SingleOutcomes, SomeFailed, NoneFailed, Excused, Justified, Present
<1>3. ASSUME NEW w \in Worker, pc[w] = "idle", PlannerStep(w) \/ CrashPlanner(w)
      PROVE  SingleOutcomes'
  BY <1>3, PlannerOutcomes
<1> QED
  BY <1>1, <1>2, <1>3, SingleSteps DEF SingleOutcomes, SingleInv

\* With one process, a job that nobody cancelled succeeds only with every row of
\* its plan (executor.py:568), however often planning had to be tried.
THEOREM SingleProcessSuccessIsSound ==
    OneProcess /\ DeliversOnce => (PlatformSpec => []JobSuccessSound)
<1> SUFFICES ASSUME OneProcess, DeliversOnce PROVE PlatformSpec => []JobSuccessSound
  OBVIOUS
<1>1. PlatformInit => SingleOutcomes
  BY InitSingleOutcomes
<1>2. SingleOutcomes /\ [PlatformNext]_allVars => SingleOutcomes'
  BY NextSingleOutcomes
<1>3. SingleOutcomes => JobSuccessSound
  BY DEF SingleOutcomes, JobSuccessSound, SomeFailed, NoneFailed, Excused, Present
<1> QED
  BY <1>1, <1>2, <1>3, PTL DEF PlatformSpec

\* Once the result is stored, the rows have their outcomes and nobody is at work.
MemoryKept ==
    memories = 1 => /\ \A t \in Present : status[t] \in TerminalTask
                    /\ inserted # {}
                    /\ \A w \in Worker : pc[w] = "idle" /\ ppc[w] = "idle"

SingleMemory == SingleOutcomes /\ memories \in {0, 1} /\ MemoryKept

LEMMA NextSingleMemory ==
    OneProcess /\ DeliversOnce /\ SingleMemory /\ [PlatformNext]_allVars => SingleMemory'
<1> SUFFICES ASSUME OneProcess, DeliversOnce, SingleMemory, [PlatformNext]_allVars
             PROVE  SingleMemory'
  OBVIOUS
<1>t. SingleOutcomes /\ SingleOutcomes' /\ SingleInv /\ TypeInv
  BY NextSingleOutcomes DEF SingleMemory, SingleOutcomes, SingleInv, DeliveryInv
<1>1. CASE memories' # memories
  <2>1. PICK w \in Worker : RememberJob(w) /\ UNCHANGED planning
    BY <1>1, PlatformSteps, OtherWriters, PlanningEffects
  <2>2. pc[w] = "remembering" /\ job = "succeeded" /\ memories' = memories + 1 /\ status' = status
    BY <1>1, <2>1 DEF RememberJob, database
  <2>3. memories' = 1
    BY <2>2 DEF SingleMemory, MemoryKept
  <2>4. \A v \in Worker : pc'[v] = "idle" /\ ppc'[v] = "idle"
    <3>1. pc'[w] = "idle"
      BY <1>t, <2>1 DEF RememberJob, Finish, GoTo, TypeInv, TypeOK
    <3>2. ppc'[w] = "idle"
      BY <1>t, <2>1, <2>2 DEF SingleInv, PlannerAlone, planning
    <3> QED
      BY <3>1, <3>2 DEF OneProcess
  <2>5. inserted' # {} /\ \A t \in Present' : status'[t] \in TerminalTask
    BY <1>t, <2>1, <2>2 DEF SingleOutcomes, NoneFailed, Present, TerminalTask, planning
  <2> QED
    BY <1>t, <2>3, <2>4, <2>5 DEF SingleMemory, MemoryKept
<1>2. CASE memories' = memories
  <2> SUFFICES ASSUME memories = 1 PROVE MemoryKept'
    BY <1>t, <1>2 DEF SingleMemory, MemoryKept
  <2>1. /\ \A t \in Present : status[t] \in TerminalTask
        /\ inserted # {}
        /\ \A w \in Worker : pc[w] = "idle" /\ ppc[w] = "idle"
    BY DEF SingleMemory, MemoryKept
  <2>2. CASE [Next]_vars /\ UNCHANGED planning
    <3>1. \A t \in Present' : t \in Present /\ status'[t] = status[t]
      BY <1>t, <2>1, <2>2, NothingAppears, SingleOutcomeStays DEF Present
    <3>2. \A w \in Worker : pc'[w] = "idle"
      BY <1>t, <2>1, <2>2, NothingToLoad
    <3> QED
      BY <2>1, <2>2, <3>1, <3>2 DEF MemoryKept, planning
  <2>3. CASE SendPlan \/ AbandonCreate \/ LosePlan
    <3>1. UNCHANGED <<status, pc, ppc, inserted>>
      BY <2>3 DEF SendPlan, AbandonCreate, LosePlan, vars, database, session
    <3> QED
      BY <2>1, <3>1 DEF MemoryKept, Present
  <2>4. ASSUME NEW w \in Worker, PlannerStep(w) \/ CrashPlanner(w) PROVE FALSE
    <3>1. ~PlanQueued
      BY <1>t, <2>1 DEF SingleInv, PlannedOnce, ToBePlanned
    <3>2. \A n \in 0..MaxRetries : ~StartPlanning(w, n)
      BY <3>1 DEF StartPlanning, PlanQueued
    <3> QED
      BY <2>1, <2>4, <3>2
         DEF PlannerStep, RejectPlan, BreakPlan, RetryPlan, PersistPlan, MarkPlanned, QueueRoot,
             SendRoot, StartJob, AbandonPlan, CrashPlanner
  <2> QED
    BY <1>t, <2>2, <2>3, <2>4, SingleSteps DEF SingleInv
<1> QED
  BY <1>1, <1>2

\* With one process the result of a job is stored at most once, also for a plan
\* with branches: the process that finds the job succeeded is the one that has
\* just completed it (executor.py:248).
THEOREM SingleProcessRemembersOnce ==
    OneProcess /\ DeliversOnce => (PlatformSpec => []JobRememberedOnce)
<1> SUFFICES ASSUME OneProcess, DeliversOnce PROVE PlatformSpec => []JobRememberedOnce
  OBVIOUS
<1>1. PlatformInit => SingleMemory
  BY InitSingleOutcomes DEF PlatformInit, SingleMemory, MemoryKept
<1>2. SingleMemory /\ [PlatformNext]_allVars => SingleMemory'
  BY NextSingleMemory
<1>3. SingleMemory => JobRememberedOnce
  BY DEF SingleMemory, JobRememberedOnce
<1> QED
  BY <1>1, <1>2, <1>3, PTL DEF PlatformSpec
=============================================================================
