--------------------------- MODULE ExecutorProofs ---------------------------
(***************************************************************************)
(* Theorems about Executor, for every plan, every number of processes,     *)
(* every bound on retries and faults and every choice of outcomes.         *)
(***************************************************************************)
EXTENDS Executor, TLAPS

(***************************************************************************)
(* Types                                                                   *)
(***************************************************************************)

\* A process that is not idle handles a row, an idle one caches none, and what
\* is about to be sent is a row.
HandlesRow ==
    \A w \in Worker :
        /\ IF pc[w] = "idle" THEN own[w] = "expired" ELSE cur[w] \in Task
        /\ pc[w] = "sending" => dirty[w] \in Task

TypeInv == TypeOK /\ HandlesRow

LEMMA InitTypes == Init => TypeInv
<1> SUFFICES ASSUME Init PROVE TypeInv
  OBVIOUS
<1>1. TypeOK
  BY ExecutorAssumption
     DEF Init, TypeOK, TaskStatus, JobStatus, Location, Message
<1>2. HandlesRow
  BY DEF Init, HandlesRow
<1> QED BY <1>1, <1>2 DEF TypeInv

\* Closing the session of a process keeps the types of what it consists of.
LEMMA FinishTypes ==
    ASSUME TypeInv, NEW w \in Worker, Finish(w)
    PROVE  /\ pc' \in [Worker -> Location]
           /\ cur' \in [Worker -> Task \cup {NoTask}]
           /\ tries' \in [Worker -> 0..MaxRetries]
           /\ seen' \in [Worker -> Nat]
           /\ own' \in [Worker -> TaskStatus \cup {"expired"}]
           /\ batch' \in [Worker -> SUBSET Task]
           /\ dirty' \in [Worker -> Task \cup {NoTask}]
           /\ HandlesRow'
  BY ExecutorAssumption DEF TypeInv, TypeOK, HandlesRow, Finish, GoTo, Location

\* One more or one less of a message is a multiset of messages again.
LEMMA QueueTypes ==
    ASSUME TypeOK, NEW t \in Task, NEW n \in 0..MaxRetries
    PROVE  /\ Put(t, n) => mq' \in [Message -> Nat]
           /\ Take(t, n) /\ mq[<<t, n>>] > 0 => mq' \in [Message -> Nat]
<1>1. <<t, n>> \in Message
  BY DEF Message
<1>2. mq[<<t, n>>] \in Nat
  BY <1>1 DEF TypeOK
<1>3. CASE Put(t, n)
  BY <1>1, <1>2, <1>3 DEF TypeOK, Put
<1>4. CASE Take(t, n) /\ mq[<<t, n>>] > 0
  <2>1. mq[<<t, n>>] - 1 \in Nat
    BY <1>2, <1>4
  <2> QED BY <1>1, <1>4, <2>1 DEF TypeOK, Take
<1> QED BY <1>3, <1>4

LEMMA NextTypes == TypeInv /\ [Next]_vars => TypeInv'
<1> SUFFICES ASSUME TypeInv, [Next]_vars PROVE TypeInv'
  OBVIOUS
<1> USE DEF TypeInv
<1>1. ASSUME NEW w \in Worker, TakeMessage(w) PROVE TypeInv'
  <2>1. PICK t \in Task, n \in 0..MaxRetries : DropMessage(w, t, n) \/ LoadTask(w, t, n)
    BY <1>1 DEF TakeMessage
  <2>2. CASE DropMessage(w, t, n)
    BY <2>2, QueueTypes DEF DropMessage, TypeOK, HandlesRow, database, session
  <2>3. CASE LoadTask(w, t, n)
    BY <2>3, QueueTypes DEF LoadTask, TypeOK, HandlesRow, GoTo, Location, database
  <2> QED BY <2>1, <2>2, <2>3
<1>2. ASSUME NEW w \in Worker, HandlerStep(w) PROVE TypeInv'
  <2>1. CASE Preflight(w)
    BY <2>1 DEF Preflight, TypeOK, HandlesRow, GoTo, Location, database
  <2>2. CASE SkipTask(w)
    BY <2>2, FinishTypes DEF SkipTask, TypeOK, TaskStatus
  <2>3. CASE ClaimTask(w)
    BY <2>3 DEF ClaimTask, Attempt, TypeOK, HandlesRow, GoTo, Location, TaskStatus
  <2>4. CASE LoseClaim(w)
    BY <2>4, FinishTypes DEF LoseClaim, TypeOK, database
  <2>5. CASE Collect(w)
    BY <2>5 DEF Collect, CollectableRows, TypeOK, HandlesRow, GoTo, Location, database
  <2>6. CASE Succeed(w)
    BY <2>6 DEF Succeed, TypeOK, HandlesRow, GoTo, Location, TaskStatus
  <2>7. CASE FailTask(w)
    BY <2>7 DEF FailTask, TypeOK, HandlesRow, GoTo, Location, TaskStatus
  <2>8. CASE Retry(w)
    <3>1. cur[w] \in Task /\ tries[w] + 1 \in 0..MaxRetries
      BY <2>8, ExecutorAssumption DEF Retry, TypeOK, HandlesRow
    <3>2. mq' \in [Message -> Nat]
      BY <2>8, <3>1, QueueTypes DEF Retry
    <3> QED BY <2>8, <3>2, FinishTypes DEF Retry, TypeOK, database
  <2>9. CASE RowGone(w)
    BY <2>9, FinishTypes DEF RowGone, TypeOK, database
  <2>10. CASE Reload(w)
    BY <2>10 DEF Reload, TypeOK, HandlesRow, GoTo, Location, database
  <2>11. CASE ReadJob(w)
    BY <2>11 DEF ReadJob, TypeOK, HandlesRow, GoTo, Location, database
  <2>12. CASE ReadTasks(w)
    <3>1. Verdict(View(w)) \in Location \ {"idle", "sending"}
      BY DEF Verdict, Location
    <3>2. cur[w] \in Present => View(w)[cur[w]] \in TaskStatus \cup {"expired"}
      BY DEF View, Present, TypeOK
    <3> QED BY <2>12, <3>1, <3>2 DEF ReadTasks, TypeOK, HandlesRow, GoTo, database
  <2>13. CASE CompleteJob(w)
    BY <2>13 DEF CompleteJob, TypeOK, HandlesRow, GoTo, Location, JobStatus
  <2>14. CASE RememberJob(w)
    BY <2>14, FinishTypes DEF RememberJob, TypeOK, database
  <2>15. CASE JobGone(w)
    BY <2>15, FinishTypes DEF JobGone, TypeOK, database
  <2>16. CASE ReadReady(w)
    BY <2>16 DEF ReadReady, RowChoices, Present, TypeOK, HandlesRow, GoTo, Location, database
  <2>17. CASE Send(w)
    <3>1. dirty[w] \in Task /\ 0 \in 0..MaxRetries
      BY <2>17, ExecutorAssumption DEF Send, HandlesRow
    <3>2. mq' \in [Message -> Nat]
      BY <2>17, <3>1, QueueTypes DEF Send
    <3> QED BY <2>17, <3>2 DEF Send, TypeOK, HandlesRow, GoTo, Location, database
  <2>18. CASE EndDispatch(w)
    BY <2>18, FinishTypes DEF EndDispatch, TypeOK, database
  <2>19. ASSUME NEW t \in Task, Enqueue(w, t) PROVE TypeInv'
    BY <2>19 DEF Enqueue, TypeOK, HandlesRow, GoTo, Location, TaskStatus
  <2>20. CASE ReadDependents(w)
    BY <2>20 DEF ReadDependents, RowChoices, Present, TypeOK, HandlesRow, GoTo, Location, database
  <2>21. CASE SkipDownstream(w)
    <3>1. CASE \E t \in batch[w] : status[t] = "absent"
      BY <2>21, <3>1, FinishTypes DEF SkipDownstream, TypeOK
    <3>2. CASE ~\E t \in batch[w] : status[t] = "absent"
      BY <2>21, <3>2 DEF SkipDownstream, TypeOK, HandlesRow, GoTo, Location, TaskStatus
    <3> QED BY <3>1, <3>2
  <2>22. CASE JudgeJob(w)
    <3>1. CASE JobEnded
      BY <2>22, <3>1, FinishTypes DEF JudgeJob, TypeOK, database
    <3>2. CASE ~JobEnded
      BY <2>22, <3>2 DEF JudgeJob, TypeOK, HandlesRow, GoTo, Location, database
    <3> QED BY <3>1, <3>2
  <2>23. CASE FailJob(w)
    BY <2>23, FinishTypes DEF FailJob, TypeOK, JobStatus
  <2> QED BY <1>2, <2>1, <2>2, <2>3, <2>4, <2>5, <2>6, <2>7, <2>8, <2>9, <2>10, <2>11,
             <2>12, <2>13, <2>14, <2>15, <2>16, <2>17, <2>18, <2>19, <2>20, <2>21,
             <2>22, <2>23 DEF HandlerStep
<1>3. CASE Api
  BY <1>3 DEF Api, CancelRead, CancelWrite, DeleteJob, TypeOK, HandlesRow, JobStatus,
              database, session
<1>4. ASSUME NEW w \in Worker, Crash(w) PROVE TypeInv'
  <2>1. cur[w] \in Task /\ tries[w] \in 0..MaxRetries
    BY <1>4 DEF Crash, TypeOK, HandlesRow
  <2>2. mq' \in [Message -> Nat]
    BY <1>4, <2>1, QueueTypes DEF Crash, TypeOK
  <2> QED BY <1>4, <2>2, FinishTypes DEF Crash, TypeOK, database
<1>5. ASSUME NEW w \in Worker, Redeliver(w) PROVE TypeInv'
  <2>1. cur[w] \in Task /\ tries[w] \in 0..MaxRetries
    BY <1>5 DEF Redeliver, TypeOK, HandlesRow
  <2>2. mq' \in [Message -> Nat]
    BY <1>5, <2>1, QueueTypes DEF Redeliver
  <2> QED BY <1>5, <2>2 DEF Redeliver, TypeOK, HandlesRow, database, session
<1>6. CASE UNCHANGED vars
  BY <1>6 DEF vars, database, session, TypeOK, HandlesRow
<1> QED BY <1>1, <1>2, <1>3, <1>4, <1>5, <1>6 DEF Next

\* Every variable keeps its type, whatever the plan, the pool and the faults:
\* in particular no message is taken that is not there, no try goes beyond
\* max_retries and no status is written that the column does not admit.
THEOREM TypeCorrect == Spec => []TypeOK
<1>1. Spec => []TypeInv
  BY InitTypes, NextTypes, PTL DEF Spec
<1> QED BY <1>1, PTL DEF TypeInv

(***************************************************************************)
(* No step runs ahead of its dependencies                                  *)
(*                                                                         *)
(* DependenciesFirst speaks of rows that are queued, running or claimed.   *)
(* What makes it inductive is that a row is released as soon as anything   *)
(* exists that may have it claimed: a message, a process that handles one, *)
(* a row about to be queued or sent, an assignment not yet flushed.  A     *)
(* dependency counts as succeeded only if its output is there, also where  *)
(* a session still holds what it read earlier.                             *)
(***************************************************************************)

\* Once the job is deleted nothing can run any more.
MayRun(t) == job # "absent" => Released(t, output)

ReleasedRows ==
    \A t \in Task :
        status[t] \in {"queued", "running"} \/ attempts[t] > 0 => MayRun(t)

ReleasedMessages ==
    \A t \in Task, n \in 0..MaxRetries : mq[<<t, n>>] > 0 => MayRun(t)

ReleasedWork ==
    \A w \in Worker :
        /\ pc[w] # "idle" => MayRun(cur[w])
        /\ pc[w] \in {"enqueuing", "sending"} => \A t \in batch[w] : MayRun(t)
        /\ dirty[w] \in Task => MayRun(dirty[w])

SucceededHasOutput ==
    /\ \A t \in Task : status[t] = "succeeded" => t \in output
    /\ \A w \in Worker : own[w] = "succeeded" /\ job # "absent" => cur[w] \in output

DeletedIsEmpty ==
    job = "absent" => \A t \in Task : status[t] = "absent" /\ attempts[t] = 0

SafeInv ==
    /\ TypeInv
    /\ ReleasedRows
    /\ ReleasedMessages
    /\ ReleasedWork
    /\ SucceededHasOutput
    /\ DeletedIsEmpty

LEMMA SafeInvImplies == SafeInv => DependenciesFirst
  BY DEF SafeInv, ReleasedRows, DeletedIsEmpty, MayRun, DependenciesFirst, TypeInv, TypeOK

\* A row with the step_id of a ready step is ready itself.
LEMMA ReadyRowsAreRoots ==
    ASSUME ConsistentIds, NEW rows \in RowChoices(Task, ReadySteps), NEW t \in rows
    PROVE  Deps[t] = {}
<1>1. rows \subseteq Task /\ StepsOf(rows) = ReadySteps
  BY DEF RowChoices
<1>2. StepOf[t] \in ReadySteps
  BY <1>1 DEF StepsOf
<1>3. PICK u \in Task : Deps[u] = {} /\ StepOf[u] = StepOf[t]
  BY <1>2 DEF ReadySteps, StepsOf
<1> QED BY <1>1, <1>3 DEF ConsistentIds

LEMMA InitSafe == ConsistentIds /\ Init => SafeInv
<1> SUFFICES ASSUME ConsistentIds, Init PROVE SafeInv
  OBVIOUS
<1>1. TypeInv
  BY InitTypes
<1>2. PICK rows \in RowChoices(Task, ReadySteps) :
        /\ status = [t \in Task |-> IF t \in rows THEN "queued" ELSE "pending"]
        /\ mq = [m \in Message |-> IF m[1] \in rows /\ m[2] = 0 THEN 1 ELSE 0]
  BY DEF Init
<1>3. \A t \in rows : MayRun(t)
  BY ReadyRowsAreRoots DEF MayRun, Released
<1>4. ReleasedRows
  BY <1>2, <1>3 DEF Init, ReleasedRows
<1>5. ReleasedMessages
  <2> SUFFICES ASSUME NEW t \in Task, NEW n \in 0..MaxRetries, mq[<<t, n>>] > 0
               PROVE  MayRun(t)
    BY DEF ReleasedMessages
  <2>1. <<t, n>> \in Message
    BY DEF Message
  <2>2. t \in rows
    BY <1>2, <2>1
  <2> QED BY <1>3, <2>2
<1>6. ReleasedWork
  BY ExecutorAssumption DEF Init, ReleasedWork
<1>7. SucceededHasOutput
  BY <1>2 DEF Init, SucceededHasOutput
<1>8. DeletedIsEmpty
  BY DEF Init, DeletedIsEmpty
<1> QED BY <1>1, <1>4, <1>5, <1>6, <1>7, <1>8 DEF SafeInv

\* Only three steps touch the attempts or the outputs, or delete the job.
LEMMA StepEffects ==
    ASSUME [Next]_vars
    PROVE  \/ UNCHANGED <<attempts, output, job = "absent">>
           \/ \E w \in Worker : ClaimTask(w) \/ Succeed(w)
           \/ DeleteJob
<1>1. ASSUME NEW w \in Worker, TakeMessage(w) PROVE UNCHANGED <<job, attempts, output>>
  BY <1>1 DEF TakeMessage, DropMessage, LoadTask, database
<1>2. ASSUME NEW w \in Worker, HandlerStep(w), ~ClaimTask(w), ~Succeed(w)
      PROVE  UNCHANGED <<attempts, output, job = "absent">>
  <2>1. CASE CompleteJob(w) \/ FailJob(w)
    BY <2>1 DEF CompleteJob, FailJob
  <2>2. CASE Preflight(w) \/ SkipTask(w) \/ LoseClaim(w) \/ Collect(w)
             \/ FailTask(w) \/ Retry(w) \/ RowGone(w) \/ Reload(w) \/ ReadJob(w)
    BY <2>2 DEF Preflight, SkipTask, LoseClaim, Collect, FailTask, Retry,
                RowGone, Reload, ReadJob, database
  <2>3. CASE ReadTasks(w) \/ RememberJob(w) \/ JobGone(w) \/ ReadReady(w) \/ Send(w)
             \/ EndDispatch(w) \/ \E t \in Task : Enqueue(w, t)
    BY <2>3 DEF ReadTasks, RememberJob, JobGone, ReadReady, Send, EndDispatch, Enqueue,
                database
  <2>4. CASE ReadDependents(w) \/ SkipDownstream(w) \/ JudgeJob(w)
    BY <2>4 DEF ReadDependents, SkipDownstream, JudgeJob, database
  <2> QED BY <1>2, <2>1, <2>2, <2>3, <2>4 DEF HandlerStep
<1>3. CASE CancelRead \/ CancelWrite
  BY <1>3 DEF CancelRead, CancelWrite, database
<1>4. ASSUME NEW w \in Worker, Crash(w) \/ Redeliver(w)
      PROVE  UNCHANGED <<job, attempts, output>>
  BY <1>4 DEF Crash, Redeliver, database
<1>5. CASE UNCHANGED vars
  BY <1>5 DEF vars, database
<1> QED BY <1>1, <1>2, <1>3, <1>4, <1>5 DEF Next, Api

\* While the job exists, outputs are only added.
LEMMA OutputGrows ==
    ASSUME [Next]_vars, job' # "absent"
    PROVE  job # "absent" /\ output \subseteq output'
  BY StepEffects DEF ClaimTask, Succeed, DeleteJob

LEMMA MayRunIsStable ==
    ASSUME [Next]_vars
    PROVE  \A t : MayRun(t) => MayRun(t)'
  BY OutputGrows DEF MayRun, Released, StepsOf

\* So whatever may run goes on to be allowed to, and the conjuncts about the
\* queue and the processes need an argument only where a row is added to them.
SessionsSafe == ReleasedWork /\ \A w \in Worker :
                    own[w] = "succeeded" /\ job # "absent" => cur[w] \in output

LEMMA FinishSafe ==
    ASSUME SafeInv, [Next]_vars, NEW w \in Worker, Finish(w)
    PROVE  SessionsSafe'
<1>1. \A v \in Worker : v # w => UNCHANGED <<pc[v], cur[v], own[v], batch[v], dirty[v]>>
  BY DEF Finish, GoTo, SafeInv, TypeInv, TypeOK
<1>2. pc'[w] = "idle" /\ own'[w] = "expired" /\ dirty'[w] = NoTask
  BY DEF Finish, GoTo, SafeInv, TypeInv, TypeOK
<1>3. ReleasedWork'
  BY <1>1, <1>2, MayRunIsStable, ExecutorAssumption DEF SafeInv, ReleasedWork
<1>4. \A v \in Worker : own'[v] = "succeeded" /\ job' # "absent" => cur'[v] \in output'
  BY <1>1, <1>2, OutputGrows DEF SafeInv, SucceededHasOutput
<1> QED BY <1>3, <1>4 DEF SessionsSafe

LEMMA QueueSafe ==
    ASSUME SafeInv, [Next]_vars, NEW t \in Task, NEW n \in 0..MaxRetries,
           (Put(t, n) /\ MayRun(t)) \/ Take(t, n)
    PROVE  ReleasedMessages'
<1> SUFFICES ASSUME NEW u \in Task, NEW k \in 0..MaxRetries, mq'[<<u, k>>] > 0
             PROVE  MayRun(u)'
  BY DEF ReleasedMessages
<1>1. <<u, k>> \in Message /\ mq[<<u, k>>] \in Nat /\ mq \in [Message -> Nat]
  BY DEF Message, SafeInv, TypeInv, TypeOK
<1>2. CASE <<u, k>> = <<t, n>> /\ Put(t, n) /\ MayRun(t)
  BY <1>2, MayRunIsStable
<1>3. CASE ~(<<u, k>> = <<t, n>> /\ Put(t, n) /\ MayRun(t))
  <2>1. mq[<<u, k>>] > 0
    BY <1>1, <1>3 DEF Put, Take
  <2> QED BY <2>1, MayRunIsStable DEF SafeInv, ReleasedMessages
<1> QED BY <1>2, <1>3

RowsSafe ==
    /\ ReleasedRows
    /\ \A t \in Task : status[t] = "succeeded" => t \in output
    /\ DeletedIsEmpty

LEMMA RowsKept ==
    ASSUME SafeInv, [Next]_vars, UNCHANGED <<status, attempts>>,
           job' = "absent" => job = "absent"
    PROVE  RowsSafe'
<1>1. ReleasedRows'
  BY MayRunIsStable DEF SafeInv, ReleasedRows
<1>2. \A t \in Task : status'[t] = "succeeded" => t \in output'
  BY OutputGrows DEF SafeInv, SucceededHasOutput, DeletedIsEmpty
<1>3. DeletedIsEmpty'
  BY DEF SafeInv, DeletedIsEmpty
<1> QED BY <1>1, <1>2, <1>3 DEF RowsSafe

\* A step of process w that leaves the sessions alone but for its own pc.
LEMMA SessionsKept ==
    ASSUME SafeInv, [Next]_vars, NEW w \in Worker,
           UNCHANGED <<cur, own, batch, dirty>>,
           \A v \in Worker : v # w => pc'[v] = pc[v],
           pc[w] # "idle" \/ pc'[w] = "idle",
           pc'[w] \notin {"enqueuing", "sending"} \/ pc[w] \in {"enqueuing", "sending"}
    PROVE  SessionsSafe'
<1>1. ReleasedWork'
  BY MayRunIsStable DEF SafeInv, ReleasedWork
<1>2. \A v \in Worker : own'[v] = "succeeded" /\ job' # "absent" => cur'[v] \in output'
  BY OutputGrows DEF SafeInv, SucceededHasOutput
<1> QED BY <1>1, <1>2 DEF SessionsSafe

LEMMA QueueKept ==
    ASSUME SafeInv, [Next]_vars, UNCHANGED mq
    PROVE  ReleasedMessages'
  BY MayRunIsStable DEF SafeInv, ReleasedMessages

\* The rows that _enqueue_newly_ready picks are released: what the session
\* holds as succeeded has its output, and a step picked has a pending row whose
\* dependencies have all succeeded.
LEMMA PickedRowsMayRun ==
    ASSUME ConsistentIds, SafeInv, NEW w \in Worker, pc[w] = "dispatching",
           NEW rows \in RowChoices(Present,
               NewlyReady(View(w), StepsOf({ t \in Present : View(w)[t] = "succeeded" }))),
           NEW r \in rows
    PROVE  r \in Task /\ MayRun(r)
<1> DEFINE done == { t \in Present : View(w)[t] = "succeeded" }
<1>1. rows \subseteq Present /\ StepsOf(rows) = NewlyReady(View(w), StepsOf(done))
  BY DEF RowChoices
<1>2. r \in Task /\ job # "absent"
  BY <1>1 DEF Present, SafeInv, DeletedIsEmpty
<1>3. done \subseteq output
  BY <1>2 DEF View, Present, SafeInv, SucceededHasOutput
<1>4. StepOf[r] \in NewlyReady(View(w), StepsOf(done))
  BY <1>1 DEF StepsOf
<1>5. DOMAIN View(w) = Present
  BY DEF View
<1>6. PICK u \in Present : StepOf[u] = StepOf[r] /\ Deps[u] \subseteq StepsOf(done)
  BY <1>4, <1>5 DEF NewlyReady, StepsOf
<1>7. Deps[r] = Deps[u]
  BY <1>2, <1>6 DEF ConsistentIds, Present
<1>8. StepsOf(done) \subseteq StepsOf(output)
  BY <1>3 DEF StepsOf
<1> QED BY <1>2, <1>6, <1>7, <1>8 DEF MayRun, Released

LEMMA NextSafe == ConsistentIds /\ SafeInv /\ [Next]_vars => SafeInv'
<1> SUFFICES ASSUME ConsistentIds, SafeInv, [Next]_vars PROVE SafeInv'
  OBVIOUS
<1>1. TypeInv /\ TypeInv'
  BY NextTypes DEF SafeInv
<1>2. SUFFICES RowsSafe' /\ ReleasedMessages' /\ SessionsSafe'
  BY <1>1 DEF SafeInv, RowsSafe, SessionsSafe, SucceededHasOutput
<1>3. \A t : MayRun(t) => MayRun(t)'
  BY MayRunIsStable
<1> USE DEF GoTo
<1>4. ASSUME NEW w \in Worker, NEW t \in Task, NEW n \in 0..MaxRetries,
             DropMessage(w, t, n) \/ LoadTask(w, t, n)
      PROVE  RowsSafe' /\ ReleasedMessages' /\ SessionsSafe'
  <2>1. RowsSafe'
    BY <1>4, RowsKept DEF DropMessage, LoadTask, database
  <2>2. ReleasedMessages'
    BY <1>4, QueueSafe DEF DropMessage, LoadTask
  <2>3. CASE DropMessage(w, t, n)
    BY <2>1, <2>2, <2>3, SessionsKept DEF DropMessage, session
  <2>4. CASE LoadTask(w, t, n)
    <3>1. MayRun(t)
      BY <2>4 DEF LoadTask, SafeInv, ReleasedMessages
    <3>2. ReleasedWork'
      BY <1>1, <1>3, <2>4, <3>1 DEF LoadTask, SafeInv, ReleasedWork, TypeInv, TypeOK
    <3>3. own[w] = "expired"
      BY <2>4 DEF LoadTask, SafeInv, TypeInv, HandlesRow
    <3>4. \A v \in Worker : own'[v] = "succeeded" /\ job' # "absent" => cur'[v] \in output'
      BY <1>1, <2>4, <3>3 DEF LoadTask, SafeInv, SucceededHasOutput, database, TypeInv, TypeOK
    <3> QED BY <2>1, <2>2, <3>2, <3>4 DEF SessionsSafe
  <2> QED BY <1>4, <2>3, <2>4
<1>5. ASSUME NEW w \in Worker, HandlerStep(w)
      PROVE  RowsSafe' /\ ReleasedMessages' /\ SessionsSafe'
  <2>1. CASE Preflight(w) \/ ReadJob(w)
    BY <1>1, <2>1, RowsKept, QueueKept, SessionsKept
       DEF Preflight, ReadJob, database, TypeInv, TypeOK
  <2>2. CASE LoseClaim(w) \/ RowGone(w) \/ RememberJob(w) \/ JobGone(w) \/ EndDispatch(w)
             \/ FailJob(w)
    BY <2>2, RowsKept, QueueKept, FinishSafe
       DEF LoseClaim, RowGone, RememberJob, JobGone, EndDispatch, FailJob, database
  <2>3. CASE JudgeJob(w)
    BY <1>1, <2>3, RowsKept, QueueKept, FinishSafe, SessionsKept
       DEF JudgeJob, database, TypeInv, TypeOK
  <2>4. CASE SkipTask(w)
    <3>1. RowsSafe'
      BY <1>1, <1>3, <2>4 DEF SkipTask, SafeInv, RowsSafe, ReleasedRows,
                  SucceededHasOutput, DeletedIsEmpty, TypeInv, TypeOK
    <3> QED BY <2>4, <3>1, QueueKept, FinishSafe DEF SkipTask
  <2>5. CASE ClaimTask(w)
    <3>1. cur[w] \in Task /\ MayRun(cur[w]) /\ job # "absent"
      BY <1>1, <2>5 DEF ClaimTask, Claimable, SafeInv, ReleasedWork, DeletedIsEmpty,
                        TypeInv, HandlesRow
    <3>2. RowsSafe'
      BY <1>1, <1>3, <2>5, <3>1 DEF ClaimTask, SafeInv, RowsSafe, ReleasedRows,
                  SucceededHasOutput, DeletedIsEmpty, TypeInv, TypeOK
    <3> QED BY <1>1, <2>5, <3>2, QueueKept, SessionsKept DEF ClaimTask, TypeInv, TypeOK
  <2>6. CASE Collect(w)
    <3>1. SessionsSafe'
      BY <1>1, <1>3, <2>6 DEF Collect, SessionsSafe, SafeInv, ReleasedWork,
                  SucceededHasOutput, database, TypeInv, TypeOK
    <3> QED BY <2>6, <3>1, RowsKept, QueueKept DEF Collect, database
  <2>7. CASE Succeed(w)
    <3>1. RowsSafe'
      BY <1>1, <1>3, <2>7 DEF Succeed, SafeInv, RowsSafe, ReleasedRows,
                  SucceededHasOutput, DeletedIsEmpty, TypeInv, TypeOK
    <3>2. SessionsSafe'
      BY <1>1, <1>3, <2>7 DEF Succeed, SessionsSafe, SafeInv, ReleasedWork,
                  SucceededHasOutput, TypeInv, TypeOK
    <3> QED BY <2>7, <3>1, <3>2, QueueKept DEF Succeed
  <2>8. CASE FailTask(w)
    <3>1. RowsSafe'
      BY <1>1, <1>3, <2>8 DEF FailTask, SafeInv, RowsSafe, ReleasedRows,
                  SucceededHasOutput, DeletedIsEmpty, TypeInv, TypeOK
    <3>2. SessionsSafe'
      BY <1>1, <1>3, <2>8 DEF FailTask, SessionsSafe, SafeInv, ReleasedWork,
                  SucceededHasOutput, TypeInv, TypeOK
    <3> QED BY <2>8, <3>1, <3>2, QueueKept DEF FailTask
  <2>9. CASE Retry(w)
    <3>1. cur[w] \in Task /\ tries[w] + 1 \in 0..MaxRetries /\ MayRun(cur[w])
      BY <1>1, <2>9, ExecutorAssumption
         DEF Retry, SafeInv, ReleasedWork, TypeInv, TypeOK, HandlesRow
    <3>2. ReleasedMessages'
      BY <2>9, <3>1, QueueSafe DEF Retry
    <3> QED BY <2>9, <3>2, RowsKept, FinishSafe DEF Retry, database
  <2>10. CASE Reload(w)
    <3>1. \A v \in Worker : own'[v] = "succeeded" /\ job # "absent" => cur[v] \in output
      BY <1>1, <2>10 DEF Reload, SafeInv, SucceededHasOutput, TypeInv, TypeOK, HandlesRow
    <3>2. SessionsSafe'
      BY <1>1, <1>3, <2>10, <3>1 DEF Reload, SessionsSafe, SafeInv, ReleasedWork,
                  database, TypeInv, TypeOK
    <3> QED BY <2>10, <3>2, RowsKept, QueueKept DEF Reload, database
  <2>11. CASE ReadTasks(w)
    <3>1. Verdict(View(w)) \in {"dispatching", "breaking", "completing"}
      BY DEF Verdict
    <3>2. \A v \in Worker : own'[v] = "succeeded" /\ job # "absent" => cur[v] \in output
      BY <1>1, <2>11 DEF ReadTasks, View, Present, SafeInv, SucceededHasOutput, TypeInv, TypeOK
    <3>3. SessionsSafe'
      BY <1>1, <1>3, <2>11, <3>1, <3>2 DEF ReadTasks, SessionsSafe, SafeInv, ReleasedWork,
                  database, TypeInv, TypeOK
    <3> QED BY <2>11, <3>3, RowsKept, QueueKept DEF ReadTasks, database
  <2>12. CASE CompleteJob(w)
    BY <1>1, <2>12, RowsKept, QueueKept, SessionsKept DEF CompleteJob, TypeInv, TypeOK
  <2>13. CASE ReadReady(w)
    <3>1. \A r \in batch'[w] : MayRun(r)
      BY <1>1, <2>13, PickedRowsMayRun DEF ReadReady, TypeInv, TypeOK
    <3>2. SessionsSafe'
      BY <1>1, <1>3, <2>13, <3>1 DEF ReadReady, SessionsSafe, SafeInv, ReleasedWork,
                  SucceededHasOutput, database, TypeInv, TypeOK
    <3> QED BY <2>13, <3>2, RowsKept, QueueKept DEF ReadReady, database
  <2>14. CASE Send(w)
    <3>1. dirty[w] \in Task /\ MayRun(dirty[w]) /\ 0 \in 0..MaxRetries
      BY <1>1, <2>14, ExecutorAssumption DEF Send, SafeInv, ReleasedWork, TypeInv, HandlesRow
    <3>2. ReleasedMessages'
      BY <2>14, <3>1, QueueSafe DEF Send
    <3> QED BY <1>1, <2>14, <3>2, RowsKept, SessionsKept DEF Send, database, TypeInv, TypeOK
  <2>15. ASSUME NEW t \in Task, Enqueue(w, t)
         PROVE  RowsSafe' /\ ReleasedMessages' /\ SessionsSafe'
    <3>1. MayRun(t) /\ (dirty[w] \in Task => MayRun(dirty[w]))
      BY <2>15 DEF Enqueue, SafeInv, ReleasedWork
    <3>2. ReleasedRows'
      BY <1>1, <1>3, <2>15, <3>1 DEF Enqueue, SafeInv, ReleasedRows, TypeInv, TypeOK
    <3>3. \A u \in Task : status'[u] = "succeeded" => u \in output'
      BY <1>1, <2>15 DEF Enqueue, SafeInv, SucceededHasOutput, TypeInv, TypeOK
    <3>4. DeletedIsEmpty'
      BY <1>1, <2>15, ExecutorAssumption
         DEF Enqueue, Enqueueable, SafeInv, DeletedIsEmpty, TypeInv, TypeOK
    <3>5. SessionsSafe'
      <4>1. /\ \A v \in Worker : v # w => UNCHANGED <<pc[v], batch[v], dirty[v]>>
            /\ pc[w] = "enqueuing"
            /\ batch'[w] \subseteq batch[w]
            /\ dirty'[w] \in {t, NoTask}
            /\ UNCHANGED <<job, output, cur, own>>
        BY <1>1, <2>15 DEF Enqueue, TypeInv, TypeOK
      <4>2. ReleasedWork'
        BY <1>3, <3>1, <4>1, ExecutorAssumption DEF SafeInv, ReleasedWork
      <4> QED BY <4>1, <4>2 DEF SessionsSafe, SafeInv, SucceededHasOutput
    <3> QED BY <2>15, <3>2, <3>3, <3>4, <3>5, QueueKept DEF Enqueue, RowsSafe
  <2>16. CASE ReadDependents(w)
    <3>1. SessionsSafe'
      BY <1>1, <1>3, <2>16 DEF ReadDependents, SessionsSafe, SafeInv, ReleasedWork,
                  SucceededHasOutput, database, TypeInv, TypeOK
    <3> QED BY <2>16, <3>1, RowsKept, QueueKept DEF ReadDependents, database
  <2>17. CASE SkipDownstream(w)
    <3>1. CASE \E t \in batch[w] : status[t] = "absent"
      BY <2>17, <3>1, RowsKept, QueueKept, FinishSafe DEF SkipDownstream
    <3>2. CASE ~\E t \in batch[w] : status[t] = "absent"
      <4>1. RowsSafe'
        BY <1>1, <1>3, <2>17, <3>2 DEF SkipDownstream, SafeInv, RowsSafe, ReleasedRows,
                    SucceededHasOutput, DeletedIsEmpty, TypeInv, TypeOK
      <4>2. SessionsSafe'
        BY <1>1, <1>3, <2>17, <3>2 DEF SkipDownstream, SessionsSafe, SafeInv, ReleasedWork,
                    SucceededHasOutput, TypeInv, TypeOK
      <4> QED BY <2>17, <4>1, <4>2, QueueKept DEF SkipDownstream
    <3> QED BY <3>1, <3>2
  <2> QED BY <1>5, <2>1, <2>2, <2>3, <2>4, <2>5, <2>6, <2>7, <2>8, <2>9, <2>10, <2>11,
             <2>12, <2>13, <2>14, <2>15, <2>16, <2>17 DEF HandlerStep
<1>6. CASE CancelRead \/ CancelWrite
  <2>1. UNCHANGED <<status, attempts, output, mq, session>> /\ (job' = "absent" => job = "absent")
    BY <1>6 DEF CancelRead, CancelWrite, database
  <2>2. SessionsSafe'
    BY <1>3, <2>1, OutputGrows
       DEF SessionsSafe, SafeInv, ReleasedWork, SucceededHasOutput, session
  <2> QED BY <2>1, <2>2, RowsKept, QueueKept
<1>7. CASE DeleteJob
  <2>1. RowsSafe'
    BY <1>7 DEF DeleteJob, RowsSafe, ReleasedRows, DeletedIsEmpty, MayRun
  <2>2. SessionsSafe'
    BY <1>3, <1>7 DEF DeleteJob, SessionsSafe, SafeInv, ReleasedWork, session
  <2> QED BY <1>7, <2>1, <2>2, QueueKept DEF DeleteJob
<1>8. ASSUME NEW w \in Worker, Crash(w) \/ Redeliver(w)
      PROVE  RowsSafe' /\ ReleasedMessages' /\ SessionsSafe'
  <2>1. cur[w] \in Task /\ tries[w] \in 0..MaxRetries /\ MayRun(cur[w])
    BY <1>1, <1>8 DEF Crash, Redeliver, SafeInv, ReleasedWork, TypeInv, TypeOK, HandlesRow
  <2>2. ReleasedMessages'
    BY <1>8, <2>1, QueueSafe, QueueKept DEF Crash, Redeliver
  <2>3. RowsSafe'
    BY <1>8, RowsKept DEF Crash, Redeliver, database
  <2>4. SessionsSafe'
    BY <1>8, FinishSafe, SessionsKept DEF Crash, Redeliver, session
  <2> QED BY <2>2, <2>3, <2>4
<1>9. CASE UNCHANGED vars
  <2>1. SessionsSafe'
    BY <1>9 DEF vars, database, session, SessionsSafe, SafeInv, ReleasedWork,
                MayRun, SucceededHasOutput
  <2> QED BY <1>9, <2>1, RowsKept, QueueKept DEF vars, database
<1> QED BY <1>4, <1>5, <1>6, <1>7, <1>8, <1>9 DEF Next, TakeMessage, Api

\* Whatever is redelivered, lost, retried, cancelled or deleted, and however
\* many processes run the handler, no row is queued, running or ever claimed
\* before every step it depends on has left an output.
THEOREM DependenciesHold == ConsistentIds => (Spec => []DependenciesFirst)
<1> SUFFICES ASSUME ConsistentIds PROVE Spec => []DependenciesFirst
  OBVIOUS
<1>1. Init => SafeInv
  BY InitSafe
<1>2. SafeInv /\ [Next]_vars => SafeInv'
  BY NextSafe
<1>3. Spec => []SafeInv
  BY <1>1, <1>2, PTL DEF Spec
<1> QED BY <1>3, SafeInvImplies, PTL

(***************************************************************************)
(* The handler implements Dataflow                                         *)
(***************************************************************************)

\* A process in the tool call has claimed its row, unless the job is gone.
CallsAreClaimed ==
    \A w \in Worker : InvokingTool(w) /\ job # "absent" => attempts[cur[w]] > 0

FlowInv == SafeInv /\ CallsAreClaimed

LEMMA ClaimCounts ==
    ASSUME TypeInv, NEW w \in Worker, ClaimTask(w)
    PROVE  /\ cur[w] \in Task
           /\ attempts'[cur[w]] > 0
           /\ \A t \in Task : t # cur[w] => attempts'[t] = attempts[t]
  BY DEF ClaimTask, Attempt, TypeInv, TypeOK, HandlesRow

LEMMA AttemptsGrow ==
    ASSUME TypeInv, [Next]_vars, job' # "absent", NEW t \in Task, attempts[t] > 0
    PROVE  attempts'[t] > 0
<1>1. ASSUME NEW w \in Worker, ClaimTask(w) PROVE attempts'[t] > 0
  BY <1>1, ClaimCounts
<1>2. ASSUME NEW w \in Worker, Succeed(w) PROVE attempts'[t] > 0
  BY <1>2 DEF Succeed
<1>3. ~DeleteJob
  BY DEF DeleteJob
<1> QED BY <1>1, <1>2, <1>3, StepEffects

\* Only a claim takes a process into the tool call.
LEMMA CallsStartWithClaim ==
    ASSUME TypeInv, [Next]_vars, NEW w \in Worker, InvokingTool(w)', ~ClaimTask(w)
    PROVE  InvokingTool(w) /\ cur'[w] = cur[w]
<1> USE DEF InvokingTool, TypeInv, TypeOK, GoTo
<1>1. ASSUME NEW v \in Worker, TakeMessage(v)
      PROVE  InvokingTool(w) /\ cur'[w] = cur[w]
  BY <1>1 DEF TakeMessage, DropMessage, LoadTask, session
<1>2. ASSUME NEW v \in Worker, v # w, HandlerStep(v)
      PROVE  UNCHANGED <<pc[w], cur[w]>>
  <2>1. CASE Preflight(v) \/ SkipTask(v) \/ ClaimTask(v) \/ LoseClaim(v) \/ Collect(v)
             \/ Succeed(v) \/ FailTask(v) \/ Retry(v) \/ RowGone(v) \/ Reload(v)
    BY <1>2, <2>1 DEF Preflight, SkipTask, ClaimTask, LoseClaim, Collect, Succeed, FailTask,
                Retry, RowGone, Reload, Finish
  <2>2. CASE ReadJob(v) \/ ReadTasks(v) \/ CompleteJob(v) \/ RememberJob(v) \/ JobGone(v)
             \/ ReadReady(v) \/ Send(v) \/ EndDispatch(v) \/ \E t \in Task : Enqueue(v, t)
    BY <1>2, <2>2 DEF ReadJob, ReadTasks, CompleteJob, RememberJob, JobGone, ReadReady, Send,
                EndDispatch, Enqueue, Finish
  <2>3. CASE ReadDependents(v) \/ SkipDownstream(v) \/ JudgeJob(v) \/ FailJob(v)
    BY <1>2, <2>3 DEF ReadDependents, SkipDownstream, JudgeJob, FailJob, Finish
  <2> QED BY <1>2, <2>1, <2>2, <2>3 DEF HandlerStep
<1>3. ASSUME HandlerStep(w)
      PROVE  InvokingTool(w) /\ cur'[w] = cur[w]
  <2>1. CASE Preflight(w) \/ SkipTask(w) \/ LoseClaim(w) \/ Collect(w)
             \/ Succeed(w) \/ FailTask(w) \/ Retry(w) \/ RowGone(w) \/ Reload(w)
    BY <2>1 DEF Preflight, SkipTask, LoseClaim, Collect, Succeed, FailTask,
                Retry, RowGone, Reload, Finish
  <2>2. CASE ReadJob(w) \/ CompleteJob(w) \/ RememberJob(w) \/ JobGone(w)
             \/ ReadReady(w) \/ Send(w) \/ EndDispatch(w) \/ \E t \in Task : Enqueue(w, t)
    BY <2>2 DEF ReadJob, CompleteJob, RememberJob, JobGone, ReadReady, Send,
                EndDispatch, Enqueue, Finish
  <2>3. CASE ReadTasks(w)
    BY <2>3 DEF ReadTasks, Verdict
  <2>4. CASE ReadDependents(w) \/ SkipDownstream(w) \/ JudgeJob(w) \/ FailJob(w)
    BY <2>4 DEF ReadDependents, SkipDownstream, JudgeJob, FailJob, Finish
  <2> QED BY <1>3, <2>1, <2>2, <2>3, <2>4 DEF HandlerStep
<1>4. CASE Api
  BY <1>4 DEF Api, CancelRead, CancelWrite, DeleteJob, session
<1>5. ASSUME NEW v \in Worker, Crash(v) \/ Redeliver(v)
      PROVE  InvokingTool(w) /\ cur'[w] = cur[w]
  BY <1>5 DEF Crash, Redeliver, Finish, session
<1>6. CASE UNCHANGED vars
  BY <1>6 DEF vars, session
<1> QED BY <1>1, <1>2, <1>3, <1>4, <1>5, <1>6 DEF Next

LEMMA NextFlow == ConsistentIds /\ FlowInv /\ [Next]_vars => FlowInv'
<1> SUFFICES ASSUME ConsistentIds, FlowInv, [Next]_vars PROVE FlowInv'
  OBVIOUS
<1>1. SafeInv'
  BY NextSafe DEF FlowInv
<1>2. ASSUME NEW w \in Worker, InvokingTool(w)', job' # "absent"
      PROVE  attempts'[cur'[w]] > 0
  <2>1. CASE ClaimTask(w)
    BY <2>1, ClaimCounts DEF ClaimTask, FlowInv, SafeInv
  <2>2. CASE ~ClaimTask(w)
    <3>1. InvokingTool(w) /\ cur'[w] = cur[w]
      BY <1>2, <2>2, CallsStartWithClaim DEF FlowInv, SafeInv
    <3>2. job # "absent" /\ cur[w] \in Task
      BY <1>2, <3>1, OutputGrows DEF InvokingTool, FlowInv, SafeInv, TypeInv, HandlesRow
    <3> QED BY <1>2, <3>1, <3>2, AttemptsGrow DEF FlowInv, SafeInv, CallsAreClaimed
  <2> QED BY <2>1, <2>2
<1> QED BY <1>1, <1>2 DEF FlowInv, CallsAreClaimed, InvokingTool

LEMMA StepImplementsFlow ==
    FlowInv /\ FlowInv' /\ [Next]_vars => [Promise!FlowNext]_(Promise!flow)
<1> SUFFICES ASSUME FlowInv, FlowInv', [Next]_vars PROVE [Promise!FlowNext]_(Promise!flow)
  OBVIOUS
<1> DEFINE claimed == { t \in Task : attempts[t] > 0 }
<1>1. CASE UNCHANGED <<attempts, output, job = "absent">>
  <2>1. UNCHANGED <<job # "absent", claimed, output>>
    BY <1>1
  <2> QED BY <2>1 DEF Promise!flow
<1>2. ASSUME NEW w \in Worker, ClaimTask(w) PROVE Promise!FlowNext
  <2>1. PICK t \in Task : t = cur[w]
    BY <1>2, ClaimCounts DEF FlowInv, SafeInv
  <2>2. claimed' = claimed \cup {t}
    BY <1>2, <2>1, ClaimCounts DEF FlowInv, SafeInv
  <2>3. job # "absent" /\ UNCHANGED <<job, output>>
    BY <1>2, <2>1 DEF ClaimTask, Claimable, FlowInv, SafeInv, DeletedIsEmpty
  <2>4. Released(t, output)
    BY <1>2, <2>1, <2>3 DEF ClaimTask, MayRun, FlowInv, SafeInv, ReleasedWork
  <2>5. Promise!Start(t)
    BY <2>2, <2>3, <2>4 DEF Promise!Start, Promise!Released, Promise!StepsOf, Released, StepsOf
  <2> QED BY <2>5 DEF Promise!FlowNext
<1>3. ASSUME NEW w \in Worker, Succeed(w) PROVE Promise!FlowNext
  <2>1. cur[w] \in Task /\ job # "absent"
    BY <1>3 DEF Succeed, FlowInv, SafeInv, TypeInv, HandlesRow, DeletedIsEmpty
  <2>2. cur[w] \in claimed
    BY <1>3, <2>1 DEF Succeed, InvokingTool, FlowInv, CallsAreClaimed
  <2>3. output' = output \cup {cur[w]} /\ UNCHANGED <<job, attempts>>
    BY <1>3 DEF Succeed
  <2>4. Promise!Produce(cur[w])
    BY <2>1, <2>2, <2>3 DEF Promise!Produce
  <2> QED BY <2>1, <2>4 DEF Promise!FlowNext
<1>4. CASE DeleteJob
  <2>1. claimed' = {} /\ job' = "absent" /\ output' = {}
    BY <1>4 DEF DeleteJob
  <2>2. Promise!Discard
    BY <2>1 DEF Promise!Discard
  <2> QED BY <2>2 DEF Promise!FlowNext
<1> QED BY <1>1, <1>2, <1>3, <1>4, StepEffects

\* The handler and the API implement Dataflow: a step starts only when its
\* dependencies have produced, only a step that was started produces, and a
\* deleted job takes everything with it, for good.
THEOREM Refinement == ConsistentIds => (Spec => ImplementsDataflow)
<1> SUFFICES ASSUME ConsistentIds PROVE Spec => ImplementsDataflow
  OBVIOUS
<1>1. Init => FlowInv
  BY InitSafe DEF Init, FlowInv, CallsAreClaimed, InvokingTool
<1>2. FlowInv /\ [Next]_vars => FlowInv'
  BY NextFlow
<1>3. Init => Promise!FlowInit
  BY DEF Init, Promise!FlowInit
<1>4. FlowInv /\ FlowInv' /\ [Next]_vars => [Promise!FlowNext]_(Promise!flow)
  BY StepImplementsFlow
<1> QED BY <1>1, <1>2, <1>3, <1>4, PTL DEF Spec, ImplementsDataflow, Promise!FlowSpec

(***************************************************************************)
(* Rows are announced once, unless the broker redelivers                   *)
(***************************************************************************)

\* The broker delivers no message a second time.
DeliversOnce == {"redelivered", "duplicate"} \cap FaultKinds = {}

AboutToSend(w, t) == pc[w] = "sending" /\ dirty[w] = t
InQueue(t) == \E n \in 0..MaxRetries : mq[<<t, n>>] > 0

\* The message of a row is in one place: once in the queue, with one process
\* that handles it, or with one that is about to send it; and a row with a
\* message is no longer pending.
OneMessage(t) ==
    /\ \A n \in 0..MaxRetries :
          /\ mq[<<t, n>>] <= 1
          /\ \A m \in 0..MaxRetries : mq[<<t, n>>] > 0 /\ mq[<<t, m>>] > 0 => m = n
    /\ InQueue(t) => \A w \in Worker : cur[w] # t /\ ~AboutToSend(w, t)
    /\ \A v, w \in Worker : cur[v] = t => ~AboutToSend(w, t)
    /\ \A v, w \in Worker : v # w /\ cur[v] = t => cur[w] # t
    /\ \A v, w \in Worker : v # w /\ AboutToSend(v, t) => ~AboutToSend(w, t)
    /\ InQueue(t) \/ (\E w \in Worker : cur[w] = t \/ AboutToSend(w, t))
          => status[t] # "pending"

DeliveryInv == TypeInv /\ \A t \in Task : OneMessage(t)

LEMMA DeliveryInvImplies == DeliveryInv => OneDelivery /\ SingleRunner
<1> SUFFICES ASSUME DeliveryInv PROVE OneDelivery /\ SingleRunner
  OBVIOUS
<1>1. OneDelivery
  BY DEF DeliveryInv, OneMessage, OneDelivery, InQueue
<1>2. SingleRunner
  BY DEF DeliveryInv, OneMessage, SingleRunner, InvokingTool, TypeInv, HandlesRow
<1> QED
  BY <1>1, <1>2

LEMMA InitDelivery == Init => DeliveryInv
<1> SUFFICES ASSUME Init PROVE DeliveryInv
  OBVIOUS
<1>1. PICK roots \in RowChoices(Task, ReadySteps) :
          /\ status = [t \in Task |-> IF t \in roots THEN "queued" ELSE "pending"]
          /\ mq = [m \in Message |-> IF m[1] \in roots /\ m[2] = 0 THEN 1 ELSE 0]
  BY DEF Init
<1>2. ASSUME NEW t \in Task, NEW n \in 0..MaxRetries
      PROVE  /\ mq[<<t, n>>] = IF t \in roots /\ n = 0 THEN 1 ELSE 0
             /\ status[t] = IF t \in roots THEN "queued" ELSE "pending"
  BY <1>1 DEF Message
<1>3. \A w \in Worker : cur[w] = NoTask /\ pc[w] = "idle"
  BY DEF Init
<1>4. ASSUME NEW t \in Task PROVE OneMessage(t)
  <2>1. \A w \in Worker : cur[w] # t /\ ~AboutToSend(w, t)
    BY <1>3, ExecutorAssumption DEF AboutToSend
  <2>2. InQueue(t) => t \in roots
    <3>1. \A n \in 0..MaxRetries : mq[<<t, n>>] > 0 => t \in roots
      BY <1>2
    <3> QED
      BY <3>1 DEF InQueue
  <2>3. \A n \in 0..MaxRetries : mq[<<t, n>>] <= 1
    BY <1>2
  <2>4. \A n, m \in 0..MaxRetries : mq[<<t, n>>] > 0 /\ mq[<<t, m>>] > 0 => m = n
    <3>1. \A n \in 0..MaxRetries : mq[<<t, n>>] > 0 => n = 0
      BY <1>2
    <3> QED
      BY <3>1
  <2>5. t \in roots => status[t] # "pending"
    BY <1>1
  <2> QED
    BY <2>1, <2>2, <2>3, <2>4, <2>5 DEF OneMessage
<1> QED
  BY <1>4, InitTypes DEF DeliveryInv

\* Only these steps write the status of a row.
LEMMA StatusWriters ==
    ASSUME [Next]_vars
    PROVE  \/ status' = status
           \/ \E w \in Worker : SkipTask(w) \/ ClaimTask(w) \/ Succeed(w) \/ FailTask(w)
           \/ \E w \in Worker, u \in Task : Enqueue(w, u)
           \/ \E w \in Worker : SkipDownstream(w)
           \/ DeleteJob
<1>1. ASSUME NEW w \in Worker, TakeMessage(w) PROVE status' = status
  BY <1>1 DEF TakeMessage, DropMessage, LoadTask, database
<1>2. ASSUME NEW w \in Worker,
             \/ Preflight(w) \/ LoseClaim(w) \/ Collect(w) \/ Retry(w) \/ RowGone(w)
             \/ Reload(w) \/ ReadJob(w) \/ ReadTasks(w) \/ CompleteJob(w) \/ RememberJob(w)
      PROVE  status' = status
  BY <1>2 DEF Preflight, LoseClaim, Collect, Retry, RowGone, Reload, ReadJob, ReadTasks,
              CompleteJob, RememberJob, database
<1>3. ASSUME NEW w \in Worker,
             \/ JobGone(w) \/ ReadReady(w) \/ Send(w) \/ EndDispatch(w)
             \/ ReadDependents(w) \/ JudgeJob(w) \/ FailJob(w)
             \/ Crash(w) \/ Redeliver(w)
      PROVE  status' = status
  BY <1>3 DEF JobGone, ReadReady, Send, EndDispatch, ReadDependents, JudgeJob, FailJob,
              Crash, Redeliver, database
<1>4. CASE CancelRead \/ CancelWrite \/ UNCHANGED vars
  BY <1>4 DEF CancelRead, CancelWrite, vars, database
<1> QED
  BY <1>1, <1>2, <1>3, <1>4 DEF Next, HandlerStep, Api

\* No step makes a row pending.
LEMMA NeverPendingAgain ==
    ASSUME TypeInv, [Next]_vars, NEW t \in Task, status'[t] = "pending"
    PROVE  status[t] = "pending"
<1> USE DEF TypeInv, TypeOK
<1>1. CASE \E w \in Worker : SkipTask(w) \/ ClaimTask(w) \/ Succeed(w) \/ FailTask(w)
  BY <1>1 DEF SkipTask, ClaimTask, Succeed, FailTask
<1>2. CASE \E w \in Worker, u \in Task : Enqueue(w, u)
  BY <1>2 DEF Enqueue
<1>3. CASE \E w \in Worker : SkipDownstream(w)
  BY <1>3 DEF SkipDownstream
<1>4. CASE DeleteJob
  BY <1>4 DEF DeleteJob
<1> QED
  BY <1>1, <1>2, <1>3, <1>4, StatusWriters

\* A step that sends nothing, and after which no process handles or is about to
\* send a row that it did not before.
LEMMA QuietDelivery ==
    ASSUME DeliveryInv, TypeInv', [Next]_vars, NEW t \in Task,
           \A n \in 0..MaxRetries : mq'[<<t, n>>] \in Nat /\ mq'[<<t, n>>] <= mq[<<t, n>>],
           \A w \in Worker : cur'[w] = t => cur[w] = t,
           \A w \in Worker : AboutToSend(w, t)' => AboutToSend(w, t)
    PROVE  OneMessage(t)'
<1>1. OneMessage(t)
  BY DEF DeliveryInv
<1>2. \A n \in 0..MaxRetries : mq[<<t, n>>] \in Nat
  BY DEF DeliveryInv, TypeInv, TypeOK, Message
<1>3. InQueue(t)' => InQueue(t)
  BY <1>2 DEF InQueue
<1>4. status'[t] = "pending" => status[t] = "pending"
  BY NeverPendingAgain DEF DeliveryInv
<1>5. \A n \in 0..MaxRetries : /\ mq'[<<t, n>>] <= 1
                               /\ mq'[<<t, n>>] > 0 => mq[<<t, n>>] > 0
  BY <1>1, <1>2 DEF OneMessage
<1>6. \A n, m \in 0..MaxRetries : mq'[<<t, n>>] > 0 /\ mq'[<<t, m>>] > 0 => m = n
  BY <1>1, <1>5 DEF OneMessage
<1>7. InQueue(t)' \/ (\E w \in Worker : cur'[w] = t \/ AboutToSend(w, t)')
          => status'[t] # "pending"
  BY <1>1, <1>3, <1>4 DEF OneMessage
<1> QED
  BY <1>1, <1>3, <1>5, <1>6, <1>7 DEF OneMessage

\* A message is taken from the queue, by a process that was idle.
LEMMA LoadDelivery ==
    ASSUME DeliveryInv, TypeInv', [Next]_vars, NEW w \in Worker, NEW u \in Task,
           NEW k \in 0..MaxRetries, LoadTask(w, u, k), NEW t \in Task
    PROVE  OneMessage(t)'
<1>1. OneMessage(t) /\ \A n \in 0..MaxRetries : mq[<<t, n>>] \in Nat /\ <<t, n>> \in Message
  BY DEF DeliveryInv, TypeInv, TypeOK, Message
<1>2. mq[<<u, k>>] > 0 /\ mq' = [mq EXCEPT ![<<u, k>>] = @ - 1]
      /\ status' = status /\ dirty' = dirty
  BY DEF LoadTask, Take, database
<1>3. cur'[w] = u /\ pc'[w] = "loaded"
      /\ \A v \in Worker : v # w => cur'[v] = cur[v] /\ pc'[v] = pc[v]
  BY DEF LoadTask, GoTo, DeliveryInv, TypeInv, TypeOK
<1>4. \A v \in Worker : AboutToSend(v, t)' => AboutToSend(v, t) /\ v # w
  BY <1>2, <1>3 DEF AboutToSend
<1>5. \A n \in 0..MaxRetries : /\ mq'[<<t, n>>] = IF t = u /\ n = k THEN mq[<<t, n>>] - 1
                                                  ELSE mq[<<t, n>>]
  BY <1>1, <1>2 DEF DeliveryInv, TypeInv, TypeOK
<1>6. CASE t # u
  <2>1. \A n \in 0..MaxRetries : mq'[<<t, n>>] \in Nat /\ mq'[<<t, n>>] <= mq[<<t, n>>]
    BY <1>1, <1>5, <1>6
  <2>2. \A v \in Worker : cur'[v] = t => cur[v] = t
    BY <1>3, <1>6
  <2> QED
    BY <1>4, <2>1, <2>2, QuietDelivery
<1>7. CASE t = u
  <2>1. mq[<<t, k>>] = 1 /\ InQueue(t)
    <3>1. mq[<<t, k>>] \in Nat /\ mq[<<t, k>>] > 0 /\ mq[<<t, k>>] <= 1
      BY <1>1, <1>2, <1>7 DEF OneMessage
    <3> QED
      BY <3>1 DEF InQueue
  <2>2. ASSUME NEW n \in 0..MaxRetries PROVE mq'[<<t, n>>] = 0
    <3>1. CASE n = k
      BY <1>5, <1>7, <2>1, <3>1
    <3>2. CASE n # k
      <4>1. ~(mq[<<t, n>>] > 0)
        BY <1>1, <2>1, <3>2 DEF OneMessage
      <4> QED
        BY <1>1, <1>5, <3>2, <4>1
    <3> QED
      BY <3>1, <3>2
  <2>3. ~InQueue(t)'
    <3>1. \A n \in 0..MaxRetries : ~(mq'[<<t, n>>] > 0)
      BY <2>2
    <3> QED
      BY <3>1 DEF InQueue
  <2>4. \A v \in Worker : v # w => cur'[v] # t
    <3>1. \A v \in Worker : cur[v] # t
      BY <1>1, <2>1 DEF OneMessage
    <3> QED
      BY <1>3, <3>1
  <2>5. \A v \in Worker : ~AboutToSend(v, t)'
    BY <1>1, <1>4, <2>1 DEF OneMessage
  <2>6. status'[t] # "pending"
    BY <1>1, <1>2, <2>1 DEF OneMessage
  <2> QED
    BY <2>2, <2>3, <2>4, <2>5, <2>6 DEF OneMessage
<1> QED
  BY <1>6, <1>7

\* A message is sent, by the process that alone was about to send it or that
\* handled the row until now.
LEMMA SendDelivery ==
    ASSUME DeliveryInv, TypeInv', [Next]_vars, NEW w \in Worker, NEW u \in Task,
           NEW k \in 0..MaxRetries, Put(u, k), status' = status,
           AboutToSend(w, u) \/ cur[w] = u,
           \A v \in Worker : v # w => UNCHANGED <<pc[v], cur[v], dirty[v]>>,
           pc'[w] # "sending",
           cur'[w] \in {cur[w], NoTask} /\ cur'[w] # u,
           NEW t \in Task
    PROVE  OneMessage(t)'
<1>1. OneMessage(t) /\ \A n \in 0..MaxRetries : mq[<<t, n>>] \in Nat /\ <<t, n>> \in Message
  BY DEF DeliveryInv, TypeInv, TypeOK, Message
<1>2. \A n \in 0..MaxRetries : mq'[<<t, n>>] = IF t = u /\ n = k THEN mq[<<t, n>>] + 1
                                               ELSE mq[<<t, n>>]
  BY <1>1 DEF Put, DeliveryInv, TypeInv, TypeOK
<1>3. \A v \in Worker : AboutToSend(v, t)' => AboutToSend(v, t) /\ v # w
  BY DEF AboutToSend
<1>4. \A v \in Worker : cur'[v] = t => cur[v] = t
  BY ExecutorAssumption
<1>5. CASE t # u
  <2>1. \A n \in 0..MaxRetries : mq'[<<t, n>>] \in Nat /\ mq'[<<t, n>>] <= mq[<<t, n>>]
    BY <1>1, <1>2, <1>5
  <2> QED
    BY <1>3, <1>4, <2>1, QuietDelivery
<1>6. CASE t = u
  <2>1. ~InQueue(t) /\ status[t] # "pending"
    BY <1>1, <1>6 DEF OneMessage
  <2>2. \A v \in Worker : ~AboutToSend(v, t)'
    BY <1>1, <1>3, <1>6 DEF OneMessage
  <2>3. \A v \in Worker : cur'[v] # t
    BY <1>1, <1>6 DEF OneMessage
  <2>4. \A n \in 0..MaxRetries : mq[<<t, n>>] = 0
    BY <1>1, <2>1 DEF InQueue
  <2>5. \A n \in 0..MaxRetries : mq'[<<t, n>>] = IF n = k THEN 1 ELSE 0
    BY <1>2, <1>6, <2>4
  <2>6. \A n \in 0..MaxRetries : mq'[<<t, n>>] <= 1 /\ (mq'[<<t, n>>] > 0 => n = k)
    BY <2>5
  <2>7. \A n, m \in 0..MaxRetries : mq'[<<t, n>>] > 0 /\ mq'[<<t, m>>] > 0 => m = n
    BY <2>6
  <2>8. status'[t] # "pending"
    BY <2>1
  <2> QED
    BY <2>2, <2>3, <2>6, <2>7, <2>8 DEF OneMessage
<1> QED
  BY <1>5, <1>6

\* A pending row is queued, by one process, which is about to send its message.
LEMMA EnqueueDelivery ==
    ASSUME DeliveryInv, TypeInv', [Next]_vars, NEW w \in Worker, NEW u \in Task,
           Enqueue(w, u), NEW t \in Task
    PROVE  OneMessage(t)'
<1>1. OneMessage(t) /\ \A n \in 0..MaxRetries : mq[<<t, n>>] \in Nat
  BY DEF DeliveryInv, TypeInv, TypeOK, Message
<1>2. mq' = mq /\ cur' = cur
  BY DEF Enqueue
<1>3. \A v \in Worker : v # w => UNCHANGED <<pc[v], dirty[v]>>
  BY DEF Enqueue, GoTo, DeliveryInv, TypeInv, TypeOK
<1>4. pc[w] = "enqueuing" /\ pc'[w] \in {"enqueuing", "sending"}
      /\ (pc'[w] = "sending" => Enqueueable(u) /\ dirty'[w] = u)
  BY DEF Enqueue, GoTo, DeliveryInv, TypeInv, TypeOK
<1>5. \A v \in Worker : AboutToSend(v, t)' => AboutToSend(v, t) \/ (v = w /\ t = u)
  BY <1>3, <1>4 DEF AboutToSend
<1>6. CASE t = u /\ pc'[w] = "sending"
  <2>1. status[t] = "pending"
    BY <1>4, <1>6 DEF Enqueueable
  <2>2. ~InQueue(t) /\ \A v \in Worker : cur[v] # t /\ ~AboutToSend(v, t)
    BY <1>1, <2>1 DEF OneMessage
  <2>3. status'[t] = "queued"
    BY <1>6, <2>1 DEF Enqueue, Enqueueable
  <2>4. ~InQueue(t)'
    BY <1>2, <2>2 DEF InQueue
  <2>5. \A v \in Worker : AboutToSend(v, t)' => v = w
    BY <1>5, <2>2
  <2> QED
    BY <1>1, <1>2, <2>2, <2>3, <2>4, <2>5 DEF OneMessage
<1>7. CASE ~(t = u /\ pc'[w] = "sending")
  <2>1. \A v \in Worker : AboutToSend(v, t)' => AboutToSend(v, t)
    BY <1>5, <1>7 DEF AboutToSend
  <2>2. \A n \in 0..MaxRetries : mq'[<<t, n>>] \in Nat /\ mq'[<<t, n>>] <= mq[<<t, n>>]
    BY <1>1, <1>2
  <2> QED
    BY <1>2, <2>1, <2>2, QuietDelivery
<1> QED
  BY <1>6, <1>7

\* The other steps of a process, and those of the API.
LEMMA OtherStepsAreQuiet ==
    ASSUME TypeInv, NEW w \in Worker, HandlerStep(w),
           ~Retry(w), ~Send(w), \A u \in Task : ~Enqueue(w, u)
    PROVE  /\ mq' = mq
           /\ \A v \in Worker : v # w => UNCHANGED <<pc[v], cur[v], dirty[v]>>
           /\ cur'[w] \in {cur[w], NoTask}
           /\ pc'[w] # "sending"
<1> USE DEF TypeInv, TypeOK, GoTo
<1>1. CASE Preflight(w) \/ ClaimTask(w) \/ Collect(w) \/ Succeed(w) \/ FailTask(w)
  BY <1>1 DEF Preflight, ClaimTask, Collect, Succeed, FailTask
<1>2. CASE SkipTask(w) \/ LoseClaim(w) \/ RowGone(w) \/ RememberJob(w) \/ JobGone(w)
           \/ EndDispatch(w) \/ FailJob(w)
  BY <1>2 DEF SkipTask, LoseClaim, RowGone, RememberJob, JobGone, EndDispatch, FailJob, Finish
<1>3. CASE Reload(w) \/ ReadJob(w) \/ CompleteJob(w) \/ ReadReady(w) \/ ReadDependents(w)
  BY <1>3 DEF Reload, ReadJob, CompleteJob, ReadReady, ReadDependents
<1>4. CASE ReadTasks(w)
  BY <1>4 DEF ReadTasks, Verdict
<1>5. CASE SkipDownstream(w)
  BY <1>5 DEF SkipDownstream, Finish
<1>6. CASE JudgeJob(w)
  BY <1>6 DEF JudgeJob, Finish
<1> QED
  BY <1>1, <1>2, <1>3, <1>4, <1>5, <1>6 DEF HandlerStep

LEMMA NextDelivery ==
    DeliversOnce /\ DeliveryInv /\ [Next]_vars => DeliveryInv'
<1> SUFFICES ASSUME DeliversOnce, DeliveryInv, [Next]_vars, NEW t \in Task
             PROVE  OneMessage(t)'
  BY NextTypes DEF DeliveryInv
<1>t. TypeInv' /\ \A n \in 0..MaxRetries : mq[<<t, n>>] \in Nat
  BY NextTypes DEF DeliveryInv, TypeInv, TypeOK, Message
<1>q. ASSUME mq' = mq, NEW w \in Worker,
             \A v \in Worker : v # w => UNCHANGED <<pc[v], cur[v], dirty[v]>>,
             cur'[w] \in {cur[w], NoTask}, pc'[w] # "sending"
      PROVE  OneMessage(t)'
  <2>1. \A v \in Worker : /\ cur'[v] = t => cur[v] = t
                          /\ AboutToSend(v, t)' => AboutToSend(v, t)
    BY <1>q, ExecutorAssumption DEF AboutToSend
  <2> QED
    BY <1>t, <1>q, <2>1, QuietDelivery
<1>1. ASSUME NEW w \in Worker, TakeMessage(w) PROVE OneMessage(t)'
  <2>1. PICK u \in Task, k \in 0..MaxRetries : DropMessage(w, u, k) \/ LoadTask(w, u, k)
    BY <1>1 DEF TakeMessage
  <2>2. CASE DropMessage(w, u, k)
    <3>1. mq' = [mq EXCEPT ![<<u, k>>] = @ - 1] /\ mq[<<u, k>>] > 0 /\ UNCHANGED session
      BY <2>2 DEF DropMessage, Take
    <3>2. ASSUME NEW n \in 0..MaxRetries
          PROVE  mq'[<<t, n>>] <= mq[<<t, n>>] /\ mq'[<<t, n>>] \in Nat
      <4>1. <<t, n>> \in Message /\ mq[<<t, n>>] \in Nat /\ mq'[<<t, n>>] \in Nat
        BY <1>t DEF DeliveryInv, TypeInv, TypeOK, Message
      <4>2. mq'[<<t, n>>] = IF <<t, n>> = <<u, k>> THEN mq[<<t, n>>] - 1 ELSE mq[<<t, n>>]
        BY <3>1, <4>1 DEF DeliveryInv, TypeInv, TypeOK
      <4> QED
        BY <4>1, <4>2
    <3> QED
      BY <1>t, <3>1, <3>2, QuietDelivery DEF session, AboutToSend
  <2>3. CASE LoadTask(w, u, k)
    BY <1>t, <2>3, LoadDelivery
  <2> QED
    BY <2>1, <2>2, <2>3
<1>2. ASSUME NEW w \in Worker, HandlerStep(w) PROVE OneMessage(t)'
  <2>1. CASE Retry(w)
    <3>1. cur[w] \in Task /\ tries[w] + 1 \in 0..MaxRetries
      BY <2>1, ExecutorAssumption DEF Retry, DeliveryInv, TypeInv, TypeOK, HandlesRow
    <3>2. /\ Put(cur[w], tries[w] + 1) /\ status' = status
          /\ \A v \in Worker : v # w => UNCHANGED <<pc[v], cur[v], dirty[v]>>
          /\ pc'[w] = "idle" /\ cur'[w] = NoTask
      BY <2>1 DEF Retry, Finish, GoTo, database, DeliveryInv, TypeInv, TypeOK
    <3> QED
      BY <1>t, <3>1, <3>2, SendDelivery, ExecutorAssumption
  <2>2. CASE Send(w)
    <3>1. dirty[w] \in Task /\ 0 \in 0..MaxRetries /\ AboutToSend(w, dirty[w])
      BY <2>2, ExecutorAssumption DEF Send, AboutToSend, DeliveryInv, TypeInv, HandlesRow
    <3>2. /\ Put(dirty[w], 0) /\ status' = status
          /\ \A v \in Worker : v # w => UNCHANGED <<pc[v], cur[v], dirty[v]>>
          /\ pc'[w] = "enqueuing" /\ cur'[w] = cur[w]
      BY <2>2 DEF Send, GoTo, database, DeliveryInv, TypeInv, TypeOK
    <3>3. cur[w] # dirty[w]
      BY <3>1 DEF DeliveryInv, OneMessage
    <3> QED
      BY <1>t, <3>1, <3>2, <3>3, SendDelivery
  <2>3. CASE \E u \in Task : Enqueue(w, u)
    BY <1>t, <2>3, EnqueueDelivery
  <2>4. CASE ~Retry(w) /\ ~Send(w) /\ \A u \in Task : ~Enqueue(w, u)
    <3>1. /\ mq' = mq
          /\ \A v \in Worker : v # w => UNCHANGED <<pc[v], cur[v], dirty[v]>>
          /\ cur'[w] \in {cur[w], NoTask}
          /\ pc'[w] # "sending"
      BY <1>2, <2>4, OtherStepsAreQuiet DEF DeliveryInv
    <3> QED
      BY <1>q, <3>1
  <2> QED
    BY <2>1, <2>2, <2>3, <2>4
<1>3. ASSUME Api \/ UNCHANGED vars PROVE OneMessage(t)'
  <2>1. UNCHANGED <<mq, session>>
    BY <1>3 DEF Api, CancelRead, CancelWrite, DeleteJob, vars
  <2> QED
    BY <1>t, <2>1, QuietDelivery DEF session, AboutToSend
<1>4. ASSUME NEW w \in Worker, Crash(w) \/ Redeliver(w) PROVE OneMessage(t)'
  <2>1. Crash(w) /\ mq' = mq
    BY <1>4 DEF Crash, Redeliver, DeliversOnce
  <2>2. /\ \A v \in Worker : v # w => UNCHANGED <<pc[v], cur[v], dirty[v]>>
        /\ pc'[w] = "idle" /\ cur'[w] = NoTask
    BY <2>1 DEF Crash, Finish, GoTo, DeliveryInv, TypeInv, TypeOK
  <2> QED
    BY <1>q, <2>1, <2>2
<1> QED
  BY <1>1, <1>2, <1>3, <1>4 DEF Next

\* As long as the broker delivers no message again, each row is announced once
\* and claimed by one process, although rows are retried, processes die, and
\* two that finish sibling rows find the same row ready (executor.py:305, 601).
THEOREM DeliveredOnce ==
    DeliversOnce => (Spec => [](OneDelivery /\ SingleRunner))
<1> SUFFICES ASSUME DeliversOnce
             PROVE  Spec => [](OneDelivery /\ SingleRunner)
  OBVIOUS
<1>1. Init => DeliveryInv
  BY InitDelivery
<1>2. DeliveryInv /\ [Next]_vars => DeliveryInv'
  BY NextDelivery
<1>3. DeliveryInv => OneDelivery /\ SingleRunner
  BY DeliveryInvImplies
<1> QED
  BY <1>1, <1>2, <1>3, PTL DEF Spec
=============================================================================
