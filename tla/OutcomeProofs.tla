---------------------------- MODULE OutcomeProofs ----------------------------
(***************************************************************************)
(* What becomes of the rows of a job, and of the job: theorems about       *)
(* Executor that hold for a plan which never has two rows to dispatch at   *)
(* once.  Committing for the second, _enqueue_newly_ready would write the  *)
(* first again (executor.py:322), whatever has become of it.               *)
(***************************************************************************)
EXTENDS ExecutorProofs

(***************************************************************************)
(* Plans                                                                   *)
(***************************************************************************)

\* No step_id is repeated.
UniqueIds == \A t, u \in Task : StepOf[t] = StepOf[u] => t = u

\* Row t depends on row r, directly or through others.
DependsOn(t, r) == StepOf[t] \in TransitiveDependents(Task, {StepOf[r]})

\* Of two rows that have to be dispatched one depends on the other, as in both
\* plans of MockPlanner: any number of steps may begin side by side.
NoFanOut ==
    \A t, u \in Task :
        t # u /\ Deps[t] # {} /\ Deps[u] # {} => DependsOn(t, u) \/ DependsOn(u, t)

\* Of any two rows one depends on the other: the steps run one by one.
Sequential == \A t, u \in Task : t # u => DependsOn(t, u) \/ DependsOn(u, t)

\* With unique step_ids, what depends on a row without an output cannot be
\* released: the steps that are not are closed under dependents.
LEMMA BlockedDownstream ==
    ASSUME UniqueIds, NEW done \in SUBSET Task, \A x \in done : Released(x, done),
           NEW r \in Task, r \notin done, NEW t \in Task, DependsOn(t, r)
    PROVE  ~Released(t, done)
<1> DEFINE seeds == {StepOf[r]}
           blocked == { StepOf[x] : x \in { y \in Task : ~Released(y, done) } } \ seeds
<1>1. \A x \in Task \ done : StepOf[x] \notin StepsOf(done)
  BY DEF UniqueIds, StepsOf
<1>2. blocked \in SUBSET (StepsOf(Task) \ seeds)
  BY DEF StepsOf
<1>3. ClosedUnderDependents(Task, seeds, blocked)
  <2> SUFFICES ASSUME NEW u \in Task, Deps[u] \cap (blocked \cup (seeds \cap StepsOf(Task))) # {}
               PROVE  StepOf[u] \in blocked \cup seeds
    BY DEF ClosedUnderDependents
  <2>1. PICK x \in Task \ done : StepOf[x] \in Deps[u]
    OBVIOUS
  <2>2. ~Released(u, done)
    BY <1>1, <2>1 DEF Released
  <2> QED
    BY <2>2
<1>4. StepOf[t] \in blocked
  BY <1>2, <1>3 DEF DependsOn, TransitiveDependents
<1>5. PICK u \in Task : ~Released(u, done) /\ StepOf[u] = StepOf[t]
  BY <1>4
<1> QED
  BY <1>5 DEF UniqueIds

LEMMA UniqueIdsAreConsistent == UniqueIds => ConsistentIds
  BY DEF UniqueIds, ConsistentIds

(***************************************************************************)
(* Steps, seen from one process and from one row                           *)
(***************************************************************************)

Rests(w) == UNCHANGED <<pc[w], cur[w], own[w], batch[w], dirty[w]>>

Closes(w) ==
    /\ pc'[w] = "idle" /\ cur'[w] = NoTask /\ own'[w] = "expired"
    /\ batch'[w] = {} /\ dirty'[w] = NoTask

LEMMA FinishCloses ==
    ASSUME TypeInv, NEW v \in Worker, Finish(v), NEW w \in Worker
    PROVE  IF v = w THEN Closes(w) ELSE Rests(w)
  BY DEF Finish, GoTo, Closes, Rests, TypeInv, TypeOK

\* What may happen to a process, the steps that close its session taken together.
LEMMA ProcessMoves ==
    ASSUME TypeInv, [Next]_vars, NEW w \in Worker
    PROVE  \/ Rests(w) \/ Closes(w)
           \/ \E t \in Task, n \in 0..MaxRetries : LoadTask(w, t, n)
           \/ Preflight(w) \/ ClaimTask(w) \/ Collect(w) \/ Succeed(w) \/ FailTask(w)
           \/ Reload(w) \/ ReadJob(w) \/ ReadTasks(w) \/ CompleteJob(w)
           \/ ReadReady(w) \/ Send(w) \/ \E t \in Task : Enqueue(w, t)
           \/ ReadDependents(w) \/ SkipDownstream(w) \/ JudgeJob(w)
<1> USE DEF TypeInv, TypeOK, GoTo
<1>1. ASSUME NEW v \in Worker, TakeMessage(v)
      PROVE  Rests(w) \/ \E t \in Task, n \in 0..MaxRetries : LoadTask(w, t, n)
  <2>1. PICK t \in Task, n \in 0..MaxRetries : DropMessage(v, t, n) \/ LoadTask(v, t, n)
    BY <1>1 DEF TakeMessage
  <2>2. CASE DropMessage(v, t, n) \/ v # w
    BY <2>1, <2>2 DEF DropMessage, LoadTask, Rests, session
  <2>3. CASE LoadTask(w, t, n)
    BY <2>3
  <2> QED
    BY <2>1, <2>2, <2>3
<1>2. ASSUME NEW v \in Worker,
             \/ SkipTask(v) \/ LoseClaim(v) \/ Retry(v) \/ RowGone(v) \/ RememberJob(v)
             \/ JobGone(v) \/ EndDispatch(v) \/ FailJob(v) \/ Crash(v)
      PROVE  Rests(w) \/ Closes(w)
  <2>1. Finish(v)
    BY <1>2 DEF SkipTask, LoseClaim, Retry, RowGone, RememberJob, JobGone, EndDispatch,
                FailJob, Crash
  <2> QED
    BY <2>1, FinishCloses
<1>3. ASSUME NEW v \in Worker, v # w,
             \/ Preflight(v) \/ ClaimTask(v) \/ Collect(v) \/ Succeed(v) \/ FailTask(v)
             \/ Reload(v) \/ ReadJob(v) \/ ReadTasks(v) \/ CompleteJob(v)
      PROVE  Rests(w)
  BY <1>3 DEF Preflight, ClaimTask, Collect, Succeed, FailTask, Reload, ReadJob, ReadTasks,
              CompleteJob, Rests
<1>4. ASSUME NEW v \in Worker, v # w,
             \/ ReadReady(v) \/ Send(v) \/ (\E t \in Task : Enqueue(v, t)) \/ ReadDependents(v)
      PROVE  Rests(w)
  <2>1. CASE ReadReady(v)
    BY <1>4, <2>1 DEF ReadReady, Rests
  <2>2. CASE Send(v)
    BY <1>4, <2>2 DEF Send, Rests, database
  <2>3. CASE \E t \in Task : Enqueue(v, t)
    BY <1>4, <2>3 DEF Enqueue, Rests
  <2>4. CASE ReadDependents(v)
    BY <1>4, <2>4 DEF ReadDependents, Rests
  <2> QED
    BY <1>4, <2>1, <2>2, <2>3, <2>4
<1>5. ASSUME NEW v \in Worker, v # w, SkipDownstream(v) \/ JudgeJob(v)
      PROVE  Rests(w)
  BY <1>5, FinishCloses DEF SkipDownstream, JudgeJob, Rests
<1>6. ASSUME Api \/ (\E v \in Worker : Redeliver(v)) \/ UNCHANGED vars
      PROVE  Rests(w)
  BY <1>6 DEF Api, CancelRead, CancelWrite, DeleteJob, Redeliver, Rests, vars, session
<1> QED
  BY <1>1, <1>2, <1>3, <1>4, <1>5, <1>6 DEF Next, HandlerStep

\* What may happen to a row.
LEMMA RowMoves ==
    ASSUME TypeInv, [Next]_vars, NEW t \in Task, status'[t] # status[t]
    PROVE  \/ \E w \in Worker :
                 /\ t = cur[w]
                 /\ \/ SkipTask(w) /\ status'[t] = "skipped"
                    \/ ClaimTask(w) /\ status'[t] = "running"
                    \/ Succeed(w) /\ status'[t] = "succeeded"
                    \/ FailTask(w) /\ status'[t] = "failed"
           \/ \E w \in Worker, u \in Task :
                 /\ Enqueue(w, u) /\ status'[t] = "queued"
                 /\ t = dirty[w] \/ (t = u /\ status[t] = "pending")
           \/ \E w \in Worker :
                 /\ SkipDownstream(w) /\ t \in batch[w]
                 /\ status[t] # "absent" /\ status'[t] = "skipped"
           \/ DeleteJob /\ status'[t] = "absent"
<1> USE DEF TypeInv, TypeOK
<1>1. ASSUME NEW w \in Worker, SkipTask(w) \/ ClaimTask(w) \/ Succeed(w) \/ FailTask(w)
      PROVE  /\ t = cur[w]
             /\ \/ SkipTask(w) /\ status'[t] = "skipped"
                \/ ClaimTask(w) /\ status'[t] = "running"
                \/ Succeed(w) /\ status'[t] = "succeeded"
                \/ FailTask(w) /\ status'[t] = "failed"
  BY <1>1 DEF SkipTask, ClaimTask, Succeed, FailTask
<1>2. ASSUME NEW w \in Worker, NEW u \in Task, Enqueue(w, u)
      PROVE  status'[t] = "queued" /\ (t = dirty[w] \/ (t = u /\ status[t] = "pending"))
  BY <1>2 DEF Enqueue, Enqueueable
<1>3. ASSUME NEW w \in Worker, SkipDownstream(w)
      PROVE  t \in batch[w] /\ status[t] # "absent" /\ status'[t] = "skipped"
  BY <1>3 DEF SkipDownstream
<1>4. CASE DeleteJob
  BY <1>4 DEF DeleteJob
<1>5. \/ \E w \in Worker : SkipTask(w) \/ ClaimTask(w) \/ Succeed(w) \/ FailTask(w)
      \/ \E w \in Worker, u \in Task : Enqueue(w, u)
      \/ \E w \in Worker : SkipDownstream(w)
      \/ DeleteJob
  BY StatusWriters
<1> QED
  BY <1>1, <1>2, <1>3, <1>4, <1>5

\* Only these steps write the job, the cancel request, the inputs of a synthesis
\* or the memory store.
LEMMA OtherWriters ==
    ASSUME [Next]_vars
    PROVE  /\ job' # job => \/ \E w \in Worker : CompleteJob(w) \/ FailJob(w)
                            \/ CancelWrite \/ DeleteJob
           /\ cancel' # cancel => CancelRead \/ CancelWrite
           /\ collected' # collected => (\E w \in Worker : Succeed(w)) \/ DeleteJob
           /\ memories' # memories => \E w \in Worker : RememberJob(w)
<1>1. ASSUME NEW w \in Worker, TakeMessage(w)
      PROVE  UNCHANGED <<job, cancel, collected, memories>>
  BY <1>1 DEF TakeMessage, DropMessage, LoadTask, database
<1>2. ASSUME NEW w \in Worker,
             \/ Preflight(w) \/ SkipTask(w) \/ ClaimTask(w) \/ LoseClaim(w) \/ Collect(w)
             \/ FailTask(w) \/ Retry(w) \/ RowGone(w) \/ Reload(w) \/ ReadJob(w)
      PROVE  UNCHANGED <<job, cancel, collected, memories>>
  BY <1>2 DEF Preflight, SkipTask, ClaimTask, LoseClaim, Collect, FailTask, Retry, RowGone,
              Reload, ReadJob, database
<1>3. ASSUME NEW w \in Worker,
             \/ ReadTasks(w) \/ JobGone(w) \/ ReadReady(w) \/ Send(w) \/ EndDispatch(w)
             \/ (\E t \in Task : Enqueue(w, t)) \/ ReadDependents(w) \/ SkipDownstream(w)
             \/ JudgeJob(w) \/ Crash(w) \/ Redeliver(w)
      PROVE  UNCHANGED <<job, cancel, collected, memories>>
  BY <1>3 DEF ReadTasks, JobGone, ReadReady, Send, EndDispatch, Enqueue, ReadDependents,
              SkipDownstream, JudgeJob, Crash, Redeliver, database
<1>4. ASSUME NEW w \in Worker, CompleteJob(w) \/ FailJob(w)
      PROVE  UNCHANGED <<cancel, collected, memories>>
  BY <1>4 DEF CompleteJob, FailJob
<1>5. ASSUME NEW w \in Worker, Succeed(w) PROVE UNCHANGED <<job, cancel, memories>>
  BY <1>5 DEF Succeed
<1>6. ASSUME NEW w \in Worker, RememberJob(w) PROVE UNCHANGED <<job, cancel, collected>>
  BY <1>6 DEF RememberJob, database
<1>7. ASSUME Api \/ UNCHANGED vars PROVE memories' = memories
  BY <1>7 DEF Api, CancelRead, CancelWrite, DeleteJob, vars
<1>8. CASE CancelRead \/ CancelWrite \/ DeleteJob
  BY <1>7, <1>8 DEF Api, CancelRead, CancelWrite, DeleteJob, database
<1>9. CASE UNCHANGED vars
  BY <1>9 DEF vars, database
<1> QED
  BY <1>1, <1>2, <1>3, <1>4, <1>5, <1>6, <1>8, <1>9 DEF Next, HandlerStep, Api

(***************************************************************************)
(* A row is claimed once                                                   *)
(*                                                                         *)
(* The claim updates a pending or queued row only (executor.py:146).  It   *)
(* is exclusive as long as no row becomes queued again, which is up to the *)
(* flush in _enqueue_ready_task: it does no harm when there is one row to  *)
(* dispatch.  None of this depends on how often a message is delivered.    *)
(***************************************************************************)

\* The process has claimed its row.
Owns(w) == pc[w] \notin {"idle", "loaded", "skipping", "checked"}

WholeJob == job # "absent" => \A t \in Task : status[t] # "absent"

RootsQueued == \A t \in Task : Deps[t] = {} => status[t] # "pending"

OutputReleased == \A t \in output : Released(t, output)

FreshRows ==
    \A t \in Task : status[t] \in {"pending", "queued"} =>
        /\ t \notin output
        /\ attempts[t] = 0
        /\ \A w \in Worker : Owns(w) => cur[w] # t

SingleOwner == \A v, w \in Worker : v # w /\ Owns(v) /\ Owns(w) => cur[v] # cur[w]

CallOnce == \A w \in Worker : InvokingTool(w) => cur[w] \notin output

\* While a process has a row to dispatch it has no assignment to flush.
OneRow ==
    \A w \in Worker :
        /\ pc[w] \notin {"enqueuing", "sending"} => dirty[w] = NoTask
        /\ pc[w] = "sending" => batch[w] = {}
        /\ pc[w] = "enqueuing" => /\ \A t, u \in batch[w] : t = u
                                  /\ batch[w] # {} => dirty[w] = NoTask

Ended(t) == status[t] \in TerminalTask \cup {"absent"}

EndedRows ==
    \A w \in Worker : /\ own[w] \in TerminalTask \cup {"expired"}
                      /\ Owns(w) /\ ~InvokingTool(w) => Ended(cur[w])

ClaimInv ==
    /\ SafeInv
    /\ WholeJob
    /\ RootsQueued
    /\ OutputReleased
    /\ FreshRows
    /\ SingleOwner
    /\ CallOnce
    /\ OneRow
    /\ EndedRows

\* With unique step_ids every root is queued from the start.
LEMMA InitClaim == UniqueIds /\ Init => ClaimInv
<1> SUFFICES ASSUME UniqueIds, Init PROVE ClaimInv
  OBVIOUS
<1>1. SafeInv
  BY InitSafe, UniqueIdsAreConsistent
<1>2. PICK rows \in RowChoices(Task, ReadySteps) :
        status = [t \in Task |-> IF t \in rows THEN "queued" ELSE "pending"]
  BY DEF Init
<1>3. RootsQueued
  <2> SUFFICES ASSUME NEW t \in Task, Deps[t] = {} PROVE t \in rows
    BY <1>2 DEF RootsQueued
  <2>1. StepOf[t] \in StepsOf(rows)
    BY DEF RowChoices, ReadySteps, StepsOf
  <2>2. PICK u \in rows : StepOf[u] = StepOf[t]
    BY <2>1 DEF StepsOf
  <2>3. u \in Task
    BY DEF RowChoices
  <2> QED
    BY <2>2, <2>3 DEF UniqueIds
<1>4. FreshRows /\ SingleOwner /\ CallOnce /\ OneRow /\ EndedRows
  BY DEF Init, FreshRows, SingleOwner, CallOnce, OneRow, EndedRows, Owns, InvokingTool
<1>5. WholeJob /\ OutputReleased
  BY <1>2 DEF Init, WholeJob, OutputReleased
<1> QED
  BY <1>1, <1>3, <1>4, <1>5 DEF ClaimInv

\* A process comes to own a row by a claim, and to leave its tool call otherwise
\* than by going idle with an outcome.
LEMMA OwnersClaim ==
    ASSUME TypeInv, [Next]_vars, NEW w \in Worker, Owns(w)', ~ClaimTask(w)
    PROVE  /\ Owns(w) /\ cur'[w] = cur[w]
           /\ InvokingTool(w) /\ ~InvokingTool(w)' => Succeed(w) \/ FailTask(w)
<1> USE DEF Owns, InvokingTool, TypeInv, TypeOK, GoTo
<1>1. CASE Rests(w) \/ Closes(w)
  BY <1>1 DEF Rests, Closes
<1>2. CASE \E t \in Task, n \in 0..MaxRetries : LoadTask(w, t, n)
  BY <1>2 DEF LoadTask
<1>3. CASE Preflight(w) \/ Collect(w) \/ Reload(w) \/ ReadJob(w) \/ CompleteJob(w)
           \/ ReadReady(w) \/ Send(w)
  BY <1>3 DEF Preflight, Collect, Reload, ReadJob, CompleteJob, ReadReady, Send
<1>4. CASE Succeed(w) \/ FailTask(w)
  BY <1>4 DEF Succeed, FailTask
<1>5. CASE ReadTasks(w)
  BY <1>5 DEF ReadTasks, Verdict
<1>6. CASE \E t \in Task : Enqueue(w, t)
  BY <1>6 DEF Enqueue
<1>7. CASE ReadDependents(w)
  BY <1>7 DEF ReadDependents
<1>8. CASE SkipDownstream(w) \/ JudgeJob(w)
  BY <1>8 DEF SkipDownstream, JudgeJob, Finish
<1> QED
  BY <1>1, <1>2, <1>3, <1>4, <1>5, <1>6, <1>7, <1>8, ProcessMoves

\* The rows that _enqueue_newly_ready picks: ready, without an output, not roots.
LEMMA PickedRows ==
    ASSUME UniqueIds, ClaimInv, NEW w \in Worker, pc[w] = "dispatching",
           NEW rows \in RowChoices(Present,
               NewlyReady(View(w), StepsOf({ t \in Present : View(w)[t] = "succeeded" }))),
           NEW r \in rows
    PROVE  r \in Task /\ Deps[r] # {} /\ r \notin output /\ Released(r, output)
<1> DEFINE done == { t \in Present : View(w)[t] = "succeeded" }
<1>1. r \in Present /\ r \in Task /\ job # "absent" /\ Released(r, output)
  BY PickedRowsMayRun, UniqueIdsAreConsistent
     DEF ClaimInv, RowChoices, MayRun, SafeInv, DeletedIsEmpty, Present
<1>2. StepOf[r] \in NewlyReady(View(w), StepsOf(done))
  BY DEF RowChoices, StepsOf
<1>3. PICK x \in Present : StepOf[x] = StepOf[r] /\ View(w)[x] = "pending"
  BY <1>2 DEF NewlyReady, StepsOf, View
<1>4. View(w)[r] = "pending"
  BY <1>1, <1>3 DEF UniqueIds, Present
<1>5. status[r] = "pending"
  BY <1>1, <1>4 DEF View, ClaimInv, EndedRows, TerminalTask
<1> QED
  BY <1>1, <1>5 DEF ClaimInv, FreshRows, RootsQueued

LEMMA PickedRowIsOne ==
    ASSUME UniqueIds, NoFanOut, ClaimInv, NEW w \in Worker, pc[w] = "dispatching",
           NEW rows \in RowChoices(Present,
               NewlyReady(View(w), StepsOf({ t \in Present : View(w)[t] = "succeeded" }))),
           NEW t \in rows, NEW u \in rows
    PROVE  t = u
<1> SUFFICES ASSUME t # u PROVE FALSE
  OBVIOUS
<1>1. output \in SUBSET Task /\ \A x \in output : Released(x, output)
  BY DEF ClaimInv, OutputReleased, SafeInv, TypeInv, TypeOK
<1>2. /\ t \in Task /\ Deps[t] # {} /\ t \notin output /\ Released(t, output)
      /\ u \in Task /\ Deps[u] # {} /\ u \notin output /\ Released(u, output)
  BY PickedRows
<1>3. DependsOn(t, u) \/ DependsOn(u, t)
  BY <1>2 DEF NoFanOut
<1> QED
  BY <1>1, <1>2, <1>3, BlockedDownstream

LEMMA NextOneRow ==
    ASSUME UniqueIds, NoFanOut, ClaimInv, [Next]_vars
    PROVE  OneRow'
<1> SUFFICES ASSUME NEW w \in Worker
             PROVE  /\ pc'[w] \notin {"enqueuing", "sending"} => dirty'[w] = NoTask
                    /\ pc'[w] = "sending" => batch'[w] = {}
                    /\ pc'[w] = "enqueuing" => /\ \A t, u \in batch'[w] : t = u
                                               /\ batch'[w] # {} => dirty'[w] = NoTask
  BY DEF OneRow
<1> USE DEF ClaimInv, OneRow, SafeInv, TypeInv, TypeOK, GoTo
<1>1. CASE Rests(w) \/ Closes(w)
  BY <1>1 DEF Rests, Closes
<1>2. CASE \E t \in Task, n \in 0..MaxRetries : LoadTask(w, t, n)
  BY <1>2 DEF LoadTask
<1>3. CASE Preflight(w) \/ ClaimTask(w) \/ Collect(w) \/ Reload(w) \/ ReadJob(w) \/ CompleteJob(w)
  BY <1>3 DEF Preflight, ClaimTask, Collect, Reload, ReadJob, CompleteJob
<1>4. CASE Succeed(w) \/ FailTask(w)
  BY <1>4 DEF Succeed, FailTask
<1>5. CASE ReadTasks(w)
  BY <1>5 DEF ReadTasks, Verdict
<1>6. CASE ReadReady(w)
  <2>1. PICK rows \in RowChoices(Present, NewlyReady(View(w),
                          StepsOf({ t \in Present : View(w)[t] = "succeeded" }))) :
           batch'[w] = rows
    BY <1>6 DEF ReadReady
  <2>2. pc[w] = "dispatching" /\ pc'[w] = "enqueuing" /\ dirty'[w] = NoTask
    BY <1>6 DEF ReadReady
  <2> QED
    BY <2>1, <2>2, PickedRowIsOne
<1>7. CASE Send(w)
  BY <1>7 DEF Send
<1>8. ASSUME NEW t \in Task, Enqueue(w, t)
      PROVE  batch'[w] = {} /\ pc'[w] \in {"enqueuing", "sending"}
  BY <1>8 DEF Enqueue
<1>9. CASE ReadDependents(w)
  BY <1>9 DEF ReadDependents
<1>10. CASE SkipDownstream(w) \/ JudgeJob(w)
  BY <1>10 DEF SkipDownstream, JudgeJob, Finish
<1> QED
  BY <1>1, <1>2, <1>3, <1>4, <1>5, <1>6, <1>7, <1>8, <1>9, <1>10, ProcessMoves

\* A row that was claimed or has ended is never pending or queued again, and one
\* that has ended stays so.
LEMMA RowsAge ==
    ASSUME ClaimInv, [Next]_vars, NEW t \in Task
    PROVE  /\ status'[t] \in {"pending", "queued"} => status[t] \in {"pending", "queued"}
           /\ Ended(t) => Ended(t)'
<1>1. CASE status'[t] = status[t]
  BY <1>1 DEF Ended
<1>2. ASSUME NEW w \in Worker, t = cur[w],
             \/ SkipTask(w) /\ status'[t] = "skipped"
             \/ ClaimTask(w) /\ status'[t] = "running"
             \/ Succeed(w) /\ status'[t] = "succeeded"
             \/ FailTask(w) /\ status'[t] = "failed"
      PROVE  /\ status'[t] \notin {"pending", "queued"}
             /\ Ended(t) => Ended(t)'
  BY <1>2 DEF ClaimTask, Claimable, Ended, TerminalTask
<1>3. ASSUME NEW w \in Worker, NEW u \in Task, Enqueue(w, u),
             t = dirty[w] \/ (t = u /\ status[t] = "pending")
      PROVE  status[t] = "pending"
  BY <1>3, ExecutorAssumption DEF Enqueue, ClaimInv, OneRow
<1>4. ASSUME status'[t] \in {"skipped", "absent"}
      PROVE  Ended(t)'
  BY <1>4 DEF Ended, TerminalTask
<1> QED
  BY <1>1, <1>2, <1>3, <1>4, RowMoves DEF ClaimInv, SafeInv, Ended, TerminalTask

\* What the step does to the outputs.
LEMMA OutputMoves ==
    ASSUME [Next]_vars, NEW t \in output', t \notin output
    PROVE  \E w \in Worker : Succeed(w) /\ t = cur[w]
<1>1. ~DeleteJob
  BY DEF DeleteJob
<1>2. PICK w \in Worker : ClaimTask(w) \/ Succeed(w)
  BY <1>1, StepEffects
<1> QED
  BY <1>2 DEF ClaimTask, Succeed

LEMMA NextClaim ==
    UniqueIds /\ NoFanOut /\ ClaimInv /\ [Next]_vars => ClaimInv'
<1> SUFFICES ASSUME UniqueIds, NoFanOut, ClaimInv, [Next]_vars PROVE ClaimInv'
  OBVIOUS
<1>t. TypeInv /\ TypeInv' /\ SafeInv'
  BY NextSafe, UniqueIdsAreConsistent DEF ClaimInv, SafeInv
<1>1. WholeJob'
  <2> SUFFICES ASSUME job' # "absent", NEW t \in Task, status'[t] = "absent" PROVE FALSE
    BY DEF WholeJob
  <2>1. status[t] # "absent"
    BY OutputGrows DEF ClaimInv, WholeJob
  <2>2. ~DeleteJob
    BY DEF DeleteJob
  <2> QED
    BY <1>t, <2>1, <2>2, RowMoves
<1>2. RootsQueued'
  BY <1>t, NeverPendingAgain DEF ClaimInv, RootsQueued
<1>3. OutputReleased'
  <2> SUFFICES ASSUME NEW t \in output' PROVE Released(t, output')
    BY DEF OutputReleased
  <2>1. CASE t \in output
    <3>1. ~DeleteJob
      BY DEF DeleteJob
    <3>2. output \subseteq output'
      BY <3>1, StepEffects DEF ClaimTask, Succeed
    <3> QED
      BY <2>1, <3>2 DEF ClaimInv, OutputReleased, Released, StepsOf
  <2>2. CASE t \notin output
    <3>1. PICK w \in Worker : Succeed(w) /\ t = cur[w]
      BY <2>2, OutputMoves
    <3>2. job # "absent" /\ t \in Task
      BY <1>t, <3>1 DEF Succeed, ClaimInv, SafeInv, DeletedIsEmpty, TypeInv, HandlesRow
    <3>3. Released(t, output) /\ output \subseteq output'
      BY <3>1, <3>2 DEF Succeed, ClaimInv, SafeInv, ReleasedWork, MayRun
    <3> QED
      BY <3>3 DEF Released, StepsOf
  <2> QED
    BY <2>1, <2>2
<1>4. ASSUME NEW t \in Task, status'[t] \in {"pending", "queued"}
      PROVE  t \notin output' /\ attempts'[t] = 0 /\ \A w \in Worker : Owns(w)' => cur'[w] # t
  <2>1. /\ t \notin output /\ attempts[t] = 0
        /\ \A w \in Worker : Owns(w) => cur[w] # t
    BY <1>4, RowsAge DEF ClaimInv, FreshRows
  <2>2. \A w \in Worker : ClaimTask(w) => cur[w] # t
    BY <1>t, <1>4 DEF ClaimTask, TypeInv, TypeOK
  <2>3. \A w \in Worker : Succeed(w) => cur[w] # t
    BY <2>1 DEF Succeed, Owns
  <2>4. t \notin output'
    BY <2>1, <2>3, OutputMoves
  <2>5. attempts'[t] = 0
    <3>1. ASSUME NEW w \in Worker, ClaimTask(w) PROVE attempts'[t] = 0
      BY <1>t, <2>1, <2>2, <3>1, ClaimCounts
    <3>2. CASE (\E w \in Worker : Succeed(w)) \/ DeleteJob \/ attempts' = attempts
      BY <2>1, <3>2 DEF Succeed, DeleteJob
    <3> QED
      BY <3>1, <3>2, StepEffects
  <2>6. ASSUME NEW w \in Worker, Owns(w)' PROVE cur'[w] # t
    <3>1. CASE ClaimTask(w)
      BY <2>2, <3>1 DEF ClaimTask
    <3>2. CASE ~ClaimTask(w)
      BY <1>t, <2>1, <2>6, <3>2, OwnersClaim
    <3> QED
      BY <3>1, <3>2
  <2> QED
    BY <2>4, <2>5, <2>6
<1>5. ASSUME NEW v \in Worker, NEW w \in Worker, v # w, Owns(v)', Owns(w)'
      PROVE  cur'[v] # cur'[w]
  <2>1. ASSUME NEW x \in Worker, NEW y \in Worker, x # y, ClaimTask(x), Owns(y)'
        PROVE  cur'[x] # cur'[y]
    <3>1. ~ClaimTask(y)
      BY <1>t, <2>1 DEF ClaimTask, GoTo, TypeInv, TypeOK
    <3>2. Owns(y) /\ cur'[y] = cur[y] /\ cur'[x] = cur[x]
      BY <1>t, <2>1, <3>1, OwnersClaim DEF ClaimTask
    <3>3. cur[x] \in Task /\ status[cur[x]] \in {"pending", "queued"}
      BY <1>t, <2>1, ClaimCounts DEF ClaimTask, Claimable
    <3> QED
      BY <3>2, <3>3 DEF ClaimInv, FreshRows
  <2>2. CASE ~ClaimTask(v) /\ ~ClaimTask(w)
    BY <1>t, <1>5, <2>2, OwnersClaim DEF ClaimInv, SingleOwner
  <2> QED
    BY <1>5, <2>1, <2>2
<1>6. ASSUME NEW w \in Worker, InvokingTool(w)' PROVE cur'[w] \notin output'
  <2>1. CASE ClaimTask(w)
    <3>1. cur[w] \in Task /\ status[cur[w]] \in {"pending", "queued"}
      BY <1>t, <2>1, ClaimCounts DEF ClaimTask, Claimable
    <3> QED
      BY <2>1, <3>1 DEF ClaimTask, ClaimInv, FreshRows
  <2>2. CASE ~ClaimTask(w)
    <3>1. InvokingTool(w) /\ cur'[w] = cur[w] /\ cur[w] \notin output
      BY <1>t, <1>6, <2>2, CallsStartWithClaim DEF ClaimInv, CallOnce
    <3>2. ASSUME NEW v \in Worker, Succeed(v) PROVE cur[v] # cur[w]
      <4>1. v # w
        BY <1>t, <1>6, <3>2 DEF Succeed, InvokingTool, GoTo, TypeInv, TypeOK
      <4> QED
        BY <3>1, <3>2, <4>1 DEF Succeed, InvokingTool, Owns, ClaimInv, SingleOwner
    <3> QED
      BY <3>1, <3>2, OutputMoves
  <2> QED
    BY <2>1, <2>2
<1>7. OneRow'
  BY NextOneRow
<1>8. ASSUME NEW w \in Worker, Owns(w)', ~InvokingTool(w)' PROVE Ended(cur[w])' /\ cur'[w] = cur[w]
  <2>1. ~ClaimTask(w)
    BY <1>t, <1>8 DEF ClaimTask, InvokingTool, GoTo, TypeInv, TypeOK
  <2>2. Owns(w) /\ cur'[w] = cur[w] /\ (InvokingTool(w) => Succeed(w) \/ FailTask(w))
    BY <1>t, <1>8, <2>1, OwnersClaim
  <2>3. cur[w] \in Task
    BY <1>t, <2>2 DEF Owns, TypeInv, HandlesRow
  <2>4. CASE Succeed(w) \/ FailTask(w)
    BY <1>t, <2>3, <2>4 DEF Succeed, FailTask, Ended, TerminalTask, TypeInv, TypeOK
  <2>5. CASE ~InvokingTool(w)
    <3>1. Ended(cur[w])
      BY <2>2, <2>5 DEF ClaimInv, EndedRows
    <3> QED
      BY <2>2, <2>3, <3>1, RowsAge DEF Ended
  <2> QED
    BY <2>2, <2>4, <2>5
<1>9. ASSUME NEW w \in Worker PROVE own'[w] \in TerminalTask \cup {"expired"}
  <2> USE DEF TypeInv, TypeOK
  <2>1. own[w] \in TerminalTask \cup {"expired"}
    BY DEF ClaimInv, EndedRows
  <2>2. CASE Reload(w)
    <3>1. Ended(cur[w])
      BY <2>2 DEF Reload, Owns, InvokingTool, ClaimInv, EndedRows
    <3> QED
      BY <1>t, <2>2, <3>1 DEF Reload, Ended
  <2>3. CASE ReadTasks(w)
    <3>1. Ended(cur[w])
      BY <2>3 DEF ReadTasks, Owns, InvokingTool, ClaimInv, EndedRows
    <3> QED
      BY <1>t, <2>1, <2>3, <3>1 DEF ReadTasks, View, Present, Ended
  <2>4. CASE ~Reload(w) /\ ~ReadTasks(w)
    <3>1. own'[w] = own[w] \/ own'[w] = "expired"
      <4>1. CASE Rests(w) \/ Closes(w) \/ (\E t \in Task, n \in 0..MaxRetries : LoadTask(w, t, n))
                 \/ (\E t \in Task : Enqueue(w, t))
        BY <4>1 DEF Rests, Closes, LoadTask, Enqueue
      <4>2. CASE Preflight(w) \/ ClaimTask(w) \/ Collect(w) \/ Succeed(w) \/ FailTask(w)
                 \/ ReadJob(w) \/ CompleteJob(w)
        BY <4>2 DEF Preflight, ClaimTask, Collect, Succeed, FailTask, ReadJob, CompleteJob
      <4>3. CASE ReadReady(w) \/ Send(w) \/ ReadDependents(w) \/ SkipDownstream(w) \/ JudgeJob(w)
        BY <1>t, <4>3 DEF ReadReady, Send, ReadDependents, SkipDownstream, JudgeJob, Finish
      <4> QED
        BY <1>t, <2>4, <4>1, <4>2, <4>3, ProcessMoves
    <3> QED
      BY <2>1, <3>1
  <2> QED
    BY <2>2, <2>3, <2>4
<1> QED
  BY <1>t, <1>1, <1>2, <1>3, <1>4, <1>5, <1>6, <1>7, <1>8, <1>9
     DEF ClaimInv, FreshRows, SingleOwner, CallOnce, EndedRows, Owns, InvokingTool, Ended

\* However often a message is delivered and whatever is lost, retried, cancelled
\* or deleted, no row is in two tool calls at once: the conditional UPDATE of the
\* claim is all it takes (executor.py:146), as long as no two rows are dispatched
\* together.
THEOREM OneCallPerRow == UniqueIds /\ NoFanOut => (Spec => []SingleRunner)
<1> SUFFICES ASSUME UniqueIds, NoFanOut PROVE Spec => []SingleRunner
  OBVIOUS
<1>1. Init => ClaimInv
  BY InitClaim
<1>2. ClaimInv /\ [Next]_vars => ClaimInv'
  BY NextClaim
<1>3. ClaimInv => SingleRunner
  BY DEF ClaimInv, SingleOwner, SingleRunner, Owns, InvokingTool
<1> QED
  BY <1>1, <1>2, <1>3, PTL DEF Spec

(***************************************************************************)
(* Outcomes                                                                *)
(*                                                                         *)
(* When no message is delivered twice, one process at a time has to do     *)
(* with a row, so that what it has read of it, and what it makes of it,    *)
(* stays true.  An outcome of the job then rests on outcomes of rows.      *)
(***************************************************************************)

\* A process that has completed its row.
Behind == {"succeeded", "counting", "tallying", "completing", "breaking",
           "remembering", "dispatching", "enqueuing", "sending"}

\* What the place a process has reached says of its row.
Place(w) ==
    /\ pc[w] \in {"loaded", "skipping", "checked"} => status[cur[w]] \notin TerminalTask
    /\ InvokingTool(w) => status[cur[w]] \in {"running", "absent"}
    /\ pc[w] \in Behind => status[cur[w]] \in {"succeeded", "absent"}
    /\ pc[w] \in {"failed", "pruning", "judging", "failing"}
           => status[cur[w]] \in {"failed", "absent"}
    /\ own[w] \in {"succeeded", "expired"}

OutputSucceeded == \A t \in output : status[t] = "succeeded"

FailedWasClaimed == \A t \in Task : status[t] = "failed" => attempts[t] > 0

PrunedDepend ==
    \A w \in Worker : pc[w] = "pruning" => \A t \in batch[w] : t \in Task /\ DependsOn(t, cur[w])

RowInv ==
    /\ FlowInv
    /\ ClaimInv
    /\ DeliveryInv
    /\ \A w \in Worker : Place(w)
    /\ OutputSucceeded
    /\ FailedWasClaimed
    /\ PrunedDepend

LEMMA InitRow == UniqueIds /\ Init => RowInv
<1> SUFFICES ASSUME UniqueIds, Init PROVE RowInv
  OBVIOUS
<1>1. FlowInv
  BY InitSafe, UniqueIdsAreConsistent DEF Init, FlowInv, CallsAreClaimed, InvokingTool
<1>2. ClaimInv /\ DeliveryInv
  BY InitClaim, InitDelivery
<1>3. \A t \in Task : status[t] # "failed"
  BY DEF Init
<1> QED
  BY <1>1, <1>2, <1>3
     DEF Init, RowInv, Place, InvokingTool, Behind, OutputSucceeded, FailedWasClaimed, PrunedDepend

\* A row that is about to be skipped downstream of a failure was never released.
LEMMA PrunedBlocked ==
    ASSUME UniqueIds, RowInv, job # "absent", NEW w \in Worker, pc[w] = "pruning",
           NEW t \in batch[w]
    PROVE  t \in Task /\ ~Released(t, output)
<1>1. cur[w] \in Task /\ output \in SUBSET Task
  BY DEF RowInv, ClaimInv, SafeInv, TypeInv, TypeOK, HandlesRow
<1>2. cur[w] \notin output
  BY <1>1 DEF RowInv, Place, ClaimInv, WholeJob, OutputSucceeded
<1>3. t \in Task /\ DependsOn(t, cur[w])
  BY DEF RowInv, PrunedDepend
<1> QED
  BY <1>1, <1>2, <1>3, BlockedDownstream DEF RowInv, ClaimInv, OutputReleased

\* A row with an outcome keeps it.
LEMMA OutcomeStays ==
    ASSUME UniqueIds, RowInv, [Next]_vars, NEW t \in Task, status[t] \in TerminalTask
    PROVE  status'[t] \in {status[t], "absent"}
<1> SUFFICES ASSUME status'[t] # status[t] PROVE status'[t] = "absent"
  OBVIOUS
<1>t. TypeInv /\ job # "absent"
  BY DEF RowInv, ClaimInv, SafeInv, DeletedIsEmpty, TerminalTask
<1>1. ASSUME NEW w \in Worker, t = cur[w]
      PROVE  ~SkipTask(w) /\ ~ClaimTask(w) /\ ~Succeed(w) /\ ~FailTask(w)
  <2>1. Place(w)
    BY DEF RowInv
  <2>2. ~SkipTask(w) /\ ~ClaimTask(w)
    BY <1>1, <2>1 DEF SkipTask, ClaimTask, Place
  <2>3. ~Succeed(w) /\ ~FailTask(w)
    BY <1>1, <2>1 DEF Succeed, FailTask, Place, InvokingTool, TerminalTask
  <2> QED
    BY <2>2, <2>3
<1>2. ASSUME NEW w \in Worker, NEW u \in Task, Enqueue(w, u)
      PROVE  t # dirty[w] /\ status[t] # "pending"
  BY <1>2, ExecutorAssumption DEF Enqueue, RowInv, ClaimInv, OneRow, TerminalTask
<1>3. ASSUME NEW w \in Worker, SkipDownstream(w), t \in batch[w], status'[t] = "skipped"
      PROVE  FALSE
  <2>1. ~Released(t, output)
    BY <1>t, <1>3, PrunedBlocked DEF SkipDownstream
  <2>2. status[t] # "succeeded"
    BY <2>1 DEF RowInv, ClaimInv, OutputReleased, SafeInv, SucceededHasOutput
  <2>3. status[t] # "failed"
    BY <1>t, <2>1 DEF RowInv, FailedWasClaimed, ClaimInv, SafeInv, ReleasedRows, MayRun
  <2> QED
    BY <1>3, <2>2, <2>3 DEF TerminalTask
<1> QED
  BY <1>t, <1>1, <1>2, <1>3, RowMoves

\* The row of a process is left alone by the others, unless the job is deleted.
LEMMA HeldRow ==
    ASSUME UniqueIds, RowInv, [Next]_vars, NEW w \in Worker, pc[w] # "idle",
           ~SkipTask(w), ~ClaimTask(w), ~Succeed(w), ~FailTask(w)
    PROVE  status'[cur[w]] \in {status[cur[w]], "absent"}
<1> DEFINE t == cur[w]
<1> SUFFICES ASSUME status'[t] # status[t] PROVE status'[t] = "absent"
  OBVIOUS
<1>t. TypeInv /\ t \in Task /\ OneMessage(t)
  BY DEF RowInv, ClaimInv, SafeInv, TypeInv, HandlesRow, DeliveryInv
<1>1. \A v \in Worker : t = cur[v] => v = w
  BY <1>t DEF OneMessage
<1>2. ASSUME NEW v \in Worker, NEW u \in Task, Enqueue(v, u)
      PROVE  t # dirty[v] /\ status[t] # "pending"
  BY <1>t, <1>2, ExecutorAssumption DEF Enqueue, RowInv, ClaimInv, OneRow, OneMessage
<1>3. ASSUME NEW v \in Worker, SkipDownstream(v), t \in batch[v], status[t] # "absent" PROVE FALSE
  <2>1. job # "absent"
    BY <1>t, <1>3 DEF RowInv, ClaimInv, SafeInv, DeletedIsEmpty
  <2>2. ~Released(t, output)
    BY <1>3, <2>1, PrunedBlocked DEF SkipDownstream
  <2> QED
    BY <2>1, <2>2 DEF RowInv, ClaimInv, SafeInv, ReleasedWork, MayRun
<1> QED
  BY <1>t, <1>1, <1>2, <1>3, RowMoves

\* The place of a process goes on to be what it says, as long as the others
\* leave its row alone.
LEMMA NextPlace ==
    ASSUME TypeInv, [Next]_vars, NEW w \in Worker, Place(w),
           pc[w] # "idle" /\ ~SkipTask(w) /\ ~ClaimTask(w) /\ ~Succeed(w) /\ ~FailTask(w)
               => status'[cur[w]] \in {status[cur[w]], "absent"}
    PROVE  Place(w)'
<1> USE DEF Place, InvokingTool, Behind, TerminalTask, GoTo
<1>1. CASE Closes(w)
  BY <1>1 DEF Closes
<1>2. CASE Rests(w)
  <2>1. ~SkipTask(w) /\ ~ClaimTask(w) /\ ~Succeed(w) /\ ~FailTask(w)
    BY <1>2 DEF Rests, SkipTask, ClaimTask, Succeed, FailTask, Finish, TypeInv, TypeOK
  <2>2. pc[w] # "idle" => status'[cur[w]] \in {status[cur[w]], "absent"}
    BY <2>1
  <2> QED
    BY <1>2, <2>2 DEF Rests
<1>3. ASSUME NEW t \in Task, NEW n \in 0..MaxRetries, LoadTask(w, t, n) PROVE Place(w)'
  BY <1>3 DEF LoadTask, database, TypeInv, TypeOK
<1>4. CASE Preflight(w) \/ Collect(w) \/ ReadJob(w) \/ ReadReady(w) \/ Send(w)
  BY <1>4 DEF Preflight, Collect, ReadJob, ReadReady, Send, database, TypeInv, TypeOK
<1>5. CASE ClaimTask(w)
  BY <1>5 DEF ClaimTask, TypeInv, TypeOK, HandlesRow
<1>6. CASE Succeed(w) \/ FailTask(w)
  BY <1>6 DEF Succeed, FailTask, TypeInv, TypeOK, HandlesRow
<1>7. CASE Reload(w)
  BY <1>7 DEF Reload, database, TypeInv, TypeOK
<1>8. CASE ReadTasks(w)
  <2>1. Verdict(View(w)) \in {"dispatching", "breaking", "completing"}
    BY DEF Verdict
  <2>2. cur[w] \in Present => View(w)[cur[w]] = "succeeded"
    BY <1>8 DEF ReadTasks, View, Present
  <2> QED
    BY <1>8, <2>1, <2>2 DEF ReadTasks, database, TypeInv, TypeOK
<1>9. CASE CompleteJob(w)
  BY <1>9 DEF CompleteJob, TypeInv, TypeOK
<1>10. ASSUME NEW t \in Task, Enqueue(w, t) PROVE Place(w)'
  <2>1. status'[cur[w]] \in {status[cur[w]], "absent"}
    BY <1>10 DEF Enqueue, SkipTask, ClaimTask, Succeed, FailTask
  <2>2. pc[w] = "enqueuing" /\ pc'[w] \in {"enqueuing", "sending"} /\ UNCHANGED <<cur, own>>
    BY <1>10 DEF Enqueue, TypeInv, TypeOK
  <2> QED
    BY <2>1, <2>2
<1>11. CASE ReadDependents(w)
  BY <1>11 DEF ReadDependents, database, TypeInv, TypeOK
<1>12. CASE SkipDownstream(w)
  <2>1. status'[cur[w]] \in {status[cur[w]], "absent"}
    BY <1>12 DEF SkipDownstream, SkipTask, ClaimTask, Succeed, FailTask
  <2>2. \/ pc'[w] = "idle" /\ own'[w] = "expired"
        \/ pc'[w] = "judging" /\ UNCHANGED <<cur, own>>
    BY <1>12 DEF SkipDownstream, Finish, TypeInv, TypeOK
  <2> QED
    BY <1>12, <2>1, <2>2 DEF SkipDownstream
<1>13. CASE JudgeJob(w)
  BY <1>13 DEF JudgeJob, Finish, database, TypeInv, TypeOK
<1> QED
  BY <1>1, <1>2, <1>3, <1>4, <1>5, <1>6, <1>7, <1>8, <1>9, <1>10, <1>11, <1>12, <1>13,
     ProcessMoves

\* While the job exists, so do all of its rows.
LEMMA RowsPresent ==
    ASSUME ClaimInv, job # "absent"
    PROVE  Present = Task
  BY DEF ClaimInv, WholeJob, Present

LEMMA NextRow ==
    DeliversOnce /\ UniqueIds /\ NoFanOut /\ RowInv /\ [Next]_vars => RowInv'
<1> SUFFICES ASSUME DeliversOnce, UniqueIds, NoFanOut, RowInv, [Next]_vars
             PROVE  RowInv'
  OBVIOUS
<1>t. TypeInv /\ TypeInv'
  BY NextTypes DEF RowInv, ClaimInv, SafeInv
<1>1. FlowInv' /\ ClaimInv' /\ DeliveryInv'
  BY NextFlow, NextClaim, NextDelivery, UniqueIdsAreConsistent DEF RowInv
<1>2. ASSUME NEW w \in Worker PROVE Place(w)'
  BY <1>t, HeldRow, NextPlace DEF RowInv
<1>3. ASSUME NEW t \in output' PROVE status'[t] = "succeeded"
  <2>t. t \in Task /\ job' # "absent"
    <3>1. t \in Task
      BY <1>t, <1>3 DEF TypeInv, TypeOK
    <3>2. CASE job = "absent"
      <4>1. t \notin output
        BY <3>1, <3>2 DEF RowInv, OutputSucceeded, ClaimInv, SafeInv, DeletedIsEmpty
      <4>2. PICK v \in Worker : Succeed(v) /\ t = cur[v]
        BY <1>3, <4>1, OutputMoves
      <4> QED
        BY <3>1, <3>2, <4>2 DEF Succeed, RowInv, ClaimInv, SafeInv, DeletedIsEmpty
    <3>3. CASE job # "absent" /\ job' = "absent"
      <4>1. ~(\E v \in Worker : CompleteJob(v) \/ FailJob(v)) /\ ~CancelWrite
        BY <3>3 DEF CompleteJob, FailJob, CancelWrite
      <4>2. DeleteJob
        BY <3>3, <4>1, OtherWriters
      <4> QED
        BY <1>3, <4>2 DEF DeleteJob
    <3> QED
      BY <3>1, <3>2, <3>3
  <2>1. status'[t] # "absent"
    BY <1>1, <2>t DEF ClaimInv, WholeJob
  <2>2. CASE t \in output
    BY <2>t, <2>1, <2>2, OutcomeStays DEF RowInv, OutputSucceeded, TerminalTask
  <2>3. CASE t \notin output
    BY <1>t, <1>3, <2>t, <2>3, OutputMoves DEF Succeed, TypeInv, TypeOK
  <2> QED
    BY <2>2, <2>3
<1>4. ASSUME NEW t \in Task, status'[t] = "failed" PROVE attempts'[t] > 0
  <2>1. job' # "absent"
    BY <1>1, <1>4 DEF ClaimInv, SafeInv, DeletedIsEmpty
  <2>2. attempts[t] > 0
    <3>1. CASE status[t] = "failed"
      BY <3>1 DEF RowInv, FailedWasClaimed
    <3>2. CASE status[t] # "failed"
      <4>1. PICK w \in Worker : FailTask(w) /\ t = cur[w]
        BY <1>t, <1>4, <3>2, RowMoves
      <4>2. job # "absent"
        BY <1>t, <4>1 DEF FailTask, RowInv, ClaimInv, SafeInv, DeletedIsEmpty
      <4> QED
        BY <4>1, <4>2 DEF FailTask, InvokingTool, RowInv, FlowInv, CallsAreClaimed
    <3> QED
      BY <3>1, <3>2
  <2> QED
    BY <1>t, <2>1, <2>2, AttemptsGrow
<1>5. ASSUME NEW w \in Worker, pc'[w] = "pruning", NEW t \in batch'[w]
      PROVE  t \in Task /\ DependsOn(t, cur'[w])
  <2> USE DEF TypeInv, TypeOK, GoTo
  <2>1. CASE Rests(w)
    BY <1>5, <2>1 DEF Rests, RowInv, PrunedDepend
  <2>2. CASE ReadDependents(w)
    <3>1. cur[w] \in Task /\ job # "absent" /\ cur' = cur
      BY <1>t, <2>2 DEF ReadDependents, HandlesRow, RowInv, ClaimInv, SafeInv, DeletedIsEmpty
    <3>2. Present = Task
      BY <3>1, RowsPresent DEF RowInv
    <3>3. PICK rows \in RowChoices(Task, TransitiveDependents(Task, {StepOf[cur[w]]})) : t \in rows
      BY <1>t, <1>5, <2>2, <3>2 DEF ReadDependents
    <3> QED
      BY <3>1, <3>3 DEF RowChoices, StepsOf, DependsOn
  <2>3. CASE ~Rests(w) /\ ~ReadDependents(w)
    <3>1. pc'[w] # "pruning"
      <4>1. CASE Closes(w) \/ \E x \in Task, n \in 0..MaxRetries : LoadTask(w, x, n)
        BY <1>t, <4>1 DEF Closes, LoadTask
      <4>2. CASE \E x \in Task : Enqueue(w, x)
        BY <1>t, <4>2 DEF Enqueue
      <4>3. CASE Preflight(w) \/ ClaimTask(w)
        BY <1>t, <4>3 DEF Preflight, ClaimTask
      <4>4. CASE Collect(w) \/ Succeed(w) \/ FailTask(w) \/ Reload(w) \/ ReadJob(w)
                 \/ CompleteJob(w) \/ ReadReady(w) \/ Send(w)
        BY <1>t, <4>4 DEF Collect, Succeed, FailTask, Reload, ReadJob, CompleteJob, ReadReady, Send
      <4>5. CASE ReadTasks(w) \/ SkipDownstream(w) \/ JudgeJob(w)
        BY <1>t, <4>5 DEF ReadTasks, Verdict, SkipDownstream, JudgeJob, Finish
      <4> QED
        BY <1>t, <2>3, <4>1, <4>2, <4>3, <4>4, <4>5, ProcessMoves
    <3> QED
      BY <1>5, <3>1
  <2> QED
    BY <2>1, <2>2, <2>3
<1> QED
  BY <1>1, <1>2, <1>3, <1>4, <1>5 DEF RowInv, OutputSucceeded, FailedWasClaimed, PrunedDepend

\* A row that has succeeded, failed or been skipped keeps that status, as long
\* as the broker delivers no message twice (executor.py:21).
THEOREM RowOutcomesAreFinal ==
    DeliversOnce /\ UniqueIds /\ NoFanOut => (Spec => TaskOutcomeIsFinal)
<1> SUFFICES ASSUME DeliversOnce, UniqueIds, NoFanOut
             PROVE  Spec => TaskOutcomeIsFinal
  OBVIOUS
<1>1. Init => RowInv
  BY InitRow
<1>2. RowInv /\ [Next]_vars => RowInv'
  BY NextRow
<1>3. RowInv /\ [Next]_vars
         => [\A t \in Task : status[t] \in TerminalTask => status'[t] \in {status[t], "absent"}]_vars
  BY OutcomeStays
<1> QED
  BY <1>1, <1>2, <1>3, PTL DEF Spec, TaskOutcomeIsFinal

(***************************************************************************)
(* The outcome of the job                                                  *)
(***************************************************************************)

SomeFailed == \E t \in Task : status[t] = "failed"

NoneFailed == \A t \in Present : status[t] \in {"succeeded", "skipped"}

\* Why a row may be skipped.
Excused == SomeFailed \/ cancel = "accepted"

\* What a process is about to write to the job or to its row is still justified.
Justified(w) ==
    job # "absent" =>
        /\ pc[w] = "skipping" => Excused
        /\ pc[w] = "breaking" => SomeFailed
        /\ pc[w] = "completing" => NoneFailed

JobInv ==
    /\ RowInv
    /\ job = "failed" => SomeFailed
    /\ job = "succeeded" => NoneFailed
    /\ job = "cancelled" => cancel = "accepted"
    /\ (\E t \in Task : status[t] = "skipped") => Excused
    /\ \A w \in Worker : Justified(w)

LEMMA InitJob == UniqueIds /\ Init => JobInv
<1> SUFFICES ASSUME UniqueIds, Init PROVE JobInv
  OBVIOUS
<1>1. \A t \in Task : status[t] # "skipped"
  BY DEF Init
<1> QED
  BY <1>1, InitRow DEF Init, JobInv, Justified

\* While the job exists, these facts stay true.
LEMMA FactsStay ==
    ASSUME UniqueIds, NoFanOut, RowInv, [Next]_vars, job' # "absent"
    PROVE  /\ job # "absent"
           /\ SomeFailed => SomeFailed'
           /\ NoneFailed => NoneFailed'
           /\ Excused => Excused'
<1>1. job # "absent"
  BY OutputGrows DEF RowInv, ClaimInv
<1>2. \A t \in Task : status'[t] # "absent"
  BY NextClaim DEF RowInv, ClaimInv, WholeJob
<1>3. \A t \in Task : status[t] \in TerminalTask => status'[t] = status[t]
  BY <1>2, OutcomeStays
<1>4. SomeFailed => SomeFailed'
  BY <1>3 DEF SomeFailed, TerminalTask
<1>5. NoneFailed => NoneFailed'
  BY <1>1, <1>3, RowsPresent DEF NoneFailed, Present, TerminalTask, RowInv
<1>6. cancel = "accepted" => cancel' = "accepted"
  BY OtherWriters DEF CancelRead, CancelWrite
<1> QED
  BY <1>1, <1>4, <1>5, <1>6 DEF Excused

\* What a process behind its row reads of the rows is what they are.
LEMMA ViewIsTrue ==
    ASSUME NEW w \in Worker, Place(w), pc[w] \in Behind
    PROVE  View(w) = [t \in Present |-> status[t]]
<1>1. cur[w] \in Present /\ own[w] # "expired" => own[w] = status[cur[w]]
  BY DEF Place, Present
<1> QED
  BY <1>1 DEF View

\* What a process is about to write goes on to be justified, as long as its
\* grounds stay.
LEMMA NextJustified ==
    ASSUME TypeInv, [Next]_vars, NEW w \in Worker, Place(w), Justified(w),
           job' # "absent" => /\ job # "absent"
                              /\ SomeFailed => SomeFailed'
                              /\ NoneFailed => NoneFailed'
                              /\ Excused => Excused',
           pc[w] = "loaded" /\ job \in {"failed", "cancelled"} => Excused
    PROVE  Justified(w)'
<1> SUFFICES ASSUME job' # "absent"
             PROVE  /\ pc'[w] = "skipping" => Excused'
                    /\ pc'[w] = "breaking" => SomeFailed'
                    /\ pc'[w] = "completing" => NoneFailed'
  BY DEF Justified
<1>f. /\ job # "absent"
      /\ SomeFailed => SomeFailed'
      /\ NoneFailed => NoneFailed'
      /\ Excused => Excused'
  OBVIOUS
<1> USE DEF TypeInv, TypeOK, GoTo
<1>1. CASE Rests(w)
  BY <1>f, <1>1 DEF Rests, Justified
<1>2. CASE Preflight(w)
  BY <1>f, <1>2 DEF Preflight
<1>3. CASE ReadTasks(w)
  <2>1. View(w) = [t \in Present |-> status[t]]
    BY <1>3, ViewIsTrue DEF ReadTasks, Behind
  <2>2. Verdict(View(w)) = "breaking" => SomeFailed
    BY <2>1 DEF Verdict, SomeFailed, Present
  <2>3. Verdict(View(w)) = "completing" => NoneFailed
    BY <2>1 DEF Verdict, NoneFailed, TerminalTask
  <2>4. pc'[w] = Verdict(View(w))
    BY <1>3 DEF ReadTasks
  <2>5. Verdict(View(w)) # "skipping"
    BY DEF Verdict
  <2> QED
    BY <1>f, <2>2, <2>3, <2>4, <2>5
<1>4. CASE ~Rests(w) /\ ~Preflight(w) /\ ~ReadTasks(w)
  <2>1. pc'[w] \notin {"skipping", "breaking", "completing"}
    <3>1. CASE Closes(w) \/ \E x \in Task, n \in 0..MaxRetries : LoadTask(w, x, n)
      BY <3>1 DEF Closes, LoadTask
    <3>2. CASE \E x \in Task : Enqueue(w, x)
      BY <3>2 DEF Enqueue
    <3>3. CASE ClaimTask(w) \/ Collect(w) \/ Succeed(w) \/ FailTask(w) \/ Reload(w)
               \/ ReadJob(w) \/ CompleteJob(w)
      BY <3>3 DEF ClaimTask, Collect, Succeed, FailTask, Reload, ReadJob, CompleteJob
    <3>4. CASE ReadReady(w) \/ Send(w) \/ ReadDependents(w)
      BY <3>4 DEF ReadReady, Send, ReadDependents
    <3>5. CASE SkipDownstream(w) \/ JudgeJob(w)
      BY <3>5 DEF SkipDownstream, JudgeJob, Finish
    <3> QED
      BY <1>4, <3>1, <3>2, <3>3, <3>4, <3>5, ProcessMoves
  <2> QED
    BY <2>1
<1> QED
  BY <1>1, <1>2, <1>3, <1>4

\* A process that writes an outcome to the job has rows to show for it.
LEMMA VerdictsHold ==
    ASSUME TypeInv, NEW w \in Worker, CompleteJob(w) \/ FailJob(w), Place(w), Justified(w),
           status[cur[w]] # "absent"
    PROVE  (job' = "succeeded" /\ NoneFailed) \/ (job' = "failed" /\ SomeFailed)
<1>1. CASE CompleteJob(w)
  BY <1>1 DEF CompleteJob, Justified
<1>2. CASE FailJob(w)
  <2>1. cur[w] \in Task /\ status[cur[w]] = "failed"
    BY <1>2 DEF FailJob, Place, TypeInv, HandlesRow
  <2> QED
    BY <1>2, <2>1 DEF FailJob, SomeFailed
<1> QED
  BY <1>1, <1>2

\* ... in particular where the rows of the job are all there.
LEMMA OutcomesHaveGrounds ==
    ASSUME JobInv, NEW w \in Worker, CompleteJob(w) \/ FailJob(w)
    PROVE  (job' = "succeeded" /\ NoneFailed) \/ (job' = "failed" /\ SomeFailed)
<1>1. pc[w] # "idle" /\ job # "absent"
  BY DEF CompleteJob, FailJob
<1>2. status[cur[w]] # "absent"
  BY <1>1 DEF JobInv, RowInv, ClaimInv, WholeJob, SafeInv, TypeInv, HandlesRow
<1> QED
  BY <1>2, VerdictsHold DEF JobInv, RowInv, ClaimInv, SafeInv

LEMMA NextJob ==
    DeliversOnce /\ UniqueIds /\ NoFanOut /\ JobInv /\ [Next]_vars => JobInv'
<1> SUFFICES ASSUME DeliversOnce, UniqueIds, NoFanOut, JobInv, [Next]_vars
             PROVE  JobInv'
  OBVIOUS
<1>r. RowInv /\ RowInv'
  BY NextRow DEF JobInv
<1>1. /\ job' = "failed" => SomeFailed'
      /\ job' = "succeeded" => NoneFailed'
  <2> SUFFICES ASSUME job' \in {"failed", "succeeded"}
               PROVE  /\ job' = "failed" => SomeFailed'
                      /\ job' = "succeeded" => NoneFailed'
    OBVIOUS
  <2>1. (SomeFailed => SomeFailed') /\ (NoneFailed => NoneFailed')
    BY <1>r, FactsStay
  <2>2. CASE job' = job
    BY <2>1, <2>2 DEF JobInv
  <2>3. CASE job' # job
    <3>1. ~CancelWrite /\ ~DeleteJob
      BY <2>3 DEF CancelWrite, DeleteJob
    <3>2. PICK w \in Worker : CompleteJob(w) \/ FailJob(w)
      BY <2>3, <3>1, OtherWriters
    <3> QED
      BY <2>1, <3>2, OutcomesHaveGrounds
  <2> QED
    BY <2>2, <2>3
<1>2. job' = "cancelled" => cancel' = "accepted"
  <2> SUFFICES ASSUME job' = "cancelled" PROVE cancel' = "accepted"
    OBVIOUS
  <2>1. CASE job' = job
    BY <2>1, OtherWriters DEF JobInv, CancelRead, CancelWrite
  <2>2. CASE job' # job
    BY <2>2, OtherWriters DEF CompleteJob, FailJob, CancelWrite, DeleteJob
  <2> QED
    BY <2>1, <2>2
<1>3. ASSUME NEW t \in Task, status'[t] = "skipped" PROVE Excused'
  <2>1. job' # "absent"
    BY <1>r, <1>3 DEF RowInv, ClaimInv, SafeInv, DeletedIsEmpty
  <2>2. job # "absent" /\ (Excused => Excused')
    BY <1>r, <2>1, FactsStay
  <2>3. Excused
    <3>1. CASE status[t] = "skipped"
      BY <3>1 DEF JobInv
    <3>2. CASE status[t] # "skipped"
      <4>1. PICK w \in Worker : SkipTask(w) \/ SkipDownstream(w)
        BY <1>r, <1>3, <3>2, RowMoves DEF RowInv, ClaimInv, SafeInv
      <4>2. CASE SkipTask(w)
        BY <2>2, <4>2 DEF SkipTask, JobInv, Justified
      <4>3. CASE SkipDownstream(w)
        BY <2>2, <4>3
           DEF SkipDownstream, JobInv, RowInv, Place, ClaimInv, WholeJob, SafeInv, TypeInv,
               HandlesRow, Excused, SomeFailed
      <4> QED
        BY <4>1, <4>2, <4>3
    <3> QED
      BY <3>1, <3>2
  <2> QED
    BY <2>2, <2>3
<1>4. ASSUME NEW w \in Worker PROVE Justified(w)'
  <2>1. TypeInv /\ Place(w) /\ Justified(w)
    BY DEF JobInv, RowInv, ClaimInv, SafeInv
  <2>2. job \in {"failed", "cancelled"} => Excused
    BY DEF JobInv, Excused
  <2> QED
    BY <1>r, <2>1, <2>2, FactsStay, NextJustified
<1> QED
  BY <1>r, <1>1, <1>2, <1>3, <1>4 DEF JobInv

\* As long as the broker delivers no message twice, a failed job has a failed row
\* to show for it, however its last rows end side by side and whatever was read
\* of them before (executor.py:526, 573).
THEOREM FailureHasCause ==
    DeliversOnce /\ UniqueIds /\ NoFanOut => (Spec => []JobFailureHasCause)
<1> SUFFICES ASSUME DeliversOnce, UniqueIds, NoFanOut
             PROVE  Spec => []JobFailureHasCause
  OBVIOUS
<1>1. Init => JobInv
  BY InitJob
<1>2. JobInv /\ [Next]_vars => JobInv'
  BY NextJob
<1>3. JobInv => JobFailureHasCause
  BY DEF JobInv, JobFailureHasCause, SomeFailed
<1> QED
  BY <1>1, <1>2, <1>3, PTL DEF Spec

\* ... and a job that nobody cancelled succeeds only with every one of its rows
\* (executor.py:568).
THEOREM SuccessIsSound ==
    DeliversOnce /\ UniqueIds /\ NoFanOut => (Spec => []JobSuccessSound)
<1> SUFFICES ASSUME DeliversOnce, UniqueIds, NoFanOut
             PROVE  Spec => []JobSuccessSound
  OBVIOUS
<1>1. Init => JobInv
  BY InitJob
<1>2. JobInv /\ [Next]_vars => JobInv'
  BY NextJob
<1>3. JobInv => JobSuccessSound
  BY DEF JobInv, JobSuccessSound, SomeFailed, NoneFailed, Excused, Present
<1> QED
  BY <1>1, <1>2, <1>3, PTL DEF Spec

\* ... and it keeps the outcome it has (executor.py:562).
THEOREM JobOutcomesAreFinal ==
    DeliversOnce /\ UniqueIds /\ NoFanOut => (Spec => JobOutcomeIsFinal)
<1> SUFFICES ASSUME DeliversOnce, UniqueIds, NoFanOut
             PROVE  Spec => JobOutcomeIsFinal
  OBVIOUS
<1>1. Init => JobInv
  BY InitJob
<1>2. JobInv /\ [Next]_vars => JobInv'
  BY NextJob
<1>3. ASSUME JobInv, [Next]_vars, job \in TerminalJob, cancel \in {"none", "refused"}, job' # job
      PROVE  job' = "absent"
  <2>1. ~CancelWrite
    BY <1>3 DEF CancelWrite
  <2>2. ASSUME NEW w \in Worker, CompleteJob(w) \/ FailJob(w) PROVE FALSE
    <3>1. (job' = "succeeded" /\ NoneFailed) \/ (job' = "failed" /\ SomeFailed)
      BY <1>3, <2>2, OutcomesHaveGrounds
    <3>2. ~(NoneFailed /\ SomeFailed)
      BY DEF NoneFailed, SomeFailed, Present
    <3> QED
      BY <1>3, <3>1, <3>2 DEF JobInv, TerminalJob
  <2>3. DeleteJob
    BY <1>3, <2>1, <2>2, OtherWriters
  <2> QED
    BY <2>3 DEF DeleteJob
<1>4. JobInv /\ [Next]_vars
        => [(job \in TerminalJob /\ cancel \in {"none", "refused"}) => (job' \in {job, "absent"})]_vars
  BY <1>3
<1> QED
  BY <1>1, <1>2, <1>4, PTL DEF Spec, JobOutcomeIsFinal

(***************************************************************************)
(* What a synthesis row is given                                           *)
(***************************************************************************)

\* The tool_call rows upstream of a row.
Upstream(t) == { r \in Task \ Synthesis : DependsOn(t, r) }

SynthesisInv ==
    /\ RowInv
    /\ \A w \in Worker :
          pc[w] = "running" /\ cur[w] \in Synthesis /\ job # "absent"
              => Upstream(cur[w]) \subseteq batch[w]
    /\ \A t \in Synthesis \cap output : Upstream(t) \subseteq collected[t]

LEMMA InitSynthesis == UniqueIds /\ Init => SynthesisInv
  BY InitRow DEF Init, SynthesisInv

\* A row that is released has the outputs of all the rows upstream of it.
LEMMA CollectsUpstream ==
    ASSUME UniqueIds, RowInv, job # "absent", NEW t \in Task, Released(t, output)
    PROVE  Upstream(t) \subseteq CollectableRows
<1> SUFFICES ASSUME NEW r \in Task \ Synthesis, DependsOn(t, r), r \notin output PROVE FALSE
  BY DEF Upstream, CollectableRows, RowInv, OutputSucceeded
<1>1. output \in SUBSET Task /\ \A x \in output : Released(x, output)
  BY DEF RowInv, ClaimInv, OutputReleased, SafeInv, TypeInv, TypeOK
<1> QED
  BY <1>1, BlockedDownstream

LEMMA NextSynthesis ==
    DeliversOnce /\ UniqueIds /\ NoFanOut /\ SynthesisInv /\ [Next]_vars
        => SynthesisInv'
<1> SUFFICES ASSUME DeliversOnce, UniqueIds, NoFanOut, SynthesisInv, [Next]_vars
             PROVE  SynthesisInv'
  OBVIOUS
<1>r. RowInv /\ RowInv'
  BY NextRow DEF SynthesisInv
<1>t. TypeInv
  BY <1>r DEF RowInv, ClaimInv, SafeInv
<1>1. ASSUME NEW w \in Worker, pc'[w] = "running", cur'[w] \in Synthesis, job' # "absent"
      PROVE  Upstream(cur'[w]) \subseteq batch'[w]
  <2> USE DEF TypeInv, TypeOK, GoTo
  <2>1. job # "absent"
    BY <1>1, OutputGrows
  <2>2. CASE Rests(w)
    BY <1>1, <2>1, <2>2 DEF Rests, SynthesisInv
  <2>3. CASE Collect(w)
    <3>1. cur[w] \in Task /\ Released(cur[w], output)
      BY <1>r, <2>1, <2>3
         DEF Collect, RowInv, ClaimInv, SafeInv, ReleasedWork, MayRun, HandlesRow
    <3>2. Upstream(cur[w]) \subseteq CollectableRows
      BY <1>r, <2>1, <3>1, CollectsUpstream
    <3> QED
      BY <1>t, <2>3, <3>2 DEF Collect
  <2>4. CASE ~Rests(w) /\ ~Collect(w)
    <3>1. CASE Closes(w) \/ \E x \in Task, n \in 0..MaxRetries : LoadTask(w, x, n)
      BY <1>t, <1>1, <3>1 DEF Closes, LoadTask
    <3>2. CASE \E x \in Task : Enqueue(w, x)
      BY <1>t, <1>1, <3>2 DEF Enqueue
    <3>3. CASE Preflight(w) \/ ClaimTask(w) \/ Succeed(w) \/ FailTask(w) \/ Reload(w)
               \/ ReadJob(w) \/ CompleteJob(w)
      BY <1>t, <1>1, <3>3
         DEF Preflight, ClaimTask, Succeed, FailTask, Reload, ReadJob, CompleteJob
    <3>4. CASE ReadReady(w) \/ Send(w) \/ ReadDependents(w)
      BY <1>t, <1>1, <3>4 DEF ReadReady, Send, ReadDependents
    <3>5. CASE ReadTasks(w) \/ SkipDownstream(w) \/ JudgeJob(w)
      BY <1>t, <1>1, <3>5 DEF ReadTasks, Verdict, SkipDownstream, JudgeJob, Finish
    <3> QED
      BY <1>t, <2>4, <3>1, <3>2, <3>3, <3>4, <3>5, ProcessMoves
  <2> QED
    BY <2>2, <2>3, <2>4
<1>2. ASSUME NEW t \in Synthesis \cap output' PROVE Upstream(t) \subseteq collected'[t]
  <2>1. ~DeleteJob
    BY <1>2 DEF DeleteJob
  <2>2. ASSUME NEW w \in Worker, Succeed(w), t = cur[w] PROVE Upstream(t) \subseteq collected'[t]
    <3>1. cur[w] \in Task /\ job # "absent"
      BY <1>r, <2>2
         DEF Succeed, RowInv, ClaimInv, SafeInv, DeletedIsEmpty, TypeInv, HandlesRow
    <3> QED
      BY <1>2, <1>t, <2>2, <3>1 DEF Succeed, SynthesisInv, TypeInv, TypeOK
  <2>3. CASE ~\E w \in Worker : Succeed(w) /\ t = cur[w]
    <3>1. t \in output
      BY <1>2, <2>3, OutputMoves
    <3>2. collected'[t] = collected[t]
      BY <1>2, <1>t, <2>1, <2>3, GraphAssumption, OtherWriters DEF Succeed, TypeInv, TypeOK
    <3> QED
      BY <1>2, <3>1, <3>2 DEF SynthesisInv
  <2> QED
    BY <2>2, <2>3
<1> QED
  BY <1>r, <1>1, <1>2 DEF SynthesisInv

\* As long as the broker delivers no message twice, a synthesis row that has
\* answered was given the output of every tool_call row upstream of it, direct
\* or not: none had been written over (executor.py:343-361).
THEOREM SynthesisIsComplete ==
    DeliversOnce /\ UniqueIds /\ NoFanOut => (Spec => []SynthesisSeesInputs)
<1> SUFFICES ASSUME DeliversOnce, UniqueIds, NoFanOut
             PROVE  Spec => []SynthesisSeesInputs
  OBVIOUS
<1>1. Init => SynthesisInv
  BY InitSynthesis
<1>2. SynthesisInv /\ [Next]_vars => SynthesisInv'
  BY NextSynthesis
<1>3. ASSUME SynthesisInv PROVE SynthesisSeesInputs
  <2> SUFFICES ASSUME NEW t \in Synthesis \cap output, NEW r \in Present \ Synthesis,
                      StepOf[t] \in TransitiveDependents(Present, {StepOf[r]})
               PROVE  r \in collected[t]
    BY DEF SynthesisSeesInputs
  <2>1. Present = Task
    BY <1>3, RowsPresent DEF SynthesisInv, RowInv, ClaimInv, SafeInv, DeletedIsEmpty, Present
  <2>2. r \in Upstream(t)
    BY <2>1 DEF Upstream, DependsOn
  <2> QED
    BY <1>3, <2>2 DEF SynthesisInv
<1> QED
  BY <1>1, <1>2, <1>3, PTL DEF Spec

(***************************************************************************)
(* Steps that run one by one                                               *)
(*                                                                         *)
(* Whatever is delivered again: while a process has a success to follow    *)
(* up, nothing behind its row is queued, so that no other process has.     *)
(***************************************************************************)

HasMessage(t) == InQueue(t) \/ \E w \in Worker : cur[w] = t \/ AboutToSend(w, t)

Announced == \A t \in Task : HasMessage(t) => status[t] # "pending"

After == {"succeeded", "counting", "tallying", "completing", "breaking",
          "remembering", "dispatching"}

\* The process is following up a success, or has found a row to queue.
Deciding(w) == pc[w] \in After \/ (pc[w] = "enqueuing" /\ batch[w] # {})

NothingBehind ==
    \A w \in Worker, u \in Task :
        Deciding(w) /\ DependsOn(u, cur[w]) => attempts[u] = 0 /\ status[u] # "queued"

OwnsClaimed == \A w \in Worker : Owns(w) /\ job # "absent" => attempts[cur[w]] > 0

Over == \A t \in Task : status[t] \in TerminalTask

SequenceInv ==
    /\ ClaimInv
    /\ Announced
    /\ NothingBehind
    /\ OwnsClaimed

LEMMA SequentialHasNoFanOut == Sequential => NoFanOut
  BY DEF Sequential, NoFanOut

LEMMA InitSequence == UniqueIds /\ Init => SequenceInv
<1> SUFFICES ASSUME UniqueIds, Init PROVE SequenceInv
  OBVIOUS
<1>1. Announced
  BY InitDelivery DEF DeliveryInv, OneMessage, Announced, HasMessage
<1>2. NothingBehind /\ OwnsClaimed
  BY DEF Init, NothingBehind, OwnsClaimed, Deciding, After, Owns
<1> QED
  BY <1>1, <1>2, InitClaim DEF SequenceInv

\* A message is sent by a process that handles the row or is about to send it.
LEMMA QueueMoves ==
    ASSUME TypeInv, [Next]_vars, NEW t \in Task, InQueue(t)', ~InQueue(t)
    PROVE  \E w \in Worker : cur[w] = t \/ AboutToSend(w, t)
<1>t. \A n \in 0..MaxRetries : <<t, n>> \in Message /\ mq[<<t, n>>] \in Nat
  BY DEF TypeInv, TypeOK, Message
<1>n. PICK n \in 0..MaxRetries : mq'[<<t, n>>] > 0 /\ ~(mq[<<t, n>>] > 0)
  BY DEF InQueue
<1>1. ASSUME NEW u \in Task, NEW k, Take(u, k) PROVE FALSE
  <2>1. mq'[<<t, n>>] = mq[<<t, n>>] \/ mq'[<<t, n>>] = mq[<<t, n>>] - 1
    BY <1>t, <1>1 DEF Take, TypeInv, TypeOK
  <2> QED
    BY <1>t, <1>n, <2>1
<1>2. ASSUME NEW u, NEW k, Put(u, k) PROVE u = t
  BY <1>t, <1>n, <1>2 DEF Put, TypeInv, TypeOK
<1>3. ASSUME mq' = mq PROVE FALSE
  BY <1>n, <1>3
<1>4. ASSUME NEW w \in Worker, TakeMessage(w) PROVE FALSE
  BY <1>1, <1>4 DEF TakeMessage, DropMessage, LoadTask
<1>5. ASSUME NEW w \in Worker, HandlerStep(w) PROVE cur[w] = t \/ AboutToSend(w, t)
  <2>1. CASE Retry(w)
    BY <1>2, <2>1 DEF Retry
  <2>2. CASE Send(w)
    BY <1>2, <2>2 DEF Send, AboutToSend
  <2>3. CASE \E u \in Task : Enqueue(w, u)
    BY <1>3, <2>3 DEF Enqueue
  <2> QED
    BY <1>3, <1>5, <2>1, <2>2, <2>3, OtherStepsAreQuiet
<1>6. ASSUME NEW w \in Worker, Crash(w) \/ Redeliver(w) PROVE cur[w] = t
  BY <1>2, <1>3, <1>6 DEF Crash, Redeliver
<1>7. CASE Api \/ UNCHANGED vars
  BY <1>3, <1>7 DEF Api, CancelRead, CancelWrite, DeleteJob, vars
<1> QED
  BY <1>4, <1>5, <1>6, <1>7 DEF Next

\* A row gets its message when it is queued.
LEMMA MessageMoves ==
    ASSUME TypeInv, [Next]_vars, NEW t \in Task, HasMessage(t)', ~HasMessage(t)
    PROVE  \E w \in Worker : Enqueue(w, t) /\ status[t] = "pending"
<1>1. ~InQueue(t)'
  BY QueueMoves DEF HasMessage
<1>2. PICK w \in Worker : cur'[w] = t \/ AboutToSend(w, t)'
  BY <1>1 DEF HasMessage
<1> USE DEF TypeInv, TypeOK, GoTo, AboutToSend
<1>3. cur[w] # t /\ ~AboutToSend(w, t)
  BY DEF HasMessage
<1>4. CASE Rests(w) \/ Closes(w)
  BY <1>2, <1>3, <1>4, ExecutorAssumption DEF Rests, Closes
<1>5. ASSUME NEW u \in Task, NEW n \in 0..MaxRetries, LoadTask(w, u, n) PROVE FALSE
  BY <1>2, <1>3, <1>5 DEF LoadTask, HasMessage, InQueue
<1>6. ASSUME NEW u \in Task, Enqueue(w, u) PROVE t = u /\ status[t] = "pending"
  BY <1>2, <1>3, <1>6 DEF Enqueue, Enqueueable
<1>7. CASE Preflight(w) \/ ClaimTask(w) \/ Collect(w) \/ Succeed(w) \/ FailTask(w) \/ Reload(w)
           \/ ReadJob(w) \/ CompleteJob(w)
  BY <1>2, <1>3, <1>7
     DEF Preflight, ClaimTask, Collect, Succeed, FailTask, Reload, ReadJob, CompleteJob
<1>8. CASE ReadReady(w) \/ Send(w) \/ ReadDependents(w) \/ ReadTasks(w)
  BY <1>2, <1>3, <1>8 DEF ReadReady, Send, ReadDependents, ReadTasks, Verdict
<1>9. CASE SkipDownstream(w) \/ JudgeJob(w)
  BY <1>2, <1>3, <1>9, ExecutorAssumption DEF SkipDownstream, JudgeJob, Finish
<1> QED
  BY <1>4, <1>5, <1>6, <1>7, <1>8, <1>9, ProcessMoves

LEMMA NextAnnounced ==
    ASSUME TypeInv, [Next]_vars, Announced
    PROVE  Announced'
<1> SUFFICES ASSUME NEW t \in Task, HasMessage(t)', status'[t] = "pending" PROVE FALSE
  BY DEF Announced
<1>1. ~HasMessage(t)
  BY NeverPendingAgain DEF Announced
<1>2. PICK w \in Worker : Enqueue(w, t) /\ status[t] = "pending"
  BY <1>1, MessageMoves
<1> QED
  BY <1>2 DEF Enqueue, Enqueueable

\* A process gets something to decide by succeeding.
LEMMA DecidersSucceed ==
    ASSUME ClaimInv, [Next]_vars, NEW w \in Worker, Deciding(w)', ~Succeed(w)
    PROVE  /\ Deciding(w) /\ cur'[w] = cur[w]
           /\ pc'[w] \in After => pc[w] \in After
<1>t. TypeInv
  BY DEF ClaimInv, SafeInv
<1> USE <1>t DEF Deciding, After, TypeInv, TypeOK, GoTo
<1>1. CASE Rests(w) \/ Closes(w)
  BY <1>1 DEF Rests, Closes
<1>2. CASE \E t \in Task, n \in 0..MaxRetries : LoadTask(w, t, n)
  BY <1>2 DEF LoadTask
<1>3. CASE Preflight(w) \/ ClaimTask(w) \/ Collect(w) \/ FailTask(w) \/ ReadDependents(w)
  BY <1>3 DEF Preflight, ClaimTask, Collect, FailTask, ReadDependents
<1>4. CASE Reload(w) \/ ReadJob(w) \/ CompleteJob(w) \/ ReadTasks(w)
  BY <1>4 DEF Reload, ReadJob, CompleteJob, ReadTasks, Verdict
<1>5. CASE ReadReady(w)
  BY <1>5 DEF ReadReady
<1>6. CASE Send(w)
  BY <1>6 DEF Send, ClaimInv, OneRow
<1>7. CASE \E t \in Task : Enqueue(w, t)
  BY <1>7 DEF Enqueue
<1>8. CASE SkipDownstream(w) \/ JudgeJob(w)
  BY <1>8 DEF SkipDownstream, JudgeJob, Finish
<1> QED
  BY <1>1, <1>2, <1>3, <1>4, <1>5, <1>6, <1>7, <1>8, ProcessMoves

\* With one order of the steps, only one process decides or calls a tool, where
\* one decides.
LEMMA NoRival ==
    ASSUME UniqueIds, Sequential, SequenceInv, job # "absent",
           NEW v \in Worker, NEW w \in Worker, v # w,
           Deciding(w), Deciding(v) \/ InvokingTool(v)
    PROVE  FALSE
<1>1. Owns(v) /\ Owns(w)
  BY DEF Owns, Deciding, After, InvokingTool
<1>2. cur[v] \in Task /\ cur[w] \in Task /\ cur[v] # cur[w]
  BY <1>1 DEF Owns, SequenceInv, ClaimInv, SingleOwner, SafeInv, TypeInv, HandlesRow
<1>3. attempts[cur[v]] > 0 /\ attempts[cur[w]] > 0
  BY <1>1 DEF SequenceInv, OwnsClaimed
<1>4. ~DependsOn(cur[v], cur[w])
  BY <1>2, <1>3 DEF SequenceInv, NothingBehind
<1>5. DependsOn(cur[w], cur[v])
  BY <1>2, <1>4 DEF Sequential
<1>6. CASE Deciding(v)
  BY <1>2, <1>3, <1>5, <1>6 DEF SequenceInv, NothingBehind
<1>7. CASE InvokingTool(v)
  <2>1. cur[v] \notin output
    BY <1>7 DEF SequenceInv, ClaimInv, CallOnce
  <2>2. output \in SUBSET Task /\ \A x \in output : Released(x, output)
    BY DEF SequenceInv, ClaimInv, OutputReleased, SafeInv, TypeInv, TypeOK
  <2>3. Released(cur[w], output)
    BY <1>1 DEF Owns, SequenceInv, ClaimInv, SafeInv, ReleasedWork, MayRun
  <2> QED
    BY <1>2, <1>5, <2>1, <2>2, <2>3, BlockedDownstream
<1> QED
  BY <1>6, <1>7

LEMMA NextNothingBehind ==
    ASSUME UniqueIds, Sequential, SequenceInv, [Next]_vars
    PROVE  NothingBehind'
<1> SUFFICES ASSUME NEW w \in Worker, NEW u \in Task, Deciding(w)', DependsOn(u, cur'[w])
             PROVE  attempts'[u] = 0 /\ status'[u] # "queued"
  BY DEF NothingBehind, DependsOn
<1>t. TypeInv
  BY DEF SequenceInv, ClaimInv, SafeInv
\* The process has just succeeded: what depends on its row was not released.
<1>1. CASE Succeed(w)
  <2>1. cur[w] \in Task /\ cur[w] \notin output /\ job # "absent" /\ cur' = cur
    BY <1>1, <1>t
       DEF Succeed, InvokingTool, SequenceInv, ClaimInv, CallOnce, SafeInv, DeletedIsEmpty,
           TypeInv, HandlesRow
  <2>2. output \in SUBSET Task /\ \A x \in output : Released(x, output)
    BY DEF SequenceInv, ClaimInv, OutputReleased, SafeInv, TypeInv, TypeOK
  <2>3. ~Released(u, output)
    BY <2>1, <2>2, BlockedDownstream
  <2>4. status[u] # "queued" /\ attempts[u] = 0
    BY <1>t, <2>1, <2>3
       DEF SequenceInv, ClaimInv, SafeInv, ReleasedRows, MayRun, TypeInv, TypeOK
  <2>5. attempts' = attempts
        /\ status' = [status EXCEPT ![cur[w]] = "succeeded"]
    BY <1>1 DEF Succeed
  <2> QED
    BY <1>t, <2>1, <2>4, <2>5 DEF TypeInv, TypeOK
<1>2. CASE ~Succeed(w)
  <2>1. Deciding(w) /\ cur'[w] = cur[w]
    BY <1>2, DecidersSucceed DEF SequenceInv
  <2>2. attempts[u] = 0 /\ status[u] # "queued"
    BY <2>1 DEF SequenceInv, NothingBehind
  <2>3. attempts'[u] = 0
    <3>1. ASSUME NEW v \in Worker, ClaimTask(v) PROVE attempts'[u] = 0
      <4>1. cur[v] \in Task /\ status[cur[v]] # "pending"
        BY <1>t, <3>1, ClaimCounts DEF SequenceInv, Announced, HasMessage
      <4>2. cur[v] # u
        BY <2>2, <3>1, <4>1 DEF ClaimTask, Claimable
      <4> QED
        BY <1>t, <2>2, <3>1, <4>2, ClaimCounts
    <3>2. CASE (\E v \in Worker : Succeed(v)) \/ DeleteJob \/ attempts' = attempts
      BY <2>2, <3>2 DEF Succeed, DeleteJob
    <3> QED
      BY <3>1, <3>2, StepEffects
  <2>4. ASSUME status'[u] = "queued" PROVE FALSE
    <3>1. PICK v \in Worker, x \in Task : Enqueue(v, x) /\ (u = dirty[v] \/ (u = x /\ status[u] = "pending"))
      BY <1>t, <2>2, <2>4, RowMoves
    <3>2. pc[v] = "enqueuing" /\ x \in batch[v] /\ u # dirty[v]
      BY <3>1, ExecutorAssumption DEF Enqueue, SequenceInv, ClaimInv, OneRow
    <3>3. job # "absent" /\ Deciding(v)
      BY <3>1, <3>2 DEF SequenceInv, ClaimInv, SafeInv, DeletedIsEmpty, Deciding
    <3>4. v = w
      BY <2>1, <3>3, NoRival
    <3>5. \A y, z \in batch[w] : y = z
      BY <3>2, <3>4 DEF SequenceInv, ClaimInv, OneRow
    <3>6. batch'[w] = {} /\ pc'[w] \notin After
      BY <1>t, <3>1, <3>2, <3>4, <3>5 DEF Enqueue, GoTo, After, TypeInv, TypeOK
    <3> QED
      BY <3>6 DEF Deciding
  <2> QED
    BY <2>3, <2>4
<1> QED
  BY <1>1, <1>2

LEMMA NextSequence ==
    UniqueIds /\ Sequential /\ SequenceInv /\ [Next]_vars => SequenceInv'
<1> SUFFICES ASSUME UniqueIds, Sequential, SequenceInv, [Next]_vars PROVE SequenceInv'
  OBVIOUS
<1>t. TypeInv
  BY DEF SequenceInv, ClaimInv, SafeInv
<1>1. ClaimInv'
  BY NextClaim, SequentialHasNoFanOut DEF SequenceInv
<1>2. Announced' /\ NothingBehind'
  BY <1>t, NextAnnounced, NextNothingBehind DEF SequenceInv
<1>3. ASSUME NEW w \in Worker, Owns(w)', job' # "absent" PROVE attempts'[cur'[w]] > 0
  <2>1. CASE ClaimTask(w)
    BY <1>t, <2>1, ClaimCounts DEF ClaimTask
  <2>2. CASE ~ClaimTask(w)
    <3>1. Owns(w) /\ cur'[w] = cur[w] /\ job # "absent"
      BY <1>t, <1>3, <2>2, OwnersClaim, OutputGrows
    <3>2. cur[w] \in Task
      BY <1>t, <3>1 DEF Owns, TypeInv, HandlesRow
    <3> QED
      BY <1>t, <1>3, <3>1, <3>2, AttemptsGrow DEF SequenceInv, OwnsClaimed
  <2> QED
    BY <2>1, <2>2
<1> QED
  BY <1>1, <1>2, <1>3 DEF SequenceInv, OwnsClaimed

\* Once the result is stored the rows have ended, and nobody is left who would
\* store it again.
MemoryInv ==
    /\ SequenceInv
    /\ job = "succeeded" => Over
    /\ \A w \in Worker : pc[w] = "completing" /\ job # "absent" => Over
    /\ memories \in {0, 1}
    /\ memories = 1 /\ job # "absent"
          => Over /\ \A w \in Worker : ~InvokingTool(w) /\ pc[w] \notin After

LEMMA InitMemory == UniqueIds /\ Init => MemoryInv
  BY InitSequence DEF Init, MemoryInv

LEMMA OverStays ==
    ASSUME UniqueIds, NoFanOut, ClaimInv, [Next]_vars, job' # "absent", Over
    PROVE  Over'
<1>1. \A t \in Task : status'[t] # "absent"
  BY NextClaim DEF ClaimInv, WholeJob
<1>2. \A t \in Task : Ended(t)'
  BY RowsAge DEF Over, Ended
<1> QED
  BY <1>1, <1>2 DEF Over, Ended

LEMMA NextMemory ==
    UniqueIds /\ Sequential /\ MemoryInv /\ [Next]_vars => MemoryInv'
<1> SUFFICES ASSUME UniqueIds, Sequential, MemoryInv, [Next]_vars PROVE MemoryInv'
  OBVIOUS
<1>c. SequenceInv /\ SequenceInv' /\ ClaimInv /\ NoFanOut
  BY NextSequence, SequentialHasNoFanOut DEF MemoryInv, SequenceInv
<1>t. TypeInv
  BY <1>c DEF ClaimInv, SafeInv
<1>o. job' # "absent" => job # "absent" /\ (Over => Over')
  BY <1>c, OverStays, OutputGrows
<1>1. job' = "succeeded" => Over'
  <2> SUFFICES ASSUME job' = "succeeded" PROVE Over
    BY <1>o
  <2>1. CASE job' = job
    BY <2>1 DEF MemoryInv
  <2>2. CASE job' # job
    <3>1. PICK w \in Worker : CompleteJob(w) /\ pc[w] = "completing"
      BY <2>2, OtherWriters DEF CompleteJob, FailJob, CancelWrite, DeleteJob
    <3> QED
      BY <3>1 DEF CompleteJob, MemoryInv
  <2> QED
    BY <2>1, <2>2
<1>2. ASSUME NEW w \in Worker, pc'[w] = "completing", job' # "absent" PROVE Over'
  <2> SUFFICES Over
    BY <1>2, <1>o
  <2>1. ~Succeed(w) /\ Deciding(w)'
    BY <1>t, <1>2 DEF Succeed, GoTo, Deciding, After, TypeInv, TypeOK
  <2>2. CASE pc[w] = "completing"
    BY <1>2, <1>o, <2>2 DEF MemoryInv
  <2>3. CASE ReadTasks(w)
    <3>1. \A t \in Present : View(w)[t] \in TerminalTask
      BY <1>t, <1>2, <2>3 DEF ReadTasks, Verdict, View, GoTo, TypeInv, TypeOK
    <3>2. Present = Task
      BY <1>c, <1>2, <1>o, RowsPresent
    <3>3. cur[w] \in Task /\ Ended(cur[w])
      BY <1>c, <1>t, <2>3
         DEF ReadTasks, ClaimInv, EndedRows, Owns, InvokingTool, TypeInv, HandlesRow
    <3>4. \A t \in Task : t # cur[w] => status[t] \in TerminalTask
      BY <3>1, <3>2 DEF View
    <3> QED
      BY <3>2, <3>3, <3>4 DEF Over, Ended, Present
  <2>4. CASE pc[w] # "completing" /\ ~ReadTasks(w)
    <3> USE DEF TypeInv, TypeOK, GoTo
    <3>1. CASE Rests(w) \/ Closes(w) \/ \E x \in Task, n \in 0..MaxRetries : LoadTask(w, x, n)
      BY <1>t, <1>2, <2>4, <3>1 DEF Rests, Closes, LoadTask
    <3>2. CASE \E x \in Task : Enqueue(w, x)
      BY <1>t, <1>2, <3>2 DEF Enqueue
    <3>3. CASE Preflight(w) \/ ClaimTask(w) \/ Collect(w) \/ FailTask(w) \/ Reload(w)
               \/ ReadJob(w) \/ CompleteJob(w)
      BY <1>t, <1>2, <3>3 DEF Preflight, ClaimTask, Collect, FailTask, Reload, ReadJob, CompleteJob
    <3>4. CASE ReadReady(w) \/ Send(w) \/ ReadDependents(w)
      BY <1>t, <1>2, <3>4 DEF ReadReady, Send, ReadDependents
    <3>5. CASE SkipDownstream(w) \/ JudgeJob(w)
      BY <1>t, <1>2, <3>5 DEF SkipDownstream, JudgeJob, Finish
    <3> QED
      BY <1>t, <2>1, <2>4, <3>1, <3>2, <3>3, <3>4, <3>5, ProcessMoves
  <2> QED
    BY <2>2, <2>3, <2>4
\* The step that stores the result is taken by the last process behind a success.
<1>3. ASSUME NEW w \in Worker, RememberJob(w), job = "succeeded"
      PROVE  /\ memories = 0 /\ memories' = 1 /\ Over
             /\ \A v \in Worker : ~InvokingTool(v)' /\ pc'[v] \notin After
  <2>1. Deciding(w) /\ pc[w] \in After
    BY <1>3 DEF RememberJob, Deciding, After
  <2>2. memories = 0 /\ memories' = 1 /\ Over
    BY <1>3, <2>1 DEF RememberJob, MemoryInv
  <2>3. ASSUME NEW v \in Worker, v # w PROVE ~InvokingTool(v) /\ pc[v] \notin After
    BY <1>3, <1>c, <2>1, <2>3, NoRival DEF Deciding
  <2>4. pc'[w] = "idle" /\ \A v \in Worker : v # w => pc'[v] = pc[v]
    BY <1>3, <1>t DEF RememberJob, Finish, GoTo, TypeInv, TypeOK
  <2> QED
    BY <2>2, <2>3, <2>4 DEF InvokingTool, After
<1>4. ASSUME memories = 1, memories' = 1, job' # "absent"
      PROVE  Over' /\ \A w \in Worker : ~InvokingTool(w)' /\ pc'[w] \notin After
  <2>1. Over /\ Over' /\ \A w \in Worker : ~InvokingTool(w) /\ pc[w] \notin After
    BY <1>4, <1>o DEF MemoryInv
  <2>2. ASSUME NEW w \in Worker, ClaimTask(w) PROVE FALSE
    BY <1>t, <2>1, <2>2, ClaimCounts DEF ClaimTask, Claimable, Over, TerminalTask
  <2>3. ASSUME NEW w \in Worker, Succeed(w) PROVE FALSE
    BY <2>1, <2>3 DEF Succeed, InvokingTool
  <2>4. ASSUME NEW w \in Worker, pc'[w] \in After PROVE FALSE
    BY <1>c, <2>1, <2>3, <2>4, DecidersSucceed DEF Deciding
  <2>5. ASSUME NEW w \in Worker, InvokingTool(w)' PROVE FALSE
    BY <1>t, <2>1, <2>2, <2>5, CallsStartWithClaim
  <2> QED
    BY <2>1, <2>4, <2>5
<1>5. CASE memories' = memories
  BY <1>c, <1>1, <1>2, <1>4, <1>5 DEF MemoryInv
<1>6. CASE memories' # memories
  <2>1. PICK w \in Worker : RememberJob(w) /\ job = "succeeded"
    BY <1>6, OtherWriters DEF RememberJob
  <2> QED
    BY <1>c, <1>o, <1>1, <1>2, <1>3, <2>1 DEF MemoryInv
<1> QED
  BY <1>5, <1>6

\* When the steps run one by one, the result of a job is stored at most once,
\* also when messages are delivered again: whoever finds the job succeeded is the
\* process that completed it (executor.py:248).
THEOREM RememberedOnce == UniqueIds /\ Sequential => (Spec => []JobRememberedOnce)
<1> SUFFICES ASSUME UniqueIds, Sequential PROVE Spec => []JobRememberedOnce
  OBVIOUS
<1>1. Init => MemoryInv
  BY InitMemory
<1>2. MemoryInv /\ [Next]_vars => MemoryInv'
  BY NextMemory
<1>3. MemoryInv => JobRememberedOnce
  BY DEF MemoryInv, JobRememberedOnce
<1> QED
  BY <1>1, <1>2, <1>3, PTL DEF Spec
=============================================================================
