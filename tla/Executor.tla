------------------------------ MODULE Executor ------------------------------
(***************************************************************************)
(* The Celery task execute_step (worker/tasks/executor.py) run by several  *)
(* pool processes over the rows of one job, together with the requests of  *)
(* api/routers/jobs.py that change a job behind its back.                  *)
(*                                                                         *)
(* PostgreSQL runs at READ COMMITTED: each SELECT sees what is committed   *)
(* when it runs, and an attribute assigned to an ORM object is written by  *)
(* an UPDATE on the primary key alone.  So every read, every commit and    *)
(* every send_task of the handler is a step of its own, and whatever the   *)
(* handler has read may be stale when it writes.                           *)
(***************************************************************************)
EXTENDS TaskGraph, Integers

CONSTANTS
    Worker,      \* pool processes of the Celery worker
    NoTask,      \* in place of a row where there is none
    MaxRetries,  \* max_retries of the Celery task
    Outcomes,    \* how a tool call may end: "ok", "toolerror", "transient"
    Requests,    \* requests the API may get: "cancel", "delete"
    FaultKinds,  \* what may go wrong with a delivery, see Crash and Redeliver
    MaxFaults    \* bound on the number of such faults

ASSUME ExecutorAssumption ==
    /\ NoTask \notin Task
    /\ MaxRetries \in Nat
    /\ MaxFaults \in Nat

VARIABLES
    job,         \* jobs.status, or "absent" when there is no row
    status,      \* tasks.status of each row, or "absent"
    attempts,    \* tasks.attempt_count
    output,      \* the rows whose tool_output is set
    collected,   \* collected_steps in the tool_output of a synthesis row
    mq,          \* messages in queue "executor": how many for (row, retries)
    pc,          \* what a pool process does next
    cur,         \* the row of the message it handles
    tries,       \* self.request.retries
    seen,        \* the attempt_count it loaded
    own,         \* status of its own row in the session, or "expired"
    batch,       \* rows it has read and still has to handle
    dirty,       \* the row whose status it has assigned but not flushed
    cancel,      \* progress of the one cancel request
    memories,    \* job_result entries stored in the memory store
    faults       \* faults that have happened

database == <<job, status, attempts, output, collected>>
session  == <<pc, cur, tries, seen, own, batch, dirty>>
vars     == <<database, mq, session, cancel, memories, faults>>

TaskStatus == {"pending", "queued", "running", "succeeded", "failed", "skipped"}
JobStatus  == {"pending", "planning", "planned", "running",
               "succeeded", "failed", "cancelled"}
TerminalTask == {"succeeded", "failed", "skipped"}
TerminalJob  == {"succeeded", "failed", "cancelled"}

Location == {"idle", "loaded", "skipping", "checked", "claimed", "running",
             "succeeded", "counting", "tallying", "completing", "breaking",
             "remembering", "dispatching", "enqueuing", "sending",
             "failed", "pruning", "judging", "failing"}

Message == Task \X (0..MaxRetries)

TypeOK ==
    /\ job \in JobStatus \cup {"absent"}
    /\ status \in [Task -> TaskStatus \cup {"absent"}]
    /\ attempts \in [Task -> Nat]
    /\ output \subseteq Task
    /\ collected \in [Task -> SUBSET Task]
    /\ mq \in [Message -> Nat]
    /\ pc \in [Worker -> Location]
    /\ cur \in [Worker -> Task \cup {NoTask}]
    /\ tries \in [Worker -> 0..MaxRetries]
    /\ seen \in [Worker -> Nat]
    /\ own \in [Worker -> TaskStatus \cup {"expired"}]
    /\ batch \in [Worker -> SUBSET Task]
    /\ dirty \in [Worker -> Task \cup {NoTask}]
    /\ cancel \in {"none", "read", "accepted", "refused"}
    /\ memories \in Nat
    /\ faults \in Nat

----------------------------------------------------------------------------
(* Helpers *)

Present == { t \in Task : status[t] # "absent" }

GoTo(w, l) == pc' = [pc EXCEPT ![w] = l]

\* The handler returns or raises: the session is closed without a commit and
\* the message is acknowledged.
Finish(w) ==
    /\ GoTo(w, "idle")
    /\ cur'   = [cur EXCEPT ![w] = NoTask]
    /\ tries' = [tries EXCEPT ![w] = 0]
    /\ seen'  = [seen EXCEPT ![w] = 0]
    /\ own'   = [own EXCEPT ![w] = "expired"]
    /\ batch' = [batch EXCEPT ![w] = {}]
    /\ dirty' = [dirty EXCEPT ![w] = NoTask]

\* Publish a message for row t, delivered for the (n+1)-th try.
Put(t, n) == mq' = [mq EXCEPT ![<<t, n>>] = @ + 1]
Take(t, n) == mq' = [mq EXCEPT ![<<t, n>>] = @ - 1]

\* The rows as the session sees them in a query: a row that the session holds
\* and has not expired keeps the values it was loaded with.  First, a session
\* that does not expire its own row when it commits.
ViewUnrefreshed(w) ==
    [t \in Present |-> IF t = cur[w] THEN "running" ELSE status[t]]

View(w) == [t \in Present |-> IF t = cur[w] /\ own[w] # "expired"
                              THEN own[w] ELSE status[t]]

\* The WHERE clause of _claim_task, left out and as it is.
ClaimableUnguarded(t) == status[t] # "absent"
Claimable(t) == status[t] \in {"pending", "queued"}

\* The WHERE clause of _enqueue_ready_task, left out and as it is.
EnqueueableAlways(t) == status[t] # "absent"
Enqueueable(t) == status[t] = "pending"

\* The attempt_count that a claim writes, forgotten and as it is.
SameAttempt(w) == seen[w]
Attempt(w) == seen[w] + 1

\* Early returns of _check_job_completion and _handle_task_failure.
JobEnded == job \in TerminalJob \cup {"absent"}

----------------------------------------------------------------------------
(* The job as plan_job leaves it: rows inserted, ready steps queued and     *)
(* sent, job running.  With one pool process, as in docker-compose.yml,    *)
(* no step runs before that; module Platform drops this assumption.        *)

Init ==
    /\ job = "running"
    /\ \E roots \in RowChoices(Task, ReadySteps) :
          /\ status = [t \in Task |-> IF t \in roots THEN "queued" ELSE "pending"]
          /\ mq = [m \in Message |-> IF m[1] \in roots /\ m[2] = 0 THEN 1 ELSE 0]
    /\ attempts = [t \in Task |-> 0]
    /\ output = {}
    /\ collected = [t \in Task |-> {}]
    /\ pc = [w \in Worker |-> "idle"]
    /\ cur = [w \in Worker |-> NoTask]
    /\ tries = [w \in Worker |-> 0]
    /\ seen = [w \in Worker |-> 0]
    /\ own = [w \in Worker |-> "expired"]
    /\ batch = [w \in Worker |-> {}]
    /\ dirty = [w \in Worker |-> NoTask]
    /\ cancel = "none"
    /\ memories = 0
    /\ faults = 0
----------------------------------------------------------------------------
(* Taking a message, pre-flight checks, claim *)

\* The row is gone or terminal: acknowledge and do nothing.
DropMessage(w, t, n) ==
    /\ pc[w] = "idle" /\ mq[<<t, n>>] > 0
    /\ status[t] \in TerminalTask \cup {"absent"}
    /\ Take(t, n)
    /\ UNCHANGED <<database, session, cancel, memories, faults>>

LoadTask(w, t, n) ==
    /\ pc[w] = "idle" /\ mq[<<t, n>>] > 0
    /\ status[t] \notin TerminalTask \cup {"absent"}
    /\ Take(t, n)
    /\ GoTo(w, "loaded")
    /\ cur'   = [cur EXCEPT ![w] = t]
    /\ tries' = [tries EXCEPT ![w] = n]
    /\ seen'  = [seen EXCEPT ![w] = attempts[t]]
    /\ UNCHANGED <<database, own, batch, dirty, cancel, memories, faults>>

\* The pre-flight check reads the job and knows two of its terminal states.
Preflight(w) ==
    /\ pc[w] = "loaded"
    /\ GoTo(w, IF job \in {"failed", "cancelled"} THEN "skipping" ELSE "checked")
    /\ UNCHANGED <<database, mq, cur, tries, seen, own, batch, dirty,
                   cancel, memories, faults>>

\* First, with the status of the job copied to the row.
SkipTaskLikeJob(w) ==
    /\ pc[w] = "skipping"
    /\ status[cur[w]] # "absent"
    /\ status' = [status EXCEPT ![cur[w]] = job]
    /\ Finish(w)
    /\ UNCHANGED <<job, attempts, output, collected, mq, cancel, memories, faults>>

SkipTask(w) ==
    /\ pc[w] = "skipping"
    /\ status[cur[w]] # "absent"
    /\ status' = [status EXCEPT ![cur[w]] = "skipped"]
    /\ Finish(w)
    /\ UNCHANGED <<job, attempts, output, collected, mq, cancel, memories, faults>>

\* _claim_task: the guarded UPDATE, then the loaded attempt_count plus one.
ClaimTask(w) ==
    /\ pc[w] = "checked"
    /\ Claimable(cur[w])
    /\ status'   = [status EXCEPT ![cur[w]] = "running"]
    /\ attempts' = [attempts EXCEPT ![cur[w]] = Attempt(w)]
    /\ GoTo(w, IF cur[w] \in Synthesis THEN "claimed" ELSE "running")
    /\ UNCHANGED <<job, output, collected, mq, cur, tries, seen, own, batch,
                   dirty, cancel, memories, faults>>

LoseClaim(w) ==
    /\ pc[w] = "checked"
    /\ ~Claimable(cur[w])
    /\ Finish(w)
    /\ UNCHANGED <<database, mq, cancel, memories, faults>>

----------------------------------------------------------------------------
(* The tool call and its outcome *)

\* A synthesis row gathers the outputs of the tool_call rows of its job.
CollectableRows == { s \in output \ Synthesis : status[s] = "succeeded" }

Collect(w) ==
    /\ pc[w] = "claimed"
    /\ batch' = [batch EXCEPT ![w] = CollectableRows]
    /\ GoTo(w, "running")
    /\ UNCHANGED <<database, mq, cur, tries, seen, own, dirty, cancel, memories, faults>>

Succeed(w) ==
    /\ pc[w] = "running" /\ "ok" \in Outcomes
    /\ status[cur[w]] # "absent"
    /\ status' = [status EXCEPT ![cur[w]] = "succeeded"]
    /\ output' = output \cup {cur[w]}
    /\ collected' = [collected EXCEPT ![cur[w]] = batch[w]]
    /\ batch' = [batch EXCEPT ![w] = {}]
    /\ GoTo(w, "succeeded")
    /\ UNCHANGED <<job, attempts, mq, cur, tries, seen, own, dirty,
                   cancel, memories, faults>>

\* An error that _handle_task_failure gets: a ToolError, or a transient error
\* of the last try.
Permanent(w) ==
    \/ "toolerror" \in Outcomes /\ cur[w] \notin Synthesis
    \/ "transient" \in Outcomes /\ tries[w] = MaxRetries

FailTask(w) ==
    /\ pc[w] = "running" /\ Permanent(w)
    /\ status[cur[w]] # "absent"
    /\ status' = [status EXCEPT ![cur[w]] = "failed"]
    /\ batch'  = [batch EXCEPT ![w] = {}]
    /\ GoTo(w, "failed")
    /\ UNCHANGED <<job, attempts, output, collected, mq, cur, tries, seen, own,
                   dirty, cancel, memories, faults>>

\* self.retry publishes the next try; nothing is written to the row.
Retry(w) ==
    /\ pc[w] = "running" /\ "transient" \in Outcomes
    /\ tries[w] < MaxRetries
    /\ Put(cur[w], tries[w] + 1)
    /\ Finish(w)
    /\ UNCHANGED <<database, cancel, memories, faults>>

\* The row was deleted in the meantime: its UPDATE matches nothing, or an
\* expired attribute cannot be reloaded, and the ORM raises.  In
\* _try_store_task_memory, which is for tool_call rows, it raises once more where
\* the error is logged.
RowGone(w) ==
    /\ \/ pc[w] \in {"skipping", "running", "failed"}
       \/ pc[w] = "succeeded" /\ cur[w] \notin Synthesis
    /\ status[cur[w]] = "absent"
    /\ Finish(w)
    /\ UNCHANGED <<database, mq, cancel, memories, faults>>

----------------------------------------------------------------------------
(* After a success: job completion, then dispatch *)

\* _try_store_task_memory reads the expired attributes of a tool_call row,
\* which loads the row again; a synthesis row stays expired.
Reload(w) ==
    /\ pc[w] = "succeeded"
    /\ cur[w] \in Synthesis \/ status[cur[w]] # "absent"
    /\ own' = [own EXCEPT ![w] =
                 IF cur[w] \in Synthesis THEN "expired" ELSE status[cur[w]]]
    /\ GoTo(w, "counting")
    /\ UNCHANGED <<database, mq, cur, tries, seen, batch, dirty, cancel, memories, faults>>

\* _check_job_completion, the job.
ReadJob(w) ==
    /\ pc[w] = "counting"
    /\ GoTo(w, IF JobEnded THEN "remembering" ELSE "tallying")
    /\ UNCHANGED <<database, mq, cur, tries, seen, own, batch, dirty,
                   cancel, memories, faults>>

\* Where the statuses read lead: not all terminal, some failed, none failed.
\* First, three ways to get it wrong.
VerdictIgnoringPending(view) ==
    IF \E t \in DOMAIN view : view[t] \in {"queued", "running"} THEN "dispatching"
    ELSE IF \E t \in DOMAIN view : view[t] = "failed" THEN "breaking"
    ELSE "completing"

VerdictWithoutFailure(view) ==
    IF \E t \in DOMAIN view : view[t] \notin TerminalTask THEN "dispatching"
    ELSE "completing"

VerdictSkippedIsFailure(view) ==
    IF \E t \in DOMAIN view : view[t] \notin TerminalTask THEN "dispatching"
    ELSE IF \E t \in DOMAIN view : view[t] # "succeeded" THEN "breaking"
    ELSE "completing"

Verdict(view) ==
    IF \E t \in DOMAIN view : view[t] \notin TerminalTask THEN "dispatching"
    ELSE IF \E t \in DOMAIN view : view[t] = "failed" THEN "breaking"
    ELSE "completing"

\* _check_job_completion, the rows.
ReadTasks(w) ==
    /\ pc[w] = "tallying"
    /\ GoTo(w, Verdict(View(w)))
    /\ own' = [own EXCEPT ![w] = IF cur[w] \in Present THEN View(w)[cur[w]] ELSE @]
    /\ UNCHANGED <<database, mq, cur, tries, seen, batch, dirty, cancel, memories, faults>>

\* _check_job_completion, the verdict: an UPDATE of whatever the job is now.
CompleteJob(w) ==
    /\ pc[w] \in {"completing", "breaking"}
    /\ job # "absent"
    /\ job' = IF pc[w] = "completing" THEN "succeeded" ELSE "failed"
    /\ GoTo(w, "remembering")
    /\ UNCHANGED <<status, attempts, output, collected, mq, cur, tries, seen, own,
                   batch, dirty, cancel, memories, faults>>

\* session.refresh(job) and, when the job has succeeded, _try_store_job_memory.
RememberJob(w) ==
    /\ pc[w] = "remembering"
    /\ memories' = IF job = "succeeded" THEN memories + 1 ELSE memories
    /\ Finish(w)
    /\ UNCHANGED <<database, mq, cancel, faults>>

\* The job was deleted in the meantime: the UPDATE raises.
JobGone(w) ==
    /\ pc[w] \in {"completing", "breaking", "failing"}
    /\ job = "absent"
    /\ Finish(w)
    /\ UNCHANGED <<database, mq, cancel, memories, faults>>
----------------------------------------------------------------------------
(* _enqueue_newly_ready *)

\* The rows to dispatch, from a fresh read.
ReadReady(w) ==
    /\ pc[w] = "dispatching"
    /\ LET view == View(w)
           done == StepsOf({ t \in Present : view[t] = "succeeded" })
       IN \E rows \in RowChoices(Present, NewlyReady(view, done)) :
             batch' = [batch EXCEPT ![w] = rows]
    /\ own' = [own EXCEPT ![w] = "expired"]
    /\ GoTo(w, "enqueuing")
    /\ UNCHANGED <<database, mq, cur, tries, seen, dirty, cancel, memories, faults>>

\* One commit of _enqueue_ready_task writes two rows.  The guarded UPDATE
\* queues row t.  The session then flushes what it still holds: the assignment
\* task.status = "queued" that the previous call made after its own commit, on
\* the row it won, written now whatever has become of that row.
Enqueue(w, t) ==
    /\ pc[w] = "enqueuing" /\ t \in batch[w]
    /\ dirty[w] # NoTask => status[dirty[w]] # "absent"
    /\ status' = [u \in Task |-> IF u = dirty[w] \/ (u = t /\ Enqueueable(t))
                                 THEN "queued" ELSE status[u]]
    /\ batch' = [batch EXCEPT ![w] = @ \ {t}]
    /\ IF Enqueueable(t)
       THEN dirty' = [dirty EXCEPT ![w] = t] /\ GoTo(w, "sending")
       ELSE dirty' = [dirty EXCEPT ![w] = NoTask] /\ UNCHANGED pc
    /\ UNCHANGED <<job, attempts, output, collected, mq, cur, tries, seen, own,
                   cancel, memories, faults>>

\* app.send_task, for the row just queued.
Send(w) ==
    /\ pc[w] = "sending"
    /\ status[dirty[w]] # "absent"
    /\ Put(dirty[w], 0)
    /\ GoTo(w, "enqueuing")
    /\ UNCHANGED <<database, cur, tries, seen, own, batch, dirty,
                   cancel, memories, faults>>

\* Every candidate is handled, or the row it must still flush is gone.
EndDispatch(w) ==
    /\ \/ pc[w] = "enqueuing" /\ batch[w] = {}
       \/ /\ pc[w] \in {"enqueuing", "sending"}
          /\ dirty[w] # NoTask /\ status[dirty[w]] = "absent"
    /\ Finish(w)
    /\ UNCHANGED <<database, mq, cancel, memories, faults>>

----------------------------------------------------------------------------
(* _handle_task_failure, after the row is marked failed *)

\* The pending rows downstream of the failed one, from a fresh read.
ReadDependents(w) ==
    /\ pc[w] = "failed"
    /\ status[cur[w]] # "absent"
    /\ \E rows \in RowChoices(Present, TransitiveDependents(Present, {StepOf[cur[w]]})) :
          LET pending == { t \in rows : status[t] = "pending" }
          IN /\ batch' = [batch EXCEPT ![w] = pending]
             /\ GoTo(w, IF pending = {} THEN "judging" ELSE "pruning")
    /\ UNCHANGED <<database, mq, cur, tries, seen, own, dirty, cancel, memories, faults>>

SkipDownstream(w) ==
    /\ pc[w] = "pruning"
    /\ IF \E t \in batch[w] : status[t] = "absent"
       THEN Finish(w) /\ UNCHANGED status
       ELSE /\ status' = [t \in Task |-> IF t \in batch[w] THEN "skipped" ELSE status[t]]
            /\ batch' = [batch EXCEPT ![w] = {}]
            /\ GoTo(w, "judging")
            /\ UNCHANGED <<cur, tries, seen, own, dirty>>
    /\ UNCHANGED <<job, attempts, output, collected, mq, cancel, memories, faults>>

JudgeJob(w) ==
    /\ pc[w] = "judging"
    /\ IF JobEnded
       THEN Finish(w)
       ELSE GoTo(w, "failing") /\ UNCHANGED <<cur, tries, seen, own, batch, dirty>>
    /\ UNCHANGED <<database, mq, cancel, memories, faults>>

\* Fast-fail: an UPDATE of whatever the job is now.
FailJob(w) ==
    /\ pc[w] = "failing"
    /\ job # "absent"
    /\ job' = "failed"
    /\ Finish(w)
    /\ UNCHANGED <<status, attempts, output, collected, mq, cancel, memories, faults>>

----------------------------------------------------------------------------
(* api/routers/jobs.py *)

\* cancel_job reads the job and answers 409 for a terminal one.
CancelRead ==
    /\ "cancel" \in Requests
    /\ cancel = "none"
    /\ job # "absent"
    /\ cancel' = IF job \in TerminalJob THEN "refused" ELSE "read"
    /\ UNCHANGED <<database, mq, session, memories, faults>>

\* ... and then writes: an UPDATE of whatever the job is now.
CancelWrite ==
    /\ cancel = "read"
    /\ IF job = "absent"
       THEN cancel' = "refused" /\ UNCHANGED job
       ELSE cancel' = "accepted" /\ job' = "cancelled"
    /\ UNCHANGED <<status, attempts, output, collected, mq, session, memories, faults>>

\* delete_job: the job and, by cascade, its rows.  Messages stay in the queue.
DeleteJob ==
    /\ "delete" \in Requests
    /\ job # "absent"
    /\ job' = "absent"
    /\ status' = [t \in Task |-> "absent"]
    /\ attempts' = [t \in Task |-> 0]
    /\ output' = {}
    /\ collected' = [t \in Task |-> {}]
    /\ UNCHANGED <<mq, session, cancel, memories, faults>>

----------------------------------------------------------------------------
(* Deliveries that go wrong.  Messages are acknowledged late, so the broker *)
(* still holds the message of a process that works on it.                   *)

\* The process dies, its transaction is rolled back.  "lost": the main process
\* survives and acknowledges the message (task_reject_on_worker_lost is off).
\* "redelivered": it dies too, and the broker delivers the message again.
Crash(w) ==
    /\ pc[w] # "idle" /\ faults < MaxFaults
    /\ faults' = faults + 1
    /\ \/ "lost" \in FaultKinds /\ UNCHANGED mq
       \/ "redelivered" \in FaultKinds /\ Put(cur[w], tries[w])
    /\ Finish(w)
    /\ UNCHANGED <<database, cancel, memories>>

\* The broker's visibility timeout expires: the message is delivered again
\* while the process still works on it.
Redeliver(w) ==
    /\ "duplicate" \in FaultKinds
    /\ pc[w] # "idle" /\ faults < MaxFaults
    /\ faults' = faults + 1
    /\ Put(cur[w], tries[w])
    /\ UNCHANGED <<database, session, cancel, memories>>

----------------------------------------------------------------------------

TakeMessage(w) ==
    \E t \in Task, n \in 0..MaxRetries : DropMessage(w, t, n) \/ LoadTask(w, t, n)

\* A step of execute_step in process w.
HandlerStep(w) ==
    \/ Preflight(w) \/ SkipTask(w) \/ ClaimTask(w) \/ LoseClaim(w)
    \/ Collect(w) \/ Succeed(w) \/ FailTask(w) \/ Retry(w) \/ RowGone(w)
    \/ Reload(w) \/ ReadJob(w) \/ ReadTasks(w) \/ CompleteJob(w)
    \/ RememberJob(w) \/ JobGone(w)
    \/ ReadReady(w) \/ Send(w) \/ EndDispatch(w)
    \/ \E t \in Task : Enqueue(w, t)
    \/ ReadDependents(w) \/ SkipDownstream(w) \/ JudgeJob(w) \/ FailJob(w)

Api == CancelRead \/ CancelWrite \/ DeleteJob

Next ==
    \/ \E w \in Worker : TakeMessage(w) \/ HandlerStep(w)
    \/ Api
    \/ \E w \in Worker : Crash(w) \/ Redeliver(w)

Spec == Init /\ [][Next]_vars

\* The pool processes keep running and the broker keeps delivering; nothing
\* obliges a client to send a request or a process to crash.
FairSpec == Spec /\ \A w \in Worker : WF_vars(TakeMessage(w) \/ HandlerStep(w))

----------------------------------------------------------------------------
(* Safety *)

\* A row is queued, running or ever claimed only if each step it depends on
\* has left an output: the dispatch of _enqueue_newly_ready (executor.py:601)
\* never runs ahead of the data, whatever is redelivered, lost or deleted.
DependenciesFirst ==
    \A t \in Task :
        status[t] \in {"queued", "running"} \/ attempts[t] > 0 => Released(t, output)

InvokingTool(w) == pc[w] \in {"claimed", "running"}

\* No two processes are inside the tool call of the same row, although the
\* same message may be delivered twice: what the claim (executor.py:146) is for.
SingleRunner ==
    \A v, w \in Worker :
        v # w /\ InvokingTool(v) /\ InvokingTool(w) => cur[v] # cur[w]

\* A row is announced once: its message is in the queue once or with one
\* process, and a pending row has none.  Two processes that complete sibling
\* rows do not both send the row that both unblock (executor.py:305).
OneDelivery ==
    \A t \in Task :
        /\ \A n \in 0..MaxRetries : mq[<<t, n>>] <= 1
        /\ (\E n \in 0..MaxRetries : mq[<<t, n>>] > 0)
              => status[t] # "pending" /\ \A w \in Worker : cur[w] # t
        /\ \A v, w \in Worker : v # w /\ cur[v] = t => cur[w] # t

\* A synthesis row that has answered was given the output of every tool_call
\* row upstream of it (executor.py:343-361): none was overwritten meanwhile.
SynthesisSeesInputs ==
    \A t \in Synthesis \cap output, r \in Present \ Synthesis :
        StepOf[t] \in TransitiveDependents(Present, {StepOf[r]}) => r \in collected[t]

\* A job nobody cancelled succeeds only if each of its rows has: the verdict
\* of _check_job_completion (executor.py:568) still holds once it is written.
JobSuccessSound ==
    job = "succeeded" /\ cancel \in {"none", "refused"}
        => \A t \in Present : status[t] = "succeeded"

\* A failed job has a failed row to show for it (executor.py:526, 573).
JobFailureHasCause == job = "failed" => \E t \in Task : status[t] = "failed"

\* The result of a job is stored in the memory store at most once: only the
\* process that completes the job finds it succeeded (executor.py:248).
JobRememberedOnce == memories <= 1

----------------------------------------------------------------------------
(* What a step may never do *)

\* A row that has succeeded, failed or been skipped keeps that status until it
\* is deleted: the terminal state guards of executor.py:21.
TaskOutcomeIsFinal ==
    [][\A t \in Task : status[t] \in TerminalTask => status'[t] \in {status[t], "absent"}]_vars

\* So does a job that no request is about to cancel or has cancelled
\* (executor.py:562).
JobOutcomeIsFinal ==
    [][(job \in TerminalJob /\ cancel \in {"none", "refused"})
           => (job' \in {job, "absent"})]_vars

\* No process enters a tool call once the cancellation of the job was accepted
\* (jobs.py:119-123).
CancelStopsTools ==
    [][\A w \in Worker : ~InvokingTool(w) /\ InvokingTool(w)' => cancel # "accepted"]_vars

----------------------------------------------------------------------------
(* Liveness, under FairSpec *)

\* A row whose try is repeated is never claimed again, see RunningTasksFinish.
NoRetry == [](\A t \in Task, n \in 1..MaxRetries : mq[<<t, n>>] = 0)

\* Unless a try is repeated, the job reaches an outcome and keeps one: the last
\* row to end finds all the others ended, whichever processes end them at the
\* same time (executor.py:566).
JobEnds == NoRetry => <>[](job \in TerminalJob \cup {"absent"})

\* Unless a try is repeated or the job is cancelled, every row has an outcome in
\* the end: nothing stays pending behind a row that failed, nor queued without
\* a message (executor.py:519, 245).
RowsSettle ==
    NoRetry /\ [](cancel # "accepted")
        => <>[](\A t \in Task : status[t] \in TerminalTask \cup {"absent"})

\* A claimed row gets an outcome.
RunningTasksFinish == \A t \in Task : status[t] = "running" ~> status[t] # "running"

----------------------------------------------------------------------------
(* Refinement *)

Promise == INSTANCE Dataflow WITH
    open     <- job # "absent",
    started  <- { t \in Task : attempts[t] > 0 },
    finished <- output

\* execute_step and the requests of the API implement Dataflow.
ImplementsDataflow == Promise!FlowSpec
=============================================================================
