# Verification of the agent platform

This directory keeps TLA+ models of the platform beside its code: modules that
TLC checks on small instances, and theorems about them that TLAPS proves for
every instance. Paths below are relative to `src/`.

## 1. The system

### Components

| Component | State it keeps | Operations | Modelled in |
|---|---|---|---|
| Jobs API (`api/routers/jobs.py`) | rows of `jobs` | create (commit, then send `plan_job`), cancel, delete, read | Platform, Executor |
| `plan_job` (`worker/tasks/planner.py`) | none of its own; writes `jobs.status`, inserts `tasks` | plan, persist, queue and send the ready steps, set the job running | Platform |
| `execute_step` (`worker/tasks/executor.py`) | none of its own; writes `tasks` and `jobs` | claim a row, call its tool, complete the job, dispatch what became ready, skip what cannot run | Executor |
| Step graph (`_newly_ready_step_ids`, `_transitive_dependents`, `ExecutionPlan.ready_steps`) | none | pure functions over rows | TaskGraph, Traversal |
| Records and sessions (`worker/db`, `shared/models.py`) | PostgreSQL tables, one ORM session per handler | load, expire, flush, commit | Executor (semantics), TaskGraph |
| Celery (`worker/celery_app.py`) | queues `planner`, `executor`, `celery` in Redis | deliver, acknowledge late, retry, redeliver | Executor, Platform, Documents |
| Documents API (`api/routers/documents.py`) | rows of `documents` | create (two ways), delete, list | Documents |
| Ingestion (`worker/tasks/ingest.py`) with `worker/rag/qdrant_rag.py` | vectors in Qdrant, `documents.status` | store the chunks, delete them, set the status | Documents |
| Chunker (`worker/rag/chunker.py`) | none | cut a text into overlapping chunks | Chunker |
| Retrieval (`worker/tools/retrieval.py`, `worker/memory/embeddings.py`) | a client of the vector store per process | embed, search, rank again | Tools |
| Web search, code execution, registry (`worker/tools`) | none | ask one provider, then another; run a program | Tools |
| Sandboxes (`worker/sandbox`) | a container or a child process per call | run, time out, kill, clean up | Sandbox |
| Synthesis (`_llm_synthesize`) | none | ask a model, or summarise | Tools |
| Planners (`worker/planner`) and plan validation (`shared/models.py`) | none | return, reject or fail to return a plan | Planning |
| Authentication (`api/auth`, `api/routers/auth.py`) | `users`, `workspaces` | register, log in, resolve a token to a workspace | Accounts |
| Memory store (`worker/memory`) | vectors in Qdrant | store and search results | partly: Executor counts results stored, Tools has whether a synthesis gets any |
| Frontend | polled copies of jobs | poll until terminal | no |

### How they interact

The API commits a row and then publishes a message; it never talks to the worker
otherwise. A pool process takes a message from one of three queues, runs its
handler to the end, and only then acknowledges it (`task_acks_late`,
`worker/celery_app.py:37`). Handlers share nothing but the database and the
queues. `plan_job` inserts the rows of a plan and sends `execute_step` for those
without dependencies; each `execute_step` makes one tool call and, if it succeeds, decides whether the job
is over and, if not, sends the rows that became ready; one that fails skips what
lies downstream and fails the job. A tool call talks to providers, to the vector
store and to a sandbox, and tells the handler no more than how it ended and with
what output. Every request of the API is made for a workspace, which it finds by
way of a token and a user.

### What is hard

* *Interleaving.* `docker-compose.yml` runs one pool process,
  `docker-compose.prod.yml` two. With two, handlers interleave between any two
  statements they send to PostgreSQL, and `plan_job` runs beside the steps it
  has just sent.
* *Stale reads.* Every decision is read in one statement and written in another.
  Most writes are an UPDATE by primary key of whatever is there by then; only
  `_claim_task` and `_enqueue_ready_task` have a condition.
* *The ORM session.* It expires objects at each commit, keeps what it has loaded
  since, and flushes assigned attributes at the next commit only.
* *Deliveries.* A process may die with its message lost or redelivered; the
  broker may deliver a message twice, at the same time or one after the other.
* *Retries.* A retry is a new message; the database is left as the failed try
  left it.
* *Requests at any time.* Cancelling and deleting do not wait for anything.
* *Providers and daemons.* Search engines, models, Qdrant and Docker fail at any
  request, some of them after having done what they were asked to do.
* *Foreign plans.* A language model writes the plan, the names of the tools and
  their arguments.

The hazards, each at its line and with the properties aimed at it, are listed in
`PROJECT.json`.

### What makes the components correct

* A step starts only after each step it depends on has left its output
  (`DependenciesFirst`, `ImplementsDataflow`); a synthesis sees all of them
  (`SynthesisSeesInputs`).
* A row is announced once, and one process at a time calls its tool
  (`OneDelivery`, `SingleRunner`).
* A job succeeds only with all of its rows and fails only with a failed one
  (`JobSuccessSound`, `JobFailureHasCause`); outcomes are final
  (`TaskOutcomeIsFinal`, `JobOutcomeIsFinal`); a result is remembered once
  (`JobRememberedOnce`).
* A job ends, and so does every row (`JobEnds`, `SchedulableJobEnds`,
  `RowsSettle`, `RunningTasksFinish`); cancelling stops further tool calls
  (`CancelStopsTools`).
* A document shown as ready can be searched (`ReadyIsSearchable`), none is
  "ingesting" for ever (`IngestionEnds`), and a deleted one is gone
  (`DeletedForGood`).
* A tool call ends (`CallsEnd`), and how is settled by the request and by what went
  wrong during this call (`ImplementsToolCall`); it leaves no program behind, nor a
  container without cause (`NoProgramOutlivesItsCall`, `ContainersAreRemoved`).
* An answer about documents is written from chunks of the job's workspace alone
  (`AnswersAreGrounded`), and a search misses a better chunk only when it was out
  of reach (`BetterChunksWereOutOfReach`).
* An address has one account and an account one workspace (`OneAccountPerEmail`,
  `AccountsResolve`); a client is told the truth about its registration
  (`RepliesAreTrue`), which ends (`RegistrationEnds`); nobody sees the items of
  another (`TenantsApart`).

## 2. The modules

      Traversal
          |
          v
      TaskGraph <---- Planning          Documents    Accounts    Sandbox    Chunker
          ^               ^                 ^            ^          ^
          |               |                 |            |          |
      Executor <---- Platform         MCDocuments,  MCAccounts,   Tools
       |  ^               ^           Documents-    Accounts-      ^ |
       |  |               |           Proofs        Proofs         | | INSTANCE
       |  |          MCPlatform                                    | v
       |  +-- MCExecutor, ExecutorProofs                           | ToolCall
       |                                                           |
       +-- INSTANCE --> Dataflow                          MCTools, ToolsProofs

An arrow without a label points to the module that is extended. `OutcomeProofs`
extends `ExecutorProofs`, and `PlatformProofs` extends `Platform` and
`OutcomeProofs`.

**TaskGraph** has the rows of one job as constants (`StepOf`, `Deps`,
`Synthesis`) and the pure functions over them. Dependencies name step_ids, and
several rows may share one: nothing in `ExecutionPlan` rejects a repeated
step_id, and a second delivery of `plan_job` inserts every step again.
`dict {step_id: row}` then keeps whichever row the database returned last, so
`RowChoices` offers every choice. `TransitiveDependents` is the least closed set
of dependents; that the loop of `_transitive_dependents` computes it is the
subject of **Traversal**, which has one action for each round of the loop.

**Dataflow** is the abstract specification: rows start when what they depend on
has finished, started rows finish, and deleting the job discards everything.
It knows no process, queue, status or retry.

**Executor** is `execute_step` and the cancel and delete requests. `pc[w]` says
where process `w` is between two statements; `cur`, `tries`, `seen`, `own`,
`batch` and `dirty` are its local data and what its session holds. One action is
one statement that reads or commits, together with the Python up to the next one:

| Code | Actions |
|---|---|
| taking a message, `executor.py:82-138` | DropMessage, LoadTask, Preflight, SkipTask |
| `_claim_task` | ClaimTask, LoseClaim |
| `_invoke_tool`, its outcome, `executor.py:143-228` | Collect, Succeed, FailTask, Retry, RowGone |
| `_try_store_task_memory` (it reloads the row, which may be gone) | Reload, RowGone |
| `_check_job_completion`, then the refresh of the job and `_try_store_job_memory` | ReadJob, ReadTasks, CompleteJob, RememberJob, JobGone |
| `_enqueue_newly_ready`, `_enqueue_ready_task` | ReadReady, Enqueue, Send, EndDispatch |
| `_handle_task_failure`, `_skip_downstream` | ReadDependents, SkipDownstream, JudgeJob, FailJob |
| `cancel_job`, `delete_job` | CancelRead, CancelWrite, DeleteJob |
| pool and broker failures | Crash, Redeliver |

Three details of SQLAlchemy carry weight and are part of the model:

* PostgreSQL runs at READ COMMITTED: a SELECT sees what is committed when it
  runs. But a row the session already holds unexpired keeps the values it was
  loaded with (`View`); `own` is that copy of the process's own row.
* `_enqueue_ready_task` assigns `task.status = "queued"` after its commit
  (`executor.py:322`). The assignment is flushed, by primary key, by the commit
  of the next call; `dirty` is the row it will be written to (`Enqueue`). If
  nothing follows, the session closes without writing it.
* Flushing or reloading a row that was deleted raises; the handler ends and its
  message is acknowledged all the same (RowGone, JobGone, EndDispatch).

A tool call has three outcomes, in constant `Outcomes`: "ok", a ToolError, or
any other exception ("transient"). What a tool returns is abstracted to whether
`tool_output` is set and, for a synthesis, from which rows it was collected.

**Platform** adds `create_job` and `plan_job`, one action for each commit or
send, in the same pool: a process handles one message at a time, of either
queue. Rows do not exist until a plan is persisted, and a second delivery or a
retry persists another one: `inserted` holds the rows that have been, and a plan
is persisted with rows of its own. Executor on its own starts where `plan_job`
ends, which is exact for one process; Platform drops that assumption.

**Planning** says which plans `plan_job` may get (`Plans`), and when it gets a
PlannerError (`MayReject`) or any other exception (`MayBreak`) instead: the
choice of `get_planner`, the two plans of `MockPlanner`, and the chain of checks
of `OpenAIPlanner._parse`, `PlannedStep` and `ExecutionPlan` on whatever a model
answers. A reply is a kind of failure or a set of rows; `Schedulable` names the
two things that nothing checks, repeated step_ids and cycles.

**Documents** is the knowledge base: the two requests, each with its commit and
its send apart, and the two tasks. `queue` is first in, first out; `again` holds
retries and redeliveries, which keep no place. A call of the vector store may
fail with its effect done or not. `stored` abstracts the points of a document
to whether they are there, since an upsert rewrites them all under the same ids.
`Acceptable` is what `upload_document` and `_extract_text` refuse: JSON
documents are taken even when blank. The chunk count is left to Chunker. Two concurrent DELETE requests for one document,
which would only send a second, harmless message, are taken as one.

**Chunker** is the loop of `chunk_text` on the positions of a stripped text, and
the formula by which the API estimates the number of chunks.

**Sandbox** is one call of `BaseSandbox.run` with either backend. An action is a
request to the daemon (or the work of `subprocess.run`), a failure of it, or the
program exiting by itself. A failed request to Docker either was refused
(APIError, a DockerException, which `run` turns into a SandboxError) or its
transport failed, in which case the daemon may have done its part and the
exception passes as it is.

| Code | Actions |
|---|---|
| `get_sandbox`, `DockerSandbox.__init__` | Connect, ConnectFails |
| `containers.run`, `subprocess.run` | Create, Start, LaunchFails |
| `container.wait`, the `except` around it, `container.kill` | Wait, TimeOut, WaitFails, Kill, KillFails |
| the two `container.logs` | ReadLogs, LogsFail |
| the `finally` block | Remove, RemoveFails |

**Tools** is `_invoke_tool` with its tools and `_llm_synthesize`, the calls of one
job one after the other in one process. Everything in them that another process
sees is the collection of the vector store, which another may create
(`OtherProcessMakes`). Chunks have an owner, a similarity and a share of query
words as constants; a score is in hundredths, so that the weights 0.7 and 0.3
and the threshold 0.10 are integers.

| Code | Actions |
|---|---|
| `_invoke_tool`, `get_tool`, the blank argument checks | Begin, Refuse |
| `web_search` | Tavily, DuckDuckGo, RateLimited |
| `code_exec` | those of Sandbox, EndCode |
| `retrieval`, `embed`, `_get_rag_store`, `_ensure_collection`, `search`, `_rerank` | Embed, EmbedFails, List, Make, Search, StoreFails, Rank |
| `_retrieve_memory_context`, `_llm_synthesize` | Recall, AskModel, Summarise |

**ToolCall** is the abstract specification of a call: it begins, meets any of nine
mishaps (`Mishap`: its provider, the store, the time limit, a request to Docker),
and ends. `Contract` says for each tool, input and set of mishaps which of the three
ends may follow: a success, a ToolError or any other error. It leaves no choice but
for `code_exec`, where the Docker client reports a failure in two ways and the output
of a child process may be undecodable. Tools keeps the mishaps of the call in
`met`, which no action of it reads. Executor's constant `Outcomes` stands for the
three ends.

The contract is what the caller can rely on, which is less than the comments of the
tools say. `code_exec.py:43` promises a ToolError for every "sandbox infrastructure
failure"; `Contract` makes an unreachable daemon and a failed launch of a child
process transient, because that is how the code ends. `retrieval.py:104` guarantees a
result; `Contract` makes an empty knowledge base a transient error. Section 3 names
these disagreements. A change of the code to either side breaks the refinement.

**Accounts** is registration, login and the workspace of a request. Registration
q creates user q and workspace q, as uuid4 keys do. `users` and `owned` are
committed rows; a row that is only flushed is known by its request's stage, and
makes an INSERT of the same address wait (`Blocked`), as a unique index of
PostgreSQL does. Jobs and documents are items with a workspace; a handler finds
an item by its id and the caller's workspace (`Found`).

Where a definition is preceded by variants of it (`ClaimableUnguarded`,
`NewlyReadyAnyDep`, `StatusUnguarded`, ...), the variants are plausible mistakes
in the code. No specification uses them; each is put in the place of the
definition to see that the property it is aimed at then fails (`mutants` in
`PROJECT.json`).

## 3. The runs

Plans: *Chain* is MockPlanner's own (search, analyse, synthesise both), *FanIn*
has two steps that run side by side before a common one, *Any* is every plan of
one to three rows over three step_ids, repeated ids, unknown and circular
dependencies included, *Twice* is MockPlanner's retrieval plan persisted twice.

| Run | Instance | Shows |
|---|---|---|
| `chain_faults` | Chain, 2 processes, all outcomes, cancel, delete, 2 faults of any kind; 59,000 states | types; one caller per row; result remembered once; nothing ahead of its inputs; Executor implements Dataflow |
| `fan_in` | FanIn, 2 processes, all outcomes, cancel, no faults, fair; 8,900 states | one announcement of the common step, a synthesis that sees its inputs, sound verdicts, final outcomes; the job and every row end unless a try is repeated |
| `platform_single` | Any from POST to outcome, 1 process, unreadable and odd replies, planning tried again, cancel, fair; 63,000 states | the deployment of `docker-compose.yml` ends every job whose plan can be scheduled, with a sound verdict |
| `platform_pool` | Twice, 2 processes, planning may fail and be retried, all outcomes, cancel, delete, 1 fault; 975,000 states | types; nothing runs ahead of its inputs although every step has two rows |
| `documents` | 2 documents, one blank, 2 processes, store errors at will, 1 further fault; 112,000 states | types; ready documents can be searched, ingestion ends |
| `tools` | requests of every tool with given, blank and malformed input, an installation with every key and one with none, both sandboxes, 3 knowledge bases, 2 faults; 181,000 states | types; programs and containers end with their calls; grounded answers; the reach of a retrieval; Tools implements ToolCall; calls end |
| `accounts` | 3 registrations, 2 for one address, 1 item; 3,900 states | types; one account per address, one workspace per account, true replies, tenants apart; registrations end |

`JobEnds` and `RowsSettle` make an exception where a try is repeated (`NoRetry`):
a repeated try never claims its row, which `transient_error_stuck` shows.
`RowsSettle` makes one for a cancelled job, whose pending rows nobody looks at.
`JobOutcomeIsFinal` leaves out a job that a request cancels: a process that read
the job before goes on with what it read. `SchedulableJobEnds` leaves out plans
with a cycle or a repeated step_id, which the model does return and run.

Five runs end in a violation. Each checks what a comment or a document says, and
finds that the code does something else:

| Run | What happens |
|---|---|
| `fan_out_rewrites_outcome` | a process dispatches two rows; committing for the second, it writes "queued" over the first, which has ended meanwhile |
| `transient_error_stuck` | the retry of a transient error finds its row "running" and cannot claim it; the row never ends |
| `crash_before_dispatch` | a process dies after committing "succeeded"; the redelivered message returns at once, and nothing dispatches the next rows |
| `cancel_lost_in_planning` | `plan_job` writes "planned" over "cancelled", and the job runs |
| `deletion_overtakes_ingestion` | the vectors of a document are deleted by one process before another stores them |

### Bounds, and why they suffice

* *Two processes.* The production pool has two, and every race known here is
  between two handlers of one job.
* *Three or four rows.* They give every shape the functions tell apart: a chain,
  a common dependency, a common dependent, an indirect dependent, a repeated
  step.
* *Retries.* `MaxRetries` is 2 as in the code, but 1 in `platform_pool` and
  `platform_single` to keep them small. In Executor a retry never claims its row, so a third try does not
  exist.
* *Faults.* One or two in a run. The theorems of section 4 have no such bound.
* *Plans.* In `platform_pool` the rows of two plans exist, so a retry or a
  redelivery can insert the steps again, once. `MaxSteps` is 3 in
  `platform_single` and 12, as in the code, elsewhere.
* *Tool calls.* `MaxOutputs` is 2: a second retrieval of a job is told apart from
  the first. Two faults are what it takes to leave a program running, and there
  is one container, so that `code_exec` runs at most once in a behaviour; calls
  share no container. Five chunks are two more than a pool for `top_k` 1, one of
  them of another workspace; that the cap of 20 works the same way for larger
  `top_k` is left to the theorem.
* *Accounts.* Two requests race for an address and a third has one of its own.
* *Symmetry.* The two processes are interchangeable; it is used only where no
  liveness is checked.
* *Deadlock* is not checked: a job or a document that has ended leaves nothing to
  do.

### Fairness

`FairToolsSpec` asks weak fairness of the call in progress: every request of a
tool has a time limit or is answered. It asks nothing of the program in a
sandbox, nor that a provider ever succeeds. `FairAccountsSpec` asks it of each
registration after its SELECT: a request goes on unless its process dies, and
PostgreSQL wakes an INSERT when the transaction it waits for ends.

`FairSpec`, `FairPlatformSpec` and `FairDocSpec` ask weak fairness of each
process (it takes a message when there is one and goes on with its handler: a
pool process runs one handler at a time to its end, and no handler waits for
another) and of a request between its commit and its send. Nothing is asked of
clients, faults, or of how a tool call ends. Weak fairness of the whole process
and not of each action is enough, since at most one step of a handler is enabled
at a time but for the choice of an outcome.

### Further behaviours seen while modelling

These have no run of their own. Three contradict what comments say of the tools, and
`Contract` of ToolCall states what happens instead:

* `get_sandbox` is called before the `try` of `code_exec` (`code_exec.py:51`), and
  errors of the transport are no DockerException: a Docker daemon that cannot be
  reached or breaks off, and a child process that cannot be launched, end the
  call with an error that counts as transient, though the docstring promises a
  ToolError on "sandbox infrastructure failure" (`code_exec.py:43`).
* A container exits on its own just as its time is up; the daemon refuses to kill it
  (`docker_sandbox.py:101`), and `run`, which "must never raise on" a timeout
  (`base.py:47`), raises a SandboxError with nothing broken. The call ends in
  a ToolError either way.
* With nothing in the knowledge base the guarantee "at least one result"
  (`retrieval.py:104`) is an IndexError, which counts as transient; the answer meant
  for this case (`executor.py:691`) is never given.

As `transient_error_stuck` shows, an error that counts as transient leaves its row
running for ever, so the first and the third matter beyond their wording. The
others follow from the same lines as the violations above:

* With two processes, the steps of a short plan may all end before `plan_job`
  writes "running", last and without a condition (`planner.py:98`): the outcome
  of the job is overwritten and nothing looks at it again. With one process it
  cannot happen.
* With a step that unblocks two others the rewrite of `executor.py:322` also breaks `JobSuccessSound`,
  `SynthesisSeesInputs`, `JobEnds` and `RowsSettle`, with no fault at all, and
  `SingleRunner` when a message is delivered twice.
* With two processes `JobRememberedOnce` holds on a chain only: with branches, the
  process that finds the job already succeeded stores the result again
  (`executor.py:248`).
* A process that read the job before it was cancelled or failed goes on with what
  it read: `JobOutcomeIsFinal` fails once a job is cancelled, and a row may be
  skipped after it has ended when a delivery is repeated (`executor.py:120`).
* Rows behind a branch that still runs when another branch fails stay "pending"
  (`executor.py:245`); so do the pending rows of a cancelled job.
* With two processes `plan_job` may queue a root again that a sibling has
  already dispatched or run (`planner.py:206`).
* A delete task that fails on its last try, or whose message is lost, leaves the
  vectors of a document that no list shows any more; a redelivered ingestion may
  turn a "ready" document into a "failed" one.
* Only the first retrieval of a job reaches the model (`executor.py:684`); other
  outputs and the memory are dropped, though the docstring speaks of "the
  collected tool outputs as context". With a key for ZhipuAI, OpenAI is never
  asked.
* A retrieval returns 20 chunks at most, whatever `top_k`.
* Output that is not UTF-8 makes the subprocess backend raise, though nothing is
  broken; the other backend replaces what it cannot decode.
* A rate limit that persists gives a search without results, not an error.
* The planner's memory search takes the three best entries of any type and then
  drops those that are no job results (`planner.py:129`).
* The loser of two concurrent registrations gets the error 500 of the constraint
  and not the 400 of the check (`auth.py:43`).
* The last chunk of a text may lie wholly within the one before; `chunker.py:6`
  says "each consecutive pair sharing *overlap* characters".

## 4. The theorems

Each proof module extends the module it is about: `ExecutorProofs` and
`OutcomeProofs` are about the handler, `PlatformProofs` about the handler with the
API and `plan_job`, `DocumentsProofs`, `ToolsProofs` and `AccountsProofs` about
the other components; `Traversal` and `Chunker` hold their own. The proofs assume
only the named assumptions of the modules: the constants have the types they are
declared with, `NoTask` is no row, `NoMessage` no message, `NoContainer` no
container, and the set of chunks is finite. The sets of rows, processes,
documents, requests, chunks, the scores, and the bounds on retries, faults and
outputs are arbitrary. What a theorem asks beyond that is a named hypothesis in
its statement.

| Theorem | Statement |
|---|---|
| `TypeCorrect` | `Spec => []TypeOK` |
| `DependenciesHold` | `ConsistentIds => (Spec => []DependenciesFirst)` |
| `Refinement` | `ConsistentIds => (Spec => ImplementsDataflow)` |
| `DocTypeCorrect` | `DocSpec => []DocTypeOK` |
| `DeliveredOnce` | `DeliversOnce => (Spec => [](OneDelivery /\ SingleRunner))` |
| `OneCallPerRow` | `UniqueIds /\ NoFanOut => (Spec => []SingleRunner)` |
| `RowOutcomesAreFinal` | `Ordered => (Spec => TaskOutcomeIsFinal)` |
| `FailureHasCause` | `Ordered => (Spec => []JobFailureHasCause)` |
| `SuccessIsSound` | `Ordered => (Spec => []JobSuccessSound)` |
| `JobOutcomesAreFinal` | `Ordered => (Spec => JobOutcomeIsFinal)` |
| `SynthesisIsComplete` | `Ordered => (Spec => []SynthesisSeesInputs)` |
| `RememberedOnce` | `UniqueIds /\ Sequential => (Spec => []JobRememberedOnce)` |
| `PlatformTypeCorrect` | `PlatformSpec => []PlatformTypeOK` |
| `PlatformDependenciesHold` | `ConsistentIds => (PlatformSpec => []DependenciesFirst)` |
| `PlatformRefinement` | `ConsistentIds => (PlatformSpec => ImplementsDataflow)` |
| `SingleProcessRowsAreFinal` | `OneProcess /\ DeliversOnce => (PlatformSpec => TaskOutcomeIsFinal)` |
| `SingleProcessSuccessIsSound` | `OneProcess /\ DeliversOnce => (PlatformSpec => []JobSuccessSound)` |
| `SingleProcessRemembersOnce` | `OneProcess /\ DeliversOnce => (PlatformSpec => []JobRememberedOnce)` |
| `ReadyHolds` | `DocSpec => []ReadyIsSearchable` |
| `ToolsTypeCorrect` | `ToolsSpec => []ToolsTypeOK` |
| `ProgramsEndWithTheirCalls` | `ToolsSpec => []NoProgramOutlivesItsCall` |
| `ContainersGo` | `ToolsSpec => []ContainersAreRemoved` |
| `ToolsKeepTheirContract` | `ToolsSpec => ImplementsToolCall` |
| `AnswersStayGrounded` | `ToolsSpec => []AnswersAreGrounded` |
| `RetrievalsReachFar` | `ToolsSpec => []BetterChunksWereOutOfReach` |
| `AccountsTypeCorrect` | `AccountsSpec => []AccountsTypeOK` |
| `AddressesAreUnique` | `AccountsSpec => []OneAccountPerEmail` |
| `EveryAccountResolves` | `AccountsSpec => []AccountsResolve` |
| `RepliesHold` | `AccountsSpec => []RepliesAreTrue` |
| `TenantsStayApart` | `AccountsSpec => []TenantsApart` |
| `TraversalIsExact` | `TraversalSpec => []Exact` |
| `ChunksCoverTheText` | `ChunkerSpec => [](NothingIsLost /\ ConsecutiveOverlap /\ EstimateIsSafe)` |

`Ordered` abbreviates `DeliversOnce /\ UniqueIds /\ NoFanOut` in this table.

### The hypotheses

* `ConsistentIds`: rows with the same step_id have the same dependencies. It holds
  for a plan without repeated step_ids and for one plan persisted several times.
  Without it the properties do not hold: `_newly_ready_step_ids` answers with
  step_ids, and the row then picked for one need not be the row whose
  dependencies were looked at.
* `UniqueIds`: no step_id is repeated. It holds for the plans of `MockPlanner` and
  is what `ExecutionPlan` leaves to the model that writes a plan.
* `NoFanOut`: of two rows that have to be dispatched, one depends on the other. Any
  number of rows may have no dependencies and run side by side. Both plans of
  `MockPlanner` are of this kind, and so is FanIn. It is there because of the
  flush of `executor.py:322`: a process that dispatches two rows writes the first
  one again, and `fan_out_rewrites_outcome` shows what comes of that.
* `Sequential`: of any two rows one depends on the other, as in the plans of
  `MockPlanner`. With two processes and branches `JobRememberedOnce` does not hold
  (section 3).
* `DeliversOnce`: the broker delivers no message a second time. Messages may be
  lost, tries repeated, jobs cancelled and deleted, all at any time.
* `OneProcess`: the pool of `docker-compose.yml`. The plan is then arbitrary: its
  step_ids may be repeated, its dependencies circular, its steps dispatched
  together.

*Types.* `TypeOK` is not inductive: `Crash` puts back the message of `cur[w]`,
`Send` one of `dirty[w]`. `TypeInv` adds that a process that is not idle handles
a row, that one about to send holds a row, and that an idle one caches none.

*Dependencies.* `DependenciesFirst` speaks of rows that are queued, running or
were claimed. `SafeInv` says the same of everything that may lead there: a
message in the queue, a row that a process handles, rows it is about to queue or
send, an assignment not yet flushed (`ReleasedMessages`, `ReleasedWork`). A
dependency counts as done when a session sees it "succeeded", so
`SucceededHasOutput` ties that, also as a stale copy, to the output. Deleting
the job empties `output`, so all this is asked while the job exists
(`MayRun`), and `DeletedIsEmpty` covers the rest. `MayRun` is stable because
outputs only grow while the job exists (`OutputGrows`); each action then only
has to account for the rows it adds. `PickedRowsMayRun` is the heart of it: what
`_enqueue_newly_ready` picks is released.

*Refinement.* A claim maps to `Start`, a success to `Produce`, deleting the job
to `Discard`, everything else to a stutter (`StepEffects`). `CallsAreClaimed`
adds to `SafeInv` that a process in a tool call has claimed its row, so only
started rows produce.

*Deliveries.* `OneMessage(t)` counts the places where row t may be: a message,
the hands of a process, or a row that one is about to send. There is one at
most, and if there is one the row is not "pending", so that the conditional
UPDATE of `_enqueue_ready_task` announces no row twice. The flush of a stale
"queued" does not hurt, since it makes no row pending.

*One call.* With repeated deliveries only the claim is left to keep two processes
apart, and it does if no row that was claimed becomes claimable again. `ClaimInv`
shows that the flush of a stale "queued" cannot do that: under `NoFanOut` a
process that dispatches has one row to dispatch (`OneRow`), so what it holds
unflushed has no later commit to be flushed by. `BlockedDownstream` gives this its
basis: a row that depends on one without output, at any distance, is not released,
so two rows of which one depends on the other are never ready together.

*Outcomes of rows.* `RowInv` adds to it where a process is for the status of its
row (`Place`), that a row with an output has succeeded, and that the rows about to
be skipped depend on the failed one (`PrunedDepend`). These were never released,
so the bulk UPDATE of `_skip_downstream`, which has no condition, hits no row that
ran: its list, read a statement before, cannot have grown stale.

*Outcomes of the job.* `JobInv` says that each verdict is justified by the rows as
they are: a failed job has a failed row, a succeeded one has rows that have
succeeded or been skipped, and so is a verdict that a process has reached and not
yet written (`Justified`). The facts behind a verdict, that some row failed or
that none did and all ended, stay true once they are (`FactsStay`); two processes
may therefore both write a verdict, but never different ones.

*Synthesis.* A row that is released has the outputs of everything upstream of it,
direct or not, by `BlockedDownstream` again (`CollectsUpstream`), and its process
collects them after the claim (`SynthesisInv`).

*Memory.* Of rows that run one by one, those behind a row whose process is still
deciding have not begun (`NothingBehind`), and all before it have ended. So the
process that finds the job succeeded is the one that completed it, and afterwards
nobody is in a tool call or past one (`MemoryInv`), however often messages are
delivered: a second delivery finds its row ended and stops.

*Platform.* What `plan_job` does is, for the invariants of Executor, little:
rows appear that were absent, roots become queued and are sent (`PlanningEffects`).
`PlatformTypeInv`, `PlatformSafeInv` and `PlatformFlowInv` add to those invariants
what `plan_job` holds (`RootsReleased`: roots have no dependencies, so they are
released whatever has been done), and a step of the executor is covered by the
lemmas already proved. `PlatformRefinement` follows: planning is a stutter.

*One process.* What comes between the statements of a handler is then only
requests, and `SingleInv` says what this gives: a plan is persisted once
(`PlannedOnce`), and `plan_job` has ended when a handler begins (`PlannerAlone`);
only inserted rows have a status or a message (`RowsOfPlan`); what `plan_job` is
about to queue is still pending (`RootsPending`), and what a handler has read of
other rows is what they are (`ReadsHold`). The flush of `executor.py:322` is then
harmless even when two rows are dispatched together, since the first is still
queued. `SingleOutcomes` adds the verdicts as `JobInv` does. It must allow a
failed job without rows, left by a failed try of `plan_job` that is repeated later;
for the same reason `JobFailureHasCause` and `JobOutcomeIsFinal` are not
properties of Platform. `MemoryKept` says that nothing runs once the result is
stored.

*Documents.* `DocInv` adds to `ReadyIsSearchable` that a deletion, whether to be
sent, queued, to be redelivered or being handled, is one of a deleted row, and
that a process about to mark a row has stored its vectors. A deleted row never
comes back (`DeletedIsFinal`), so vectors go away only where nobody is told of
them.

*Sandbox and tools.* `StageOfBox` ties what the process does next to the state of
its container, backend and ending; a container of a finished call is `Excused` by
its state or by faults, and faults only grow. To compare the end of a call with
`Contract`, `StageOfCall` adds which tool each stage belongs to, `MetOfStage` what may
have gone wrong by each stage and with each ending of a run, and `SearchOfStage` that
a search comes back empty only when there is nothing to find, which needs the
cardinality of finite sets. Together they are `CallInv`, which is inductive, and with it
each step is one of ToolCall or a stutter.

*Grounding.* `GroundInv` says that candidates and outputs are chunks of the job's
own workspace (`Own`), because every search is restricted to it, and that no
answer stands while a call is in progress.

*Reach.* `PoolReaches` says that each chunk of the workspace outside of the pool
has as many others as the pool holds that are no less similar. `Rank` then keeps
the best of the pool, and falls back to the best one when all are below the
threshold, so that what it drops scores no more than what it keeps. The proof
needs the cardinality of subsets of finite sets, and that a finite non-empty set
of outputs has a first one, by well-founded induction.

*Accounts.* `AccountsInv` adds that users and workspaces are committed in pairs
under one key (`PairedRows`), that an uncommitted row is alone with its address
(`InsertedAlone`, which `Blocked` and the constraint keep up), and that an item
is in the workspace of its creator (`ItemsAtHome`).

*Traversal.* `TraversalInv`: what was found is in every closed set, and the
dependents of everything found and popped have been found. With an empty queue
the first makes it the least, the second a closed set.

*Chunker.* `ChunkerInv` gives chunk i its start, i - 1 strides into the text, and
says that all positions before `start` are covered. `EstimateIsSafe` is then
arithmetic on the number of strides.

### Only model-checked

* *Liveness*: `JobEnds`, `RowsSettle`, `SchedulableJobEnds`, `IngestionEnds`,
  `CallsEnd` and `RegistrationEnds`. The prover does not do liveness under
  fairness.
* *Planning*: which plans a reply may give. Its definitions enter the proofs about
  Platform only through the fact that a plan is a set of rows.

Every safety property that a passing run checks is also the subject of a theorem,
but under the hypotheses of its statement. Outside of them some properties fail, as
the violations show. Not settled by a theorem are the outcomes of jobs and rows with
two processes when `plan_job` runs beside its steps: `planner.py:98` writes the
status of the job without a condition there, so `JobSuccessSound` would need that
no step ends before it.

## 5. Not modelled

* *Memory store.* Which entries are similar to a query, and their content. Its
  errors never reach a caller: each call is wrapped in an `except Exception`.
  What is left, that a result is stored or that a synthesis got some entries, is
  in Executor and Tools.
* *Frontend.* The pages poll a job until its status is terminal and write
  nothing. What they rely on is that an outcome is final (`JobOutcomeIsFinal`,
  and the exceptions named above).
* *Text.* Prompts, embeddings, tokens, titles, what models answer, and the
  validation of addresses and passwords.
* *Metrics, configuration, migrations, infrastructure files* have no logic that
  these models could tell apart; the unique constraint and the pool sizes are
  where they matter.

What could follow: a worker that runs the calls of Tools inside the handler of
Executor, in place of the outcomes that ToolCall allows, and theorems about the
outcomes of rows, though not of jobs, in Platform with two processes.
