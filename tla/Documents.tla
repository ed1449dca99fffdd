----------------------------- MODULE Documents -----------------------------
(***************************************************************************)
(* The knowledge base: a row of table documents for each document, its     *)
(* vectors in Qdrant, the requests of api/routers/documents.py that create *)
(* and delete a row, and the Celery tasks of worker/tasks/ingest.py that   *)
(* store and delete the vectors, run by the processes of the pool.         *)
(*                                                                         *)
(* Both tasks go through queue "celery", which is first in, first out.     *)
(* A retry comes back after its countdown, a redelivery after the broker   *)
(* has noticed, so neither keeps its place.                                *)
(***************************************************************************)
EXTENDS Integers, Sequences

CONSTANTS
    Document,
    Blank,       \* documents whose text is white space only
    Format,      \* how each is posted: "json", or as a file that is "text",
                 \* "toolarge", "unsupported" or "unreadable"
    Process,     \* pool processes of the Celery worker
    NoMessage,   \* in place of a message where there is none
    MaxRetries,  \* max_retries of both tasks
    FaultKinds,  \* what may go wrong: "storeerror", and the following ones
    MaxFaults    \* bound on faults "unsent", "dberror", "lost", "redelivered",
                 \* "duplicate"

Kind == {"ingest", "delete"}
Message == Kind \X Document \X (0..MaxRetries)

ASSUME DocumentsAssumption ==
    /\ Blank \subseteq Document
    /\ Format \in [Document -> {"json", "text", "toolarge", "unsupported", "unreadable"}]
    /\ MaxRetries \in Nat
    /\ MaxFaults \in Nat
    /\ NoMessage \notin Message

VARIABLES
    row,         \* documents.status, "none" before POST and "deleted" after DELETE
    stored,      \* documents whose vectors are in the collection
    unsent,      \* what a request has committed and not yet sent to the worker
    queue,       \* first deliveries, in order
    again,       \* retries and redeliveries: how many of each message
    at,          \* what a process does next
    task,        \* the message it handles
    faults,      \* faults that have happened
    lost         \* some request, message or status was lost for good

records == <<row, stored>>
pool    == <<at, task>>
docVars == <<records, unsent, queue, again, pool, faults, lost>>

Stage == {"idle", "storing", "marking", "failing", "deleting"}

DocTypeOK ==
    /\ row \in [Document -> {"none", "ingesting", "ready", "failed", "deleted"}]
    /\ stored \subseteq Document
    /\ unsent \subseteq Kind \X Document
    /\ queue \in Seq(Kind \X Document)
    /\ again \in [Message -> Nat]
    /\ at \in [Process -> Stage]
    /\ task \in [Process -> Message \cup {NoMessage}]
    /\ faults \in Nat
    /\ lost \in BOOLEAN

DocInit ==
    /\ row = [d \in Document |-> "none"]
    /\ stored = {}
    /\ unsent = {}
    /\ queue = << >>
    /\ again = [m \in Message |-> 0]
    /\ at = [p \in Process |-> "idle"]
    /\ task = [p \in Process |-> NoMessage]
    /\ faults = 0
    /\ lost = FALSE

Doc(p) == task[p][2]

----------------------------------------------------------------------------
(* api/routers/documents.py: each request commits, then sends *)

\* upload_document looks at the file; ingest_document takes any text.
Acceptable(d) == Format[d] = "json" \/ (Format[d] = "text" /\ d \notin Blank)

\* From there on both do the same.
Post(d) ==
    /\ row[d] = "none" /\ Acceptable(d)
    /\ row' = [row EXCEPT ![d] = "ingesting"]
    /\ unsent' = unsent \cup {<<"ingest", d>>}
    /\ UNCHANGED <<stored, queue, again, pool, faults, lost>>

Delete(d) ==
    /\ row[d] \notin {"none", "deleted"}
    /\ row' = [row EXCEPT ![d] = "deleted"]
    /\ unsent' = unsent \cup {<<"delete", d>>}
    /\ UNCHANGED <<stored, queue, again, pool, faults, lost>>

\* The task and its argument as they are published, exchanged and as they are.
EnvelopeSwapped(k, d) == <<d, k>>
Envelope(k, d) == <<k, d>>

SendTask(k, d) ==
    /\ <<k, d>> \in unsent
    /\ unsent' = unsent \ {<<k, d>>}
    /\ queue' = Append(queue, Envelope(k, d))
    /\ UNCHANGED <<records, again, pool, faults, lost>>

\* Before it sends, POST reads its row again, which raises if the row is gone.
AbandonPost(d) ==
    /\ <<"ingest", d>> \in unsent
    /\ row[d] = "deleted"
    /\ unsent' = unsent \ {<<"ingest", d>>}
    /\ UNCHANGED <<records, queue, again, pool, faults, lost>>

\* The API process dies, or the broker refuses the message.
LoseTask(k, d) ==
    /\ <<k, d>> \in unsent /\ "unsent" \in FaultKinds /\ faults < MaxFaults
    /\ unsent' = unsent \ {<<k, d>>}
    /\ faults' = faults + 1
    /\ lost' = TRUE
    /\ UNCHANGED <<records, queue, again, pool>>

----------------------------------------------------------------------------
(* worker/tasks/ingest.py *)

\* A text without chunks goes straight to "failed".
Handle(p, m) ==
    /\ task' = [task EXCEPT ![p] = m]
    /\ at' = [at EXCEPT ![p] = IF m[1] = "delete" THEN "deleting"
                               ELSE IF m[2] \in Blank THEN "failing" ELSE "storing"]

TakeFirst(p) ==
    /\ at[p] = "idle" /\ queue # << >>
    /\ Handle(p, <<Head(queue)[1], Head(queue)[2], 0>>)
    /\ queue' = Tail(queue)
    /\ UNCHANGED <<records, unsent, again, faults, lost>>

TakeAgain(p, m) ==
    /\ at[p] = "idle" /\ again[m] > 0
    /\ Handle(p, m)
    /\ again' = [again EXCEPT ![m] = @ - 1]
    /\ UNCHANGED <<records, unsent, queue, faults, lost>>

GoTo(p, stage) == at' = [at EXCEPT ![p] = stage] /\ UNCHANGED task

Finish(p) ==
    /\ at' = [at EXCEPT ![p] = "idle"]
    /\ task' = [task EXCEPT ![p] = NoMessage]

\* upsert_chunks: the vectors of the document replace what is there.
Upsert(p) ==
    /\ at[p] = "storing"
    /\ stored' = stored \cup {Doc(p)}
    /\ GoTo(p, "marking")
    /\ UNCHANGED <<row, unsent, queue, again, faults, lost>>

\* delete_by_document_id.
DeleteVectors(p) ==
    /\ at[p] = "deleting"
    /\ stored' = stored \ {Doc(p)}
    /\ Finish(p)
    /\ UNCHANGED <<row, unsent, queue, again, faults, lost>>

NextTry(m) == <<m[1], m[2], m[3] + 1>>

\* Tries left, counted one too many and as they are.
MayRetryOnceMore(m) == m[3] <= MaxRetries
MayRetry(m) == m[3] < MaxRetries

\* Embedding, or the call of the store, raises; the call may have taken effect
\* all the same.  The task is tried again max_retries times; after that an
\* ingestion still reports its failure, a deletion is over.
StoreError(p) ==
    /\ at[p] \in {"storing", "deleting"} /\ "storeerror" \in FaultKinds
    /\ stored' \in {stored, IF at[p] = "storing" THEN stored \cup {Doc(p)}
                            ELSE stored \ {Doc(p)}}
    /\ IF MayRetry(task[p])
       THEN Finish(p) /\ again' = [again EXCEPT ![NextTry(task[p])] = @ + 1]
       ELSE /\ IF at[p] = "storing" THEN GoTo(p, "failing") ELSE Finish(p)
            /\ UNCHANGED again
    /\ UNCHANGED <<row, unsent, queue, faults, lost>>

\* _set_document_status does nothing for a row that is gone.  First, a version
\* that would write the row again.
StatusUnguarded(p) == IF at[p] = "marking" THEN "ready" ELSE "failed"

Status(p) ==
    IF row[Doc(p)] = "deleted" THEN "deleted"
    ELSE IF at[p] = "marking" THEN "ready" ELSE "failed"

SetStatus(p) ==
    /\ at[p] \in {"marking", "failing"}
    /\ row' = [row EXCEPT ![Doc(p)] = Status(p)]
    /\ Finish(p)
    /\ UNCHANGED <<stored, unsent, queue, again, faults, lost>>

\* The database fails, which _set_document_status swallows.
LoseStatus(p) ==
    /\ at[p] \in {"marking", "failing"}
    /\ "dberror" \in FaultKinds /\ faults < MaxFaults
    /\ faults' = faults + 1
    /\ lost' = TRUE
    /\ Finish(p)
    /\ UNCHANGED <<records, unsent, queue, again>>

----------------------------------------------------------------------------
(* Deliveries that go wrong, as in module Executor *)

Crash(p) ==
    /\ at[p] # "idle" /\ faults < MaxFaults
    /\ faults' = faults + 1
    /\ \/ "lost" \in FaultKinds /\ lost' = TRUE /\ UNCHANGED again
       \/ /\ "redelivered" \in FaultKinds
          /\ again' = [again EXCEPT ![task[p]] = @ + 1]
          /\ UNCHANGED lost
    /\ Finish(p)
    /\ UNCHANGED <<records, unsent, queue>>

Redeliver(p) ==
    /\ "duplicate" \in FaultKinds
    /\ at[p] # "idle" /\ faults < MaxFaults
    /\ faults' = faults + 1
    /\ again' = [again EXCEPT ![task[p]] = @ + 1]
    /\ UNCHANGED <<records, unsent, queue, pool, lost>>

----------------------------------------------------------------------------

Work(p) ==
    \/ TakeFirst(p) \/ \E m \in Message : TakeAgain(p, m)
    \/ Upsert(p) \/ DeleteVectors(p) \/ StoreError(p) \/ SetStatus(p)

Send == \E k \in Kind, d \in Document : SendTask(k, d)

DocNext ==
    \/ \E d \in Document : Post(d) \/ Delete(d) \/ AbandonPost(d)
    \/ Send
    \/ \E k \in Kind, d \in Document : LoseTask(k, d)
    \/ \E p \in Process : Work(p) \/ LoseStatus(p) \/ Crash(p) \/ Redeliver(p)

DocSpec == DocInit /\ [][DocNext]_docVars

\* A request that has committed goes on to send, and the pool keeps running.
FairDocSpec ==
    /\ DocSpec
    /\ WF_docVars(Send)
    /\ \A p \in Process : WF_docVars(Work(p))

----------------------------------------------------------------------------

\* A document that the library shows as ready has its vectors in the store,
\* although its task may be retried, crash half-way or run twice, and its
\* deletion may be on the way (ingest.py:65-72).
ReadyIsSearchable == \A d \in Document : row[d] = "ready" => d \in stored

\* A document does not stay "ingesting", unless a message or a status is lost:
\* the last try that fails still reports (ingest.py:80-85).
IngestionEnds == \A d \in Document : row[d] = "ingesting" ~> row[d] # "ingesting" \/ lost

\* In the end a deleted document has no vectors left (ingest.py:94).
DeletedForGood == \A d \in Document : <>[](row[d] = "deleted" => d \notin stored)
=============================================================================
