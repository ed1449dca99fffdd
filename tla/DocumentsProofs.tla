-------------------------- MODULE DocumentsProofs --------------------------
(***************************************************************************)
(* Theorems about Documents, for any documents, processes, retries, faults. *)
(***************************************************************************)
EXTENDS Documents, TLAPS

\* A process that is not idle handles a message, and only a deletion deletes.
HandlesMessage ==
    \A p \in Process : at[p] # "idle" =>
        task[p] \in Message /\ (task[p][1] = "delete" <=> at[p] = "deleting")

DocTypeInv == DocTypeOK /\ HandlesMessage

LEMMA DocInitTypes == DocInit => DocTypeInv
<1> SUFFICES ASSUME DocInit PROVE DocTypeInv
  OBVIOUS
<1>1. row \in [Document -> {"none", "ingesting", "ready", "failed", "deleted"}]
  BY DEF DocInit
<1>2. again \in [Message -> Nat] /\ queue \in Seq(Kind \X Document)
  BY DEF DocInit
<1>3. at \in [Process -> Stage] /\ task \in [Process -> Message \cup {NoMessage}]
  BY DEF DocInit, Stage
<1>4. HandlesMessage
  BY DEF DocInit, HandlesMessage
<1> QED BY <1>1, <1>2, <1>3, <1>4 DEF DocInit, DocTypeInv, DocTypeOK

\* Neither a message handled nor a session closed disturbs the other processes.
LEMMA PoolTypes ==
    ASSUME DocTypeInv, NEW p \in Process,
           (\E m \in Message : Handle(p, m)) \/ Finish(p)
           \/ (at[p] = "storing" /\ \E stage \in {"marking", "failing"} : GoTo(p, stage))
    PROVE  /\ at' \in [Process -> Stage]
           /\ task' \in [Process -> Message \cup {NoMessage}]
           /\ HandlesMessage'
<1>1. CASE \E m \in Message : Handle(p, m)
  <2>1. PICK m \in Message : Handle(p, m)
    BY <1>1
  <2> QED BY <2>1 DEF DocTypeInv, DocTypeOK, HandlesMessage, Handle, Stage
<1>2. CASE Finish(p)
  BY <1>2 DEF DocTypeInv, DocTypeOK, HandlesMessage, Finish, Stage
<1>3. CASE at[p] = "storing" /\ \E stage \in {"marking", "failing"} : GoTo(p, stage)
  BY <1>3 DEF DocTypeInv, DocTypeOK, HandlesMessage, GoTo, Stage
<1> QED BY <1>1, <1>2, <1>3

LEMMA AgainTypes ==
    ASSUME DocTypeOK, NEW m \in Message
    PROVE  /\ [again EXCEPT ![m] = @ + 1] \in [Message -> Nat]
           /\ again[m] > 0 => [again EXCEPT ![m] = @ - 1] \in [Message -> Nat]
<1>1. again \in [Message -> Nat] /\ again[m] \in Nat
  BY DEF DocTypeOK
<1>2. again[m] > 0 => again[m] - 1 \in Nat
  BY <1>1
<1> QED BY <1>1, <1>2

LEMMA MessageParts ==
    ASSUME NEW m \in Message
    PROVE  /\ m[1] \in Kind /\ m[2] \in Document /\ m[3] \in 0..MaxRetries
           /\ m[3] < MaxRetries => NextTry(m) \in Message
  BY DocumentsAssumption DEF Message, NextTry

LEMMA HeadParts ==
    ASSUME DocTypeOK, queue # << >>
    PROVE  /\ <<Head(queue)[1], Head(queue)[2], 0>> \in Message
           /\ Tail(queue) \in Seq(Kind \X Document)
           /\ \E i \in 1..Len(queue) : Head(queue) = queue[i]
           /\ \A i \in 1..Len(Tail(queue)) : i + 1 \in 1..Len(queue) /\ Tail(queue)[i] = queue[i + 1]
<1>1. Head(queue) \in Kind \X Document /\ Tail(queue) \in Seq(Kind \X Document)
  BY DEF DocTypeOK
<1>2. 0 \in 0..MaxRetries
  BY DocumentsAssumption
<1>3. <<Head(queue)[1], Head(queue)[2], 0>> \in Message
  BY <1>1, <1>2 DEF Message
<1>4. Len(queue) \in Nat /\ 1 \in 1..Len(queue) /\ Head(queue) = queue[1]
  BY DEF DocTypeOK
<1>5. \A i \in 1..Len(Tail(queue)) : i + 1 \in 1..Len(queue) /\ Tail(queue)[i] = queue[i + 1]
  BY DEF DocTypeOK
<1> QED BY <1>1, <1>3, <1>4, <1>5

LEMMA DocNextTypes == DocTypeInv /\ [DocNext]_docVars => DocTypeInv'
<1> SUFFICES ASSUME DocTypeInv, [DocNext]_docVars PROVE DocTypeInv'
  OBVIOUS
<1> USE DEF DocTypeInv
<1>1. ASSUME NEW d \in Document, Post(d) \/ Delete(d) PROVE DocTypeInv'
  <2>1. <<"ingest", d>> \in Kind \X Document /\ <<"delete", d>> \in Kind \X Document
    BY DEF Kind
  <2>2. UNCHANGED <<stored, queue, again, at, task, faults, lost>>
    BY <1>1 DEF Post, Delete, pool
  <2>3. row' \in [Document -> {"none", "ingesting", "ready", "failed", "deleted"}]
    BY <1>1 DEF Post, Delete, DocTypeOK
  <2>4. unsent' \subseteq Kind \X Document
    BY <1>1, <2>1 DEF Post, Delete, DocTypeOK
  <2> QED BY <2>2, <2>3, <2>4 DEF DocTypeOK, HandlesMessage
<1>2. ASSUME NEW k \in Kind, NEW d \in Document, SendTask(k, d) PROVE DocTypeInv'
  <2>1. <<k, d>> \in Kind \X Document
    OBVIOUS
  <2>2. queue' \in Seq(Kind \X Document)
    <3>1. queue' = Append(queue, <<k, d>>)
      BY <1>2 DEF SendTask, Envelope
    <3>2. queue \in Seq(Kind \X Document)
      BY DEF DocTypeOK
    <3> QED BY <2>1, <3>1, <3>2
  <2>3. unsent' \subseteq unsent /\ UNCHANGED <<row, stored, again, at, task, faults, lost>>
    BY <1>2 DEF SendTask, records, pool
  <2> QED BY <2>2, <2>3 DEF DocTypeOK, HandlesMessage
<1>2a. ASSUME NEW k \in Kind, NEW d \in Document, LoseTask(k, d) PROVE DocTypeInv'
  <2>1. unsent' \subseteq unsent /\ UNCHANGED <<row, stored, queue, again, at, task>>
    BY <1>2a DEF LoseTask, records, pool
  <2>2. faults' \in Nat
    BY <1>2a DEF LoseTask, DocTypeOK
  <2>3. lost' \in BOOLEAN
    BY <1>2a, Zenon DEF LoseTask
  <2> QED BY <2>1, <2>2, <2>3 DEF DocTypeOK, HandlesMessage
<1>2b. ASSUME NEW d \in Document, AbandonPost(d) PROVE DocTypeInv'
  BY <1>2b DEF AbandonPost, DocTypeOK, HandlesMessage, records, pool
<1>3. ASSUME NEW p \in Process, TakeFirst(p) PROVE DocTypeInv'
  BY <1>3, HeadParts, PoolTypes DEF TakeFirst, DocTypeOK, records
<1>4. ASSUME NEW p \in Process, NEW m \in Message, TakeAgain(p, m) PROVE DocTypeInv'
  BY <1>4, AgainTypes, PoolTypes DEF TakeAgain, DocTypeOK, records
<1>5. ASSUME NEW p \in Process, at[p] # "idle" PROVE task[p] \in Message /\ Doc(p) \in Document
  BY <1>5, MessageParts DEF HandlesMessage, Doc
<1>6. ASSUME NEW p \in Process, Upsert(p) PROVE DocTypeInv'
  BY <1>5, <1>6, PoolTypes DEF Upsert, DocTypeOK
<1>7. ASSUME NEW p \in Process, DeleteVectors(p) PROVE DocTypeInv'
  BY <1>7, PoolTypes DEF DeleteVectors, DocTypeOK
<1>8. ASSUME NEW p \in Process, StoreError(p) PROVE DocTypeInv'
  <2>1. at[p] \in {"storing", "deleting"} /\ task[p] \in Message /\ Doc(p) \in Document
    BY <1>5, <1>8 DEF StoreError
  <2>2. stored' \subseteq Document /\ UNCHANGED <<row, unsent, queue, faults, lost>>
    BY <1>8, <2>1 DEF StoreError, DocTypeOK
  <2>3. CASE MayRetry(task[p])
    BY <1>8, <2>1, <2>2, <2>3, AgainTypes, MessageParts, PoolTypes
       DEF StoreError, MayRetry, DocTypeOK
  <2>4. CASE ~MayRetry(task[p])
    BY <1>8, <2>1, <2>2, <2>4, PoolTypes DEF StoreError, DocTypeOK
  <2> QED BY <2>3, <2>4
<1>9. ASSUME NEW p \in Process, SetStatus(p) PROVE DocTypeInv'
  BY <1>9, PoolTypes DEF SetStatus, Status, DocTypeOK
<1>10. ASSUME NEW p \in Process, LoseStatus(p) PROVE DocTypeInv'
  BY <1>10, PoolTypes DEF LoseStatus, DocTypeOK, records
<1>11. ASSUME NEW p \in Process, Crash(p) PROVE DocTypeInv'
  <2>1. again' \in [Message -> Nat]
    BY <1>5, <1>11, AgainTypes DEF Crash, DocTypeOK
  <2>2. UNCHANGED <<row, stored, unsent, queue>> /\ faults' \in Nat
    BY <1>11 DEF Crash, DocTypeOK, records
  <2>3. lost' \in BOOLEAN
    BY <1>11, Zenon DEF Crash, DocTypeOK
  <2> QED BY <1>11, <2>1, <2>2, <2>3, PoolTypes DEF Crash, DocTypeOK
<1>12. ASSUME NEW p \in Process, Redeliver(p) PROVE DocTypeInv'
  BY <1>5, <1>12, AgainTypes DEF Redeliver, DocTypeOK, HandlesMessage, records, pool
<1>13. CASE UNCHANGED docVars
  BY <1>13 DEF docVars, records, pool, DocTypeOK, HandlesMessage
<1> QED BY <1>1, <1>2, <1>2a, <1>2b, <1>3, <1>4, <1>6, <1>7, <1>8, <1>9, <1>10, <1>11, <1>12, <1>13
        DEF DocNext, Send, Work

\* Every variable keeps its type; in particular a retry is numbered within
\* max_retries and a process that works has a message.
THEOREM DocTypeCorrect == DocSpec => []DocTypeOK
<1>1. DocSpec => []DocTypeInv
  BY DocInitTypes, DocNextTypes, PTL DEF DocSpec
<1> QED BY <1>1, PTL DEF DocTypeInv

(***************************************************************************)
(* What is shown as ready can be searched                                  *)
(*                                                                         *)
(* A deletion exists, in whatever form, only for a deleted row; and a      *)
(* process about to mark a row has stored its vectors, which only a        *)
(* deletion takes away.                                                    *)
(***************************************************************************)

IsDeleted(d) == row[d] = "deleted"

DeletionsOfDeleted ==
    /\ \A d \in Document : <<"delete", d>> \in unsent => IsDeleted(d)
    /\ \A i \in 1..Len(queue) : queue[i][1] = "delete" => IsDeleted(queue[i][2])
    /\ \A m \in Message : again[m] > 0 /\ m[1] = "delete" => IsDeleted(m[2])
    /\ \A p \in Process : at[p] = "deleting" => IsDeleted(Doc(p))

MarkedIsStored ==
    \A p \in Process : at[p] = "marking" => IsDeleted(Doc(p)) \/ Doc(p) \in stored

DocInv == DocTypeInv /\ DeletionsOfDeleted /\ MarkedIsStored /\ ReadyIsSearchable

LEMMA DocInitSafe == DocInit => DocInv
<1> SUFFICES ASSUME DocInit PROVE DocInv
  OBVIOUS
<1>1. DocTypeInv
  BY DocInitTypes
<1>2. DeletionsOfDeleted
  BY DEF DocInit, DeletionsOfDeleted
<1>3. MarkedIsStored /\ ReadyIsSearchable
  BY DEF DocInit, MarkedIsStored, ReadyIsSearchable
<1> QED BY <1>1, <1>2, <1>3 DEF DocInv

\* A deleted row never comes back, and only then are vectors taken away.
LEMMA DeletedIsFinal ==
    ASSUME DocInv, [DocNext]_docVars, NEW d \in Document
    PROVE  /\ IsDeleted(d) => IsDeleted(d)'
           /\ d \in stored => d \in stored' \/ IsDeleted(d)
<1> USE DEF DocInv, DocTypeInv, DocTypeOK, IsDeleted
<1>1. ASSUME NEW e \in Document, Post(e) \/ Delete(e) \/ AbandonPost(e)
      PROVE  (IsDeleted(d) => IsDeleted(d)') /\ stored' = stored
  BY <1>1 DEF Post, Delete, AbandonPost, records
<1>2. ASSUME NEW k \in Kind, NEW e \in Document, SendTask(k, e) \/ LoseTask(k, e)
      PROVE  UNCHANGED <<row, stored>>
  BY <1>2 DEF SendTask, LoseTask, records
<1>3. ASSUME NEW p \in Process, DeleteVectors(p) \/ StoreError(p) \/ Upsert(p)
      PROVE  row' = row /\ (d \in stored => d \in stored' \/ IsDeleted(d))
  BY <1>3 DEF DeleteVectors, StoreError, Upsert, DeletionsOfDeleted
<1>4. ASSUME NEW p \in Process, SetStatus(p)
      PROVE  (IsDeleted(d) => IsDeleted(d)') /\ stored' = stored
  BY <1>4 DEF SetStatus, Status
<1>5. ASSUME NEW p \in Process,
             TakeFirst(p) \/ (\E m \in Message : TakeAgain(p, m)) \/ LoseStatus(p)
             \/ Crash(p) \/ Redeliver(p)
      PROVE  UNCHANGED <<row, stored>>
  BY <1>5 DEF TakeFirst, TakeAgain, LoseStatus, Crash, Redeliver, records
<1>6. CASE UNCHANGED docVars
  BY <1>6 DEF docVars, records
<1> QED BY <1>1, <1>2, <1>3, <1>4, <1>5, <1>6 DEF DocNext, Send, Work

\* What is left to show of a step: the messages it adds, the process it moves.
LEMMA DocNextSafe == DocInv /\ [DocNext]_docVars => DocInv'
<1> SUFFICES ASSUME DocInv, [DocNext]_docVars PROVE DocInv'
  OBVIOUS
<1>1. DocTypeInv /\ DocTypeInv'
  BY DocNextTypes DEF DocInv
<1>2. \A d \in Document : IsDeleted(d) => IsDeleted(d)'
  BY DeletedIsFinal
<1>3. \A d \in Document : d \in stored => d \in stored' \/ IsDeleted(d)'
  BY DeletedIsFinal
<1>4. \A p \in Process : at[p] # "idle" => task[p] \in Message /\ Doc(p) \in Document
  BY <1>1, MessageParts DEF DocTypeInv, HandlesMessage, Doc
<1>5. SUFFICES DeletionsOfDeleted' /\ MarkedIsStored' /\ ReadyIsSearchable'
  BY <1>1 DEF DocInv

<1>6. ReadyIsSearchable'
  <2> SUFFICES ASSUME NEW d \in Document, row'[d] = "ready" PROVE d \in stored'
    BY DEF ReadyIsSearchable
  <2>1. ~IsDeleted(d)'
    BY DEF IsDeleted
  <2>2. CASE row[d] = "ready"
    BY <1>3, <2>1, <2>2 DEF DocInv, ReadyIsSearchable
  <2>3. CASE row[d] # "ready"
    <3>1. PICK p \in Process : SetStatus(p) /\ at[p] = "marking" /\ Doc(p) = d
      <4>1. ASSUME NEW e \in Document, Post(e) \/ Delete(e) \/ AbandonPost(e) PROVE FALSE
        BY <1>1, <2>3, <4>1 DEF Post, Delete, AbandonPost, records, DocTypeInv, DocTypeOK
      <4>2. row' # row
        BY <2>3
      <4>3. ~UNCHANGED docVars
        BY <4>2 DEF docVars, records
      <4>4. ASSUME NEW k \in Kind, NEW e \in Document, SendTask(k, e) \/ LoseTask(k, e)
            PROVE  FALSE
        BY <4>2, <4>4 DEF SendTask, LoseTask, records
      <4>5. PICK p \in Process : Work(p) \/ LoseStatus(p) \/ Crash(p) \/ Redeliver(p)
        BY <4>1, <4>3, <4>4 DEF DocNext, Send
      <4>6. SetStatus(p)
        BY <4>2, <4>5 DEF Work, TakeFirst, TakeAgain, Upsert, DeleteVectors, StoreError,
                          LoseStatus, Crash, Redeliver, records
      <4> QED BY <1>1, <2>3, <4>6 DEF SetStatus, Status, DocTypeInv, DocTypeOK
    <3>2. d \in stored /\ stored' = stored
      BY <1>2, <2>1, <3>1 DEF DocInv, MarkedIsStored, SetStatus
    <3> QED BY <3>2
  <2> QED BY <2>2, <2>3

<1>7. MarkedIsStored'
  <2> SUFFICES ASSUME NEW p \in Process, at'[p] = "marking"
               PROVE  IsDeleted(Doc(p))' \/ Doc(p)' \in stored'
    BY DEF MarkedIsStored
  <2>1. CASE at[p] = "marking" /\ task'[p] = task[p]
    BY <1>2, <1>3, <1>4, <2>1 DEF DocInv, MarkedIsStored, IsDeleted, Doc
  <2>2. CASE ~(at[p] = "marking" /\ task'[p] = task[p])
    <3>1. Upsert(p)
      <4> USE <1>1, <2>2 DEF DocTypeInv, DocTypeOK
      <4>1. ASSUME NEW q \in Process, TakeFirst(q) \/ \E m \in Message : TakeAgain(q, m)
            PROVE  FALSE
        BY <4>1 DEF TakeFirst, TakeAgain, Handle
      <4>2. ASSUME NEW q \in Process,
                   DeleteVectors(q) \/ StoreError(q) \/ SetStatus(q) \/ LoseStatus(q)
                   \/ Crash(q) \/ Redeliver(q)
            PROVE  FALSE
        BY <4>2 DEF DeleteVectors, StoreError, SetStatus, LoseStatus, Crash, Redeliver,
                    Finish, GoTo, pool
      <4>3. ASSUME NEW q \in Process, q # p, Upsert(q) PROVE FALSE
        BY <4>3 DEF Upsert, GoTo
      <4>4. ASSUME NEW e \in Document, Post(e) \/ Delete(e) \/ AbandonPost(e) PROVE FALSE
        BY <4>4 DEF Post, Delete, AbandonPost, pool
      <4>5. ASSUME NEW k \in Kind, NEW e \in Document, SendTask(k, e) \/ LoseTask(k, e)
            PROVE  FALSE
        BY <4>5 DEF SendTask, LoseTask, pool
      <4>6. CASE UNCHANGED docVars
        BY <4>6 DEF docVars, pool
      <4> QED BY <4>1, <4>2, <4>3, <4>4, <4>5, <4>6 DEF DocNext, Send, Work
    <3> QED BY <3>1 DEF Upsert, GoTo, Doc
  <2> QED BY <2>1, <2>2

<1>8. DeletionsOfDeleted'
  <2>1. ASSUME NEW d \in Document, <<"delete", d>> \in unsent'
        PROVE  IsDeleted(d)'
    <3>1. CASE <<"delete", d>> \in unsent
      BY <1>2, <3>1 DEF DocInv, DeletionsOfDeleted
    <3>2. CASE <<"delete", d>> \notin unsent
      <4>1. ASSUME NEW e \in Document, Post(e) \/ AbandonPost(e) PROVE FALSE
        BY <2>1, <3>2, <4>1 DEF Post, AbandonPost
      <4>2. ASSUME NEW e \in Document, Delete(e) PROVE IsDeleted(d)'
        BY <1>1, <2>1, <3>2, <4>2 DEF Delete, IsDeleted, DocTypeInv, DocTypeOK
      <4>3. ASSUME NEW k \in Kind, NEW e \in Document, SendTask(k, e) \/ LoseTask(k, e)
            PROVE  FALSE
        BY <2>1, <3>2, <4>3 DEF SendTask, LoseTask
      <4>4. ASSUME NEW p \in Process, Work(p) \/ LoseStatus(p) \/ Crash(p) \/ Redeliver(p)
            PROVE  FALSE
        BY <2>1, <3>2, <4>4
           DEF Work, TakeFirst, TakeAgain, Upsert, DeleteVectors, StoreError, SetStatus,
               LoseStatus, Crash, Redeliver
      <4>5. CASE UNCHANGED docVars
        BY <2>1, <3>2, <4>5 DEF docVars
      <4> QED BY <4>1, <4>2, <4>3, <4>4, <4>5 DEF DocNext, Send
    <3> QED BY <3>1, <3>2
  <2>2. ASSUME NEW i \in 1..Len(queue'), queue'[i][1] = "delete"
        PROVE  IsDeleted(queue[i][2])'
    <3>1. ASSUME NEW j \in 1..Len(queue), queue[j] = queue'[i]
          PROVE  IsDeleted(queue[i][2])'
      <4>1. queue[j] \in Kind \X Document
        BY <1>1 DEF DocTypeInv, DocTypeOK
      <4>2. IsDeleted(queue[j][2])
        BY <2>2, <3>1 DEF DocInv, DeletionsOfDeleted
      <4> QED BY <1>2, <3>1, <4>1, <4>2 DEF IsDeleted
    <3>2. ASSUME NEW k \in Kind, NEW d \in Document, SendTask(k, d)
          PROVE  IsDeleted(queue[i][2])'
      <4>1. queue' = Append(queue, <<k, d>>) /\ queue \in Seq(Kind \X Document)
        BY <1>1, <3>2 DEF SendTask, Envelope, DocTypeInv, DocTypeOK
      <4>2. CASE i \in 1..Len(queue)
        BY <3>1, <4>1, <4>2
      <4>3. CASE i \notin 1..Len(queue)
        <5>1. queue'[i] = <<k, d>>
          BY <4>1, <4>3
        <5>2. k = "delete" /\ IsDeleted(d)
          BY <2>2, <3>2, <5>1 DEF SendTask, DocInv, DeletionsOfDeleted
        <5> QED BY <1>2, <5>1, <5>2 DEF IsDeleted
      <4> QED BY <4>2, <4>3
    <3>3. ASSUME NEW p \in Process, TakeFirst(p)
          PROVE  IsDeleted(queue[i][2])'
      BY <1>1, <3>1, <3>3, HeadParts DEF TakeFirst, DocTypeInv
    <3>4. CASE queue' = queue
      BY <3>1, <3>4
    <3> QED BY <3>2, <3>3, <3>4
            DEF DocNext, Send, Work, Post, Delete, LoseTask, AbandonPost, TakeAgain, Upsert, DeleteVectors,
                StoreError, SetStatus, LoseStatus, Crash, Redeliver, docVars
  <2>3. ASSUME NEW m \in Message, again'[m] > 0, m[1] = "delete"
        PROVE  IsDeleted(m[2])'
    <3>1. m[2] \in Document
      BY MessageParts
    <3>2. CASE again[m] > 0
      BY <1>2, <2>3, <3>1, <3>2 DEF DocInv, DeletionsOfDeleted
    <3>3. CASE ~(again[m] > 0)
      <4>1. ASSUME NEW p \in Process, at[p] # "idle", m = task[p] \/ m = NextTry(task[p])
            PROVE  IsDeleted(m[2])
        BY <1>1, <2>3, <4>1 DEF NextTry, Doc, DocInv, DeletionsOfDeleted, DocTypeInv, HandlesMessage
      <4>2. ASSUME NEW p \in Process, StoreError(p) PROVE IsDeleted(m[2])
        BY <1>1, <2>3, <3>3, <4>1, <4>2 DEF StoreError, DocTypeInv, DocTypeOK
      <4>3. ASSUME NEW p \in Process, Crash(p) \/ Redeliver(p) PROVE IsDeleted(m[2])
        BY <1>1, <2>3, <3>3, <4>1, <4>3 DEF Crash, Redeliver, DocTypeInv, DocTypeOK
      <4>4. ASSUME NEW p \in Process, NEW l \in Message, TakeAgain(p, l) PROVE FALSE
        BY <1>1, <2>3, <3>3, <4>4 DEF TakeAgain, DocTypeInv, DocTypeOK
      <4>5. again' # again
        BY <2>3, <3>3
      <4> QED BY <1>2, <3>1, <4>2, <4>3, <4>4, <4>5
              DEF DocNext, Send, Work, Post, Delete, SendTask, LoseTask, AbandonPost, TakeFirst, Upsert,
                  DeleteVectors, SetStatus, LoseStatus, docVars
    <3> QED BY <3>2, <3>3
  <2>4. ASSUME NEW p \in Process, at'[p] = "deleting"
        PROVE  IsDeleted(Doc(p))'
    <3>1. CASE at[p] = "deleting" /\ task'[p] = task[p]
      BY <1>2, <1>4, <3>1 DEF DocInv, DeletionsOfDeleted, IsDeleted, Doc
    <3>2. CASE ~(at[p] = "deleting" /\ task'[p] = task[p])
      <4> USE <1>1, <2>4, <3>2 DEF DocTypeInv, DocTypeOK
      <4>1. CASE TakeFirst(p)
        <5>1. /\ task'[p] = <<Head(queue)[1], Head(queue)[2], 0>>
              /\ Head(queue)[1] = "delete"
          BY <4>1, HeadParts DEF TakeFirst, Handle
        <5>2. PICK i \in 1..Len(queue) : Head(queue) = queue[i]
          BY <4>1, HeadParts DEF TakeFirst
        <5>3. IsDeleted(Head(queue)[2]) /\ Head(queue)[2] \in Document
          BY <5>1, <5>2 DEF DocInv, DeletionsOfDeleted
        <5> QED BY <1>2, <5>1, <5>3 DEF Doc, IsDeleted
      <4>2. ASSUME NEW m \in Message, TakeAgain(p, m) PROVE IsDeleted(Doc(p))'
        <5>1. task'[p] = m /\ m[1] = "delete" /\ again[m] > 0
          BY <4>2 DEF TakeAgain, Handle
        <5>2. IsDeleted(m[2]) /\ m[2] \in Document
          BY <5>1, MessageParts DEF DocInv, DeletionsOfDeleted
        <5> QED BY <1>2, <5>1, <5>2 DEF Doc, IsDeleted
      <4>3. ASSUME NEW q \in Process, q # p,
                   TakeFirst(q) \/ \E m \in Message : TakeAgain(q, m)
            PROVE  FALSE
        BY <4>3 DEF TakeFirst, TakeAgain, Handle
      <4>4. ASSUME NEW q \in Process,
                   Upsert(q) \/ DeleteVectors(q) \/ StoreError(q) \/ SetStatus(q)
                   \/ LoseStatus(q) \/ Crash(q) \/ Redeliver(q)
            PROVE  FALSE
        BY <4>4 DEF Upsert, DeleteVectors, StoreError, SetStatus, LoseStatus, Crash,
                    Redeliver, Finish, GoTo, pool
      <4>5. at' # at \/ task' # task
        OBVIOUS
      <4> QED BY <4>1, <4>2, <4>3, <4>4, <4>5
              DEF DocNext, Send, Work, Post, Delete, SendTask, LoseTask, AbandonPost, docVars, pool
    <3> QED BY <3>1, <3>2
  <2> QED BY <2>1, <2>2, <2>3, <2>4 DEF DeletionsOfDeleted
<1> QED BY <1>6, <1>7, <1>8

\* A document shown as ready can be searched: its vectors are in the store, for
\* any number of documents and processes, and whatever is retried, redelivered
\* or lost.
THEOREM ReadyHolds == DocSpec => []ReadyIsSearchable
<1>1. DocSpec => []DocInv
  BY DocInitSafe, DocNextSafe, PTL DEF DocSpec
<1>2. DocInv => ReadyIsSearchable
  BY DEF DocInv
<1> QED BY <1>1, <1>2, PTL
=============================================================================
