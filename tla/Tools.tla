------------------------------- MODULE Tools -------------------------------
(***************************************************************************)
(* The tool calls of one job, as one pool process makes them one after the *)
(* other: _invoke_tool and _llm_synthesize of worker/tasks/executor.py and *)
(* the tools of worker/tools, down to the requests they send.  Providers   *)
(* answer or fail as they like; other processes share only the collection  *)
(* of the vector store.                                                    *)
(***************************************************************************)
EXTENDS Sandbox, Sequences, FiniteSetsExt

CONSTANTS
    Request,     \* tool calls a plan may ask for
    NoCall,      \* in place of a request where there is none
    Configs,     \* which keys and features are configured
    Chunk,       \* chunks of documents, of all tenants
    Libraries,   \* the sets of chunks the vector store may hold
    Owner,       \* workspace of each chunk
    Vector,      \* its similarity to the query, in tenths
    Keyword,     \* share of the words of the query it holds, in tenths
    Workspace,   \* the workspace of the job
    MaxOutputs   \* bound on the outputs a job collects

ToolName == {"web_search", "code_exec", "retrieval", "synthesis", "unknown", "unnamed"}

ASSUME ToolsAssumption ==
    /\ \A r \in Request :
          /\ r.tool \in ToolName
          /\ r.input \in {"given", "blank", "malformed"}
          /\ r.top_k \in Nat
    /\ NoCall \notin Request
    /\ IsFiniteSet(Chunk) /\ Libraries \subseteq SUBSET Chunk
    /\ Vector \in [Chunk -> Int] /\ Keyword \in [Chunk -> Int]
    /\ MaxOutputs \in Nat

VARIABLES
    config,      \* [tavily, zhipu, openai, memory], each configured or not
    call,        \* the request in progress
    verdict,     \* how the last call ended
    met,         \* what went wrong during it, for the properties alone
    asked,       \* DuckDuckGo requests of this call
    library,     \* the chunks the vector store holds
    collection,  \* its collection exists
    client,      \* the process has its QdrantRagStore, the singleton _rag_store
    pool,        \* candidates the store has returned
    outputs,     \* what the calls of the job have returned so far, in the order
                 \* of the plan
    memory,      \* the memory store has returned entries for this synthesis
    answer,      \* final_answer: who wrote it
    prompt       \* what it was written from

provider  == <<asked, library, collection, client, pool>>
synthesis == <<memory, answer, prompt>>
toolVars  == <<sandbox, config, call, verdict, met, provider, outputs, synthesis>>

\* The store has nothing for the job.
NothingKnown == \A c \in library : Owner[c] # Workspace

\* What execute_step may rely on.
Promise == INSTANCE ToolCall WITH empty <- NothingKnown

ToolStage == {"idle", "refusing", "tavily", "duckduckgo", "embedding", "listing", "making",
              "searching", "ranking", "recalling", "asking"}

ToolsTypeOK ==
    /\ SandboxTypeOK
    /\ at \in SandboxStage \cup ToolStage
    /\ config \in Configs
    /\ call \in Request \cup {NoCall}
    /\ verdict \in {"none", "ok", "toolerror", "transient"}
    /\ met \subseteq Promise!Mishap
    /\ asked \in 0..2
    /\ library \subseteq Chunk /\ collection \in BOOLEAN /\ client \in BOOLEAN
    /\ pool \subseteq Chunk
    /\ outputs \in Seq([tool : ToolName, top_k : Nat, chunks : SUBSET Chunk])
    /\ memory \in BOOLEAN
    /\ answer \in {"none", "model", "summary"}
    /\ prompt \subseteq Chunk \cup {"outputs", "memory"}

\* A store that holds chunks has a collection.
ToolsInit ==
    /\ SandboxInit /\ at = "idle"
    /\ config \in Configs
    /\ call = NoCall /\ verdict = "none" /\ met = {}
    /\ asked = 0
    /\ library \in Libraries
    /\ collection \in BOOLEAN /\ (library # {} => collection)
    /\ client = FALSE
    /\ pool = {}
    /\ outputs = << >>
    /\ memory = FALSE /\ answer = "none" /\ prompt = {}

----------------------------------------------------------------------------
(* _invoke_tool *)

\* An unknown tool, none, or a blank argument is a ToolError.  "malformed": the
\* argument is missing or is no string, which is a TypeError of the call or an
\* AttributeError in it, and counts as transient.
Misnamed(r) == r.tool \in {"unknown", "unnamed"}
Refused(r) == Misnamed(r) \/ (r.tool # "synthesis" /\ r.input # "given")

Begin(r) ==
    /\ at = "idle"
    /\ Len(outputs) < MaxOutputs \/ r.tool = "synthesis"
    /\ call' = r
    /\ verdict' = "none" /\ met' = {}
    /\ IF ~Refused(r) /\ r.tool = "code_exec"
       THEN Fresh # {} /\ mine' = CHOOSE c \in Fresh : TRUE
       ELSE UNCHANGED mine
    /\ Advance(IF Refused(r) THEN "refusing"
               ELSE IF r.tool = "web_search"
                    THEN IF config.tavily THEN "tavily" ELSE "duckduckgo"
               ELSE IF r.tool = "code_exec" THEN "connecting"
               ELSE IF r.tool = "retrieval" THEN "embedding"
               ELSE "recalling")
    /\ answer' = "none" /\ prompt' = {}
    /\ UNCHANGED <<backend, box, ending, faults, config, provider, outputs, memory>>

\* The call ends, by the last mishap if there is one; the process keeps its
\* client of the vector store.
Done(v, last) ==
    /\ verdict' = v /\ met' = met \cup last
    /\ call' = NoCall
    /\ Advance("idle")
    /\ mine' = NoContainer /\ ending' = "none"
    /\ asked' = 0 /\ pool' = {} /\ memory' = FALSE
    /\ UNCHANGED <<backend, box, faults, config, library, collection, client>>

\* What the row of the call gets as tool_output.
Succeed(chunks) ==
    /\ outputs' = Append(outputs, [tool |-> call.tool, top_k |-> call.top_k,
                                   chunks |-> chunks])
    /\ Done("ok", {})
    /\ UNCHANGED <<answer, prompt>>

Raise(v, last) == Done(v, last) /\ UNCHANGED <<outputs, answer, prompt>>

Refuse ==
    /\ at = "refusing"
    /\ Raise(IF Misnamed(call) \/ call.input = "blank" THEN "toolerror" ELSE "transient", {})

----------------------------------------------------------------------------
(* web_search *)

\* Any error of the first provider leads to the second.
Tavily ==
    /\ at = "tavily"
    /\ \/ Succeed({})
       \/ /\ Advance("duckduckgo")
          /\ UNCHANGED <<backend, box, mine, ending, faults, config, call, verdict, met,
                         provider, outputs, synthesis>>

DuckDuckGo ==
    /\ at = "duckduckgo"
    /\ Succeed({}) \/ Raise("toolerror", {"provider"})

\* The third time that the rate limit is hit, the search ends without results.
\* First, with one request too many.
RateLimitedOnceMore ==
    /\ at = "duckduckgo"
    /\ IF asked < 3
       THEN /\ asked' = asked + 1
            /\ UNCHANGED <<sandbox, config, call, verdict, met, library, collection,
                           client, pool, outputs, synthesis>>
       ELSE Succeed({})

RateLimited ==
    /\ at = "duckduckgo"
    /\ IF asked < 2
       THEN /\ asked' = asked + 1
            /\ UNCHANGED <<sandbox, config, call, verdict, met, library, collection,
                           client, pool, outputs, synthesis>>
       ELSE Succeed({})

----------------------------------------------------------------------------
(* code_exec, after run has returned or raised *)

\* First, with a timeout that passes for a result.
VerdictIgnoringTimeout == CASE ending \in {"result", "timedout"} -> "ok"
                            [] ending = "sandboxerror" -> "toolerror"
                            [] ending = "unexpected" -> "transient"

Verdict == CASE ending = "result" -> "ok"
             [] ending \in {"timedout", "sandboxerror"} -> "toolerror"
             [] ending = "unexpected" -> "transient"

EndCode ==
    /\ at = "returned"
    /\ IF Verdict = "ok" THEN Succeed({}) ELSE Raise(Verdict, {})

----------------------------------------------------------------------------
(* retrieval *)

\* OpenAI computes the embedding, if there is a key, and may fail; the fallback
\* does not.
Embed ==
    /\ at = "embedding"
    /\ Advance(IF client THEN "searching" ELSE "listing")
    /\ UNCHANGED <<backend, box, mine, ending, faults, config, call, verdict, met,
                   provider, outputs, synthesis>>

EmbedFails ==
    /\ at = "embedding" /\ config.openai
    /\ Raise("transient", {"provider"})

\* _ensure_collection: the list of the collections, then the request to create
\* the one that is missing.
List ==
    /\ at = "listing"
    /\ client' = collection
    /\ Advance(IF collection THEN "searching" ELSE "making")
    /\ UNCHANGED <<backend, box, mine, ending, faults, config, call, verdict, met,
                   asked, library, collection, pool, outputs, synthesis>>

\* Another process may have created it since, which the store answers with 409.
Make ==
    /\ at = "making"
    /\ IF collection
       THEN Raise("transient", {"store"})
       ELSE /\ collection' = TRUE /\ client' = TRUE
            /\ Advance("searching")
            /\ UNCHANGED <<backend, box, mine, ending, faults, config, call, verdict, met,
                           asked, library, pool, outputs, synthesis>>

OtherProcessMakes ==
    /\ ~collection
    /\ collection' = TRUE
    /\ UNCHANGED <<sandbox, config, call, verdict, met, asked, library, client, pool,
                   outputs, synthesis>>

\* The workspace that a search is for: what the plan says, unless the executor
\* overrides it; and as it is.
ScopeClaimed == IF "claims" \in DOMAIN call THEN call.claims ELSE Workspace
Scope == Workspace

TopK(k) == IF k > 1 THEN k ELSE 1

\* pool_size without over-fetching and as it is.
PoolSizeExact(k) == TopK(k)
PoolSize(k) == IF 3 * TopK(k) < 20 THEN 3 * TopK(k) ELSE 20

\* The n best of a set, or all if there are less; ties are broken arbitrarily.
Best(S, n, Score) ==
    { T \in kSubset(IF Cardinality(S) < n THEN Cardinality(S) ELSE n, S) :
          \A x \in T, y \in S \ T : Score[x] >= Score[y] }

Search ==
    /\ at = "searching"
    /\ pool' \in Best({ c \in library : Owner[c] = Scope }, PoolSize(call.top_k), Vector)
    /\ Advance("ranking")
    /\ UNCHANGED <<backend, box, mine, ending, faults, config, call, verdict, met,
                   asked, library, collection, client, outputs, synthesis>>

StoreFails ==
    /\ at \in {"listing", "making", "searching"}
    /\ Raise("transient", {"store"})

\* _rerank: 0.7 of the similarity and 0.3 of the share of words, in hundredths.
Combined == [c \in Chunk |-> 7 * Vector[c] + 3 * Keyword[c]]

\* The best are returned unless they score below 0.10, and at least the first.
\* Without a candidate, candidates[0] raises an IndexError.
Rank ==
    /\ at = "ranking"
    /\ IF pool = {}
       THEN Raise("transient", {})
       ELSE \E candidates \in Best(pool, TopK(call.top_k), Combined) :
               LET relevant == { c \in candidates : Combined[c] >= 10 } IN
               IF relevant # {} THEN Succeed(relevant)
               ELSE \E first \in Best(candidates, 1, Combined) : Succeed(first)

----------------------------------------------------------------------------
(* Synthesis *)

\* _retrieve_memory_context: [] without MEMORY_ENABLED and after any error.
Recall ==
    /\ at = "recalling"
    /\ memory' \in BOOLEAN
    /\ memory' => config.memory
    /\ Advance("asking")
    /\ UNCHANGED <<backend, box, mine, ending, faults, config, call, verdict, met,
                   provider, outputs, answer, prompt>>

Retrievals == { i \in DOMAIN outputs : outputs[i].tool = "retrieval" }

\* What the prompt is written from.  The answer without a model when the first
\* retrieval holds no chunk is never given: Rank returns a chunk or raises.
Prompt ==
    IF Retrievals # {}
    THEN outputs[Min(Retrievals)].chunks
    ELSE {"outputs"} \cup (IF memory THEN {"memory"} ELSE {})

Answered(who, from) ==
    /\ answer' = who
    /\ prompt' = from
    /\ Done("ok", {})
    /\ UNCHANGED outputs

\* One provider at most is asked, zhipu before openai.
AskModel ==
    /\ at = "asking" /\ (config.zhipu \/ config.openai)
    /\ Answered("model", Prompt)

\* There is none, it fails, or it answers nothing: a summary of the outputs.
Summarise ==
    /\ at = "asking"
    /\ Answered("summary", {"outputs"})

----------------------------------------------------------------------------

\* The process dies, and another takes its place.
Crash ==
    /\ at # "idle"
    /\ Fails("crash")
    /\ call' = NoCall
    /\ Advance("idle")
    /\ mine' = NoContainer /\ ending' = "none"
    /\ asked' = 0 /\ pool' = {} /\ memory' = FALSE
    /\ client' = FALSE
    /\ UNCHANGED <<backend, box, config, verdict, met, library, collection, outputs,
                   answer, prompt>>

Outside == UNCHANGED <<config, call, verdict, provider, outputs, synthesis>>

\* A fault of this step, or the time limit.
SandboxMeets ==
    met' = met \cup { f[1] : f \in faults' \ faults }
               \cup (IF TimeOut THEN {"timeout"} ELSE {})

\* A step of the call in progress.
CallStep ==
    \/ SandboxStep /\ SandboxMeets /\ Outside
    \/ Refuse \/ Tavily \/ DuckDuckGo \/ RateLimited \/ EndCode
    \/ Embed \/ EmbedFails \/ List \/ Make \/ StoreFails \/ Search \/ Rank
    \/ Recall \/ AskModel \/ Summarise

ToolsNext ==
    \/ \E r \in Request : Begin(r)
    \/ CallStep
    \/ SandboxFault /\ SandboxMeets /\ Outside
    \/ Program /\ Outside /\ UNCHANGED met
    \/ OtherProcessMakes
    \/ Crash

ToolsSpec == ToolsInit /\ [][ToolsNext]_toolVars

\* The process keeps running; its requests are answered or time out.  Nothing
\* makes a program exit.
FairToolsSpec == ToolsSpec /\ WF_toolVars(CallStep)

----------------------------------------------------------------------------

\* A call ends, whatever its program does and however
\* often a provider refuses (web_search.py:89, docker_sandbox.py:98).
CallsEnd == call # NoCall ~> call = NoCall

\* A model answers a job that has searched the knowledge base from chunks of
\* its own workspace alone, not from the web, the memory or another tenant
\* (executor.py:677-751, 387).
AnswersAreGrounded ==
    answer = "model" /\ Retrievals # {}
        => \A x \in prompt : x \in Chunk /\ Owner[x] = Workspace

\* How many chunks are in reach of the second ranking.
Reach(k) == IF TopK(k) < 7 THEN 3 * TopK(k) ELSE 20

\* At least as many others as are in reach are no less similar to the query.
OutOfReach(c, k) ==
    Cardinality({ d \in library \ {c} :
        Owner[d] = Workspace /\ Vector[d] >= Vector[c] }) >= Reach(k)

\* The chunks of its own workspace that a retrieval leaves out, although they
\* score more than one it returns, were out of reach of its second ranking: the
\* pool is three times top_k, up to 20 (retrieval.py:165-173).
BetterChunksWereOutOfReach ==
    \A i \in Retrievals : \A c \in library \ outputs[i].chunks :
        Owner[c] = Workspace /\ (\E d \in outputs[i].chunks : Combined[d] < Combined[c])
            => OutOfReach(c, outputs[i].top_k)

\* Each call ends in the way that the request and the mishaps of this very call
\* settle: an error of the sandbox or of the store is not taken for a result, a
\* timeout is a ToolError also when the container exits before it is killed, a
\* clean-up that fails spoils no result, and the process that loses the race for
\* the collection gets an error (code_exec.py:52-64, docker_sandbox.py:100-136,
\* qdrant_rag.py:157).
ImplementsToolCall == Promise!CallSpec
=============================================================================
