------------------------------ MODULE ToolCall ------------------------------
(***************************************************************************)
(* A tool call as execute_step sees it (executor.py:187): it is a success, *)
(* a ToolError, which fails the row at once, or any other error, which     *)
(* counts as transient.  Which of the three is settled by the request and  *)
(* by what goes wrong outside of the worker during the call.               *)
(*                                                                         *)
(* This is what the callers can rely on.  Two comments promise more, and   *)
(* are contradicted in Contract: an unreachable Docker daemon, and a child *)
(* process that cannot be launched, are no ToolErrors, against             *)
(* code_exec.py:43, and an empty knowledge base is an error, against       *)
(* retrieval.py:104.                                                       *)
(***************************************************************************)

CONSTANTS Request, NoCall

VARIABLES
    call,        \* the request being worked on, or NoCall
    verdict,     \* how the last one ended, "none" as long as it has not
    met,         \* what has gone wrong during it
    backend,     \* settings.sandbox_backend
    empty        \* the knowledge base has nothing for this workspace

callVars == <<call, verdict, met, backend, empty>>

\* A provider of the tool that has no other to fall back on, the vector store;
\* the time limit of a program; and each request to the Docker daemon, or the
\* launch of a child process.
Mishap == {"provider", "store", "timeout", "connect", "launch", "wait", "kill",
           "logs", "remove"}

\* A failed removal spoils no result.  What fails before the sandbox runs (the
\* client of Docker, the launch of a child process) is no ToolError.  A later
\* request may fail in either way, save the wait, whose failure counts as a
\* timeout.  The output of a child process may be undecodable.
CodeExec(v, m) ==
    CASE v = "ok"        -> m \subseteq {"remove"}
      [] v = "toolerror" -> /\ ~(m \subseteq {"remove"})
                            /\ "connect" \notin m
                            /\ "launch" \in m => backend = "docker"
      [] v = "transient" -> \/ m \cap {"connect", "launch", "kill", "logs"} # {}
                            \/ m = {} /\ backend = "subprocess"

\* Whether v is how request r ends after m has gone wrong.
Contract(r, v, m) ==
    CASE r.tool = "synthesis" ->
            v = "ok"
      [] r.tool \in {"unknown", "unnamed"} ->
            v = "toolerror"
      [] r.tool \in {"web_search", "code_exec", "retrieval"} /\ r.input = "blank" ->
            v = "toolerror"
      [] r.tool \in {"web_search", "code_exec", "retrieval"} /\ r.input = "malformed" ->
            v = "transient"
      [] r.tool = "web_search" /\ r.input = "given" ->
            v = IF m = {} THEN "ok" ELSE "toolerror"
      [] r.tool = "retrieval" /\ r.input = "given" ->
            v = IF m = {} /\ ~empty THEN "ok" ELSE "transient"
      [] r.tool = "code_exec" /\ r.input = "given" ->
            CodeExec(v, m)

CallInit == call = NoCall /\ verdict = "none" /\ met = {}

Begin(r) ==
    /\ call = NoCall
    /\ call' = r
    /\ verdict' = "none"
    /\ met' = {}
    /\ UNCHANGED <<backend, empty>>

\* Something goes wrong, and the call goes on.
Meet(mishap) ==
    /\ call # NoCall
    /\ met' = met \cup {mishap}
    /\ UNCHANGED <<call, verdict, backend, empty>>

\* The call ends, by the last mishap if there is one.
End(v, last) ==
    /\ call # NoCall
    /\ met' = met \cup last
    /\ Contract(call, v, met')
    /\ verdict' = v
    /\ call' = NoCall
    /\ UNCHANGED <<backend, empty>>

\* The process dies with its call.
Leave ==
    /\ call # NoCall
    /\ call' = NoCall
    /\ UNCHANGED <<verdict, met, backend, empty>>

CallNext ==
    \/ \E r \in Request : Begin(r)
    \/ \E mishap \in Mishap : Meet(mishap)
    \/ \E v \in {"ok", "toolerror", "transient"}, last \in {{}} \cup { {m} : m \in Mishap } :
          End(v, last)
    \/ Leave

CallSpec == CallInit /\ [][CallNext]_callVars
=============================================================================
