------------------------------ MODULE Sandbox ------------------------------
(***************************************************************************)
(* One call of BaseSandbox.run at a time, by one pool process, with either *)
(* backend of worker/sandbox: a container driven through the Docker API,   *)
(* or a child process.  Calls of different processes share nothing.  The   *)
(* program runs beside the process that waits for it and exits, or does    *)
(* not, when it likes.                                                     *)
(*                                                                         *)
(* A request to the Docker daemon fails in two ways: the daemon answers    *)
(* with an error (APIError, a DockerException) and has done nothing, or    *)
(* the transport fails, which requests reports with an exception that is   *)
(* no DockerException, and the daemon may have done its part.              *)
(***************************************************************************)
EXTENDS Integers, FiniteSets

CONSTANTS
    Container,   \* containers or child processes the calls may create
    NoContainer, \* in place of one where there is none
    Backends,    \* settings.sandbox_backend: "docker", "subprocess"
    MaxFaults    \* bound on the faults below

ASSUME SandboxAssumption ==
    /\ NoContainer \notin Container
    /\ Backends \subseteq {"docker", "subprocess"}
    /\ MaxFaults \in Nat

VARIABLES
    backend,
    at,          \* what the process does next
    box,         \* state of each container
    mine,        \* the container of this call
    ending,      \* how run ends: a result, timed out, SandboxError, or any
                 \* other exception
    faults       \* <<kind, container>>: what has gone wrong

sandbox == <<backend, at, box, mine, ending, faults>>

BoxState == {"none", "created", "running", "exited", "killed", "gone"}
Ending   == {"none", "result", "timedout", "sandboxerror", "unexpected"}
SandboxStage == {"connecting", "creating", "starting", "waiting", "killing",
                 "reading", "removing", "returned"}
Fault == {"connect", "launch", "wait", "kill", "logs", "remove", "crash"}

SandboxTypeOK ==
    /\ backend \in Backends
    /\ box \in [Container -> BoxState]
    /\ mine \in Container \cup {NoContainer}
    /\ ending \in Ending
    /\ faults \subseteq Fault \X (Container \cup {NoContainer})

SandboxInit ==
    /\ backend \in Backends
    /\ box = [c \in Container |-> "none"]
    /\ mine = NoContainer
    /\ ending = "none"
    /\ faults = {}

Fresh == { c \in Container : box[c] = "none" }
Docker == backend = "docker"

Fails(kind) ==
    /\ <<kind, mine>> \notin faults
    /\ Cardinality(faults) < MaxFaults
    /\ faults' = faults \cup {<<kind, mine>>}

Advance(stage) == at' = stage
Turn(state) == box' = [box EXCEPT ![mine] = state]
Return(e) == ending' = e /\ Advance("returned")

\* What DockerSandbox.run does with a failed request: a DockerException becomes
\* a SandboxError, anything else passes.  "done" is the effect of the request.
DaemonFails(kind, done) ==
    /\ Fails(kind)
    /\ \/ ending' = "sandboxerror" /\ UNCHANGED box
       \/ ending' = "unexpected" /\ (UNCHANGED box \/ Turn(done))

----------------------------------------------------------------------------
(* get_sandbox: a client for each call.  code_exec calls it outside of its  *)
(* try, so its SandboxError is no ToolError.                               *)

Connect ==
    /\ at = "connecting"
    /\ Advance("creating")
    /\ UNCHANGED <<backend, box, mine, ending, faults>>

ConnectFails ==
    /\ at = "connecting" /\ Docker
    /\ Fails("connect")
    /\ Return("unexpected")
    /\ UNCHANGED <<backend, box, mine>>

----------------------------------------------------------------------------
(* containers.run: create, then start; subprocess.run: both at once *)

Create ==
    /\ at = "creating" /\ Docker
    /\ Turn("created")
    /\ Advance("starting")
    /\ UNCHANGED <<backend, mine, ending, faults>>

Start ==
    /\ at = IF Docker THEN "starting" ELSE "creating"
    /\ Turn("running")
    /\ Advance("waiting")
    /\ UNCHANGED <<backend, mine, ending, faults>>

\* Without a return value of containers.run there is nothing to remove.
LaunchFails ==
    /\ at \in {"creating", "starting"}
    /\ IF Docker
       THEN DaemonFails("launch", IF at = "creating" THEN "created" ELSE "running")
       ELSE Fails("launch") /\ ending' = "unexpected" /\ UNCHANGED box
    /\ Advance("returned")
    /\ UNCHANGED <<backend, mine>>

----------------------------------------------------------------------------
(* The program, and the wait for it *)

ProgramExits(c) ==
    /\ box[c] = "running"
    /\ box' = [box EXCEPT ![c] = "exited"]
    /\ UNCHANGED <<backend, at, mine, ending, faults>>

\* The program has exited.  subprocess.run decodes its output strictly, and
\* raises when it is not UTF-8; the other backend replaces what it cannot decode.
Wait ==
    /\ at = "waiting" /\ box[mine] = "exited"
    /\ IF Docker
       THEN ending' = "result" /\ Advance("reading") /\ UNCHANGED box
       ELSE /\ Return("result") \/ Return("unexpected")
            /\ Turn("gone")
    /\ UNCHANGED <<backend, mine, faults>>

\* The time is up.  subprocess.run kills the child and waits for it.  First, a
\* container.wait without a limit.
TimeOutOfChild ==
    /\ at = "waiting" /\ ~Docker
    /\ Return("timedout") /\ Turn("gone")
    /\ UNCHANGED <<backend, mine, faults>>

TimeOut ==
    /\ at = "waiting"
    /\ IF Docker
       THEN Advance("killing") /\ UNCHANGED <<box, ending>>
       ELSE Return("timedout") /\ Turn("gone")
    /\ UNCHANGED <<backend, mine, faults>>

\* Any other failure of container.wait is taken for a timeout.
WaitFails ==
    /\ at = "waiting" /\ Docker
    /\ Fails("wait")
    /\ Advance("killing")
    /\ UNCHANGED <<backend, box, mine, ending>>

\* The daemon refuses to kill a container that has exited meanwhile, 409.
Kill ==
    /\ at = "killing"
    /\ IF box[mine] = "running"
       THEN Turn("killed") /\ ending' = "timedout" /\ Advance("reading")
       ELSE ending' = "sandboxerror" /\ Advance("removing") /\ UNCHANGED box
    /\ UNCHANGED <<backend, mine, faults>>

KillFails ==
    /\ at = "killing"
    /\ DaemonFails("kill", IF box[mine] = "running" THEN "killed" ELSE box[mine])
    /\ Advance("removing")
    /\ UNCHANGED <<backend, mine>>

----------------------------------------------------------------------------
(* Output and clean-up *)

ReadLogs ==
    /\ at = "reading"
    /\ Advance("removing")
    /\ UNCHANGED <<backend, box, mine, ending, faults>>

\* A run whose output cannot be read skips the clean-up, and as it is.
LogsFailAndReturn ==
    /\ at = "reading"
    /\ DaemonFails("logs", box[mine])
    /\ Advance("returned")
    /\ UNCHANGED <<backend, mine>>

LogsFail ==
    /\ at = "reading"
    /\ DaemonFails("logs", box[mine])
    /\ Advance("removing")
    /\ UNCHANGED <<backend, mine>>

\* remove in the finally block, without force and with it.
RemoveGently ==
    /\ at = "removing"
    /\ IF box[mine] = "running" THEN UNCHANGED box ELSE Turn("gone")
    /\ Advance("returned")
    /\ UNCHANGED <<backend, mine, ending, faults>>

Remove ==
    /\ at = "removing"
    /\ Turn("gone")
    /\ Advance("returned")
    /\ UNCHANGED <<backend, mine, ending, faults>>

\* ... whose errors are swallowed.
RemoveFails ==
    /\ at = "removing"
    /\ Fails("remove")
    /\ UNCHANGED box \/ Turn("gone")
    /\ Advance("returned")
    /\ UNCHANGED <<backend, mine, ending>>

----------------------------------------------------------------------------

SandboxStep ==
    \/ Connect \/ Create \/ Start \/ Wait \/ TimeOut \/ Kill
    \/ ReadLogs \/ Remove

SandboxFault ==
    \/ ConnectFails \/ LaunchFails \/ WaitFails \/ KillFails
    \/ LogsFail \/ RemoveFails

Program == \E c \in Container : ProgramExits(c)

----------------------------------------------------------------------------

Over(c) == c # mine \/ at = "returned"
Hit(c, kinds) == \A k \in kinds : <<k, c>> \in faults

\* A program does not outlive the call that started it, although the wait, the
\* kill, the logs or the removal fails; two failures are needed, unless the
\* container was never handed over or the process has died
\* (docker_sandbox.py:131-136).
NoProgramOutlivesItsCall ==
    \A c \in Container :
        Over(c) /\ box[c] = "running"
            => Hit(c, {"launch"}) \/ Hit(c, {"crash"}) \/ Hit(c, {"kill", "remove"})

\* A container is left behind only when its launch or its removal has failed
\* or the process has died: "force-removed in a finally block even when the run
\* times out or raises" (docker_sandbox.py:10).
ContainersAreRemoved ==
    \A c \in Container :
        Over(c) /\ box[c] \notin {"none", "gone"}
            => \E k \in {"launch", "remove", "crash"} : Hit(c, {k})
=============================================================================
