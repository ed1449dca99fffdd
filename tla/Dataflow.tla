------------------------------ MODULE Dataflow ------------------------------
(***************************************************************************)
(* What the platform promises of one job, whatever its processes, messages *)
(* and crashes do: a step starts only when every step it depends on has    *)
(* produced its output, and only a step that was started produces one.     *)
(* Deleting the job discards everything, for good.                         *)
(*                                                                         *)
(* Module Executor implements it, with started the rows ever claimed and   *)
(* finished the rows with a tool_output.                                   *)
(***************************************************************************)
EXTENDS TaskGraph

VARIABLES
    open,        \* the job exists
    started,     \* rows handed to a tool
    finished     \* rows whose output is there

flow == <<open, started, finished>>

FlowInit ==
    /\ open = TRUE
    /\ started = {}
    /\ finished = {}

Start(t) ==
    /\ open
    /\ Released(t, finished)
    /\ started' = started \cup {t}
    /\ UNCHANGED <<open, finished>>

Produce(t) ==
    /\ open
    /\ t \in started
    /\ finished' = finished \cup {t}
    /\ UNCHANGED <<open, started>>

Discard ==
    /\ open' = FALSE
    /\ started' = {}
    /\ finished' = {}

FlowNext == Discard \/ \E t \in Task : Start(t) \/ Produce(t)

FlowSpec == FlowInit /\ [][FlowNext]_flow
=============================================================================
