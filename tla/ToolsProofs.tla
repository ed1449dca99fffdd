---------------------------- MODULE ToolsProofs ----------------------------
(***************************************************************************)
(* For any requests, containers, providers and knowledge base: no program  *)
(* outlives its call and no container is left behind without the failures  *)
(* that excuse it, a model answers from chunks of the job's own workspace, *)
(* and the tools implement the contract that execute_step relies on.       *)
(***************************************************************************)
EXTENDS Tools, TLAPS, WellFoundedInduction, FiniteSetTheorems

(***************************************************************************)
(* What the stage of a call says of its container and of its ending.  The  *)
(* container of another call, or of one whose run has returned, is covered *)
(* by the two properties themselves.                                       *)
(***************************************************************************)
StageOfBox ==
    /\ at \in SandboxStage => mine \in Container
    /\ at \in ToolStage => mine = NoContainer /\ ending = "none"
    /\ at \in {"connecting", "creating"} => box[mine] = "none"
    /\ at = "starting" => Docker /\ box[mine] = "created"
    /\ at \in {"waiting", "killing"} => box[mine] \in {"running", "exited"}
    /\ at = "removing" =>
          /\ box[mine] \in {"running", "exited", "killed"}
          /\ box[mine] = "running" => Hit(mine, {"kill"})
    /\ at = "reading" => box[mine] \in {"exited", "killed"}
    /\ at \in {"reading", "removing", "returned"} => ending # "none"
    /\ at \in {"reading", "removing", "killing"} => Docker

SandboxInv ==
    /\ SandboxTypeOK
    /\ at \in SandboxStage \cup ToolStage
    /\ StageOfBox
    /\ NoProgramOutlivesItsCall
    /\ ContainersAreRemoved

\* The request that each stage belongs to.
StageOfCall ==
    /\ call = NoCall <=> at = "idle"
    /\ at # "idle" => call \in Request
    /\ at = "refusing" => Refused(call)
    /\ at \in SandboxStage => call.tool = "code_exec"
    /\ at \in {"tavily", "duckduckgo"} => call.tool = "web_search"
    /\ at \in {"embedding", "listing", "making", "searching", "ranking"} =>
          call.tool = "retrieval"
    /\ at \in {"recalling", "asking"} => call.tool = "synthesis"
    /\ at \notin {"idle", "refusing"} => ~Refused(call)

\* What may have gone wrong by each stage of a call, and with each ending of a
\* run.
MetOfStage ==
    /\ at \in (ToolStage \ {"idle"}) \cup {"connecting", "creating", "starting", "waiting"}
          => met = {}
    /\ at = "killing" => met # {} /\ met \subseteq {"timeout", "wait"}
    /\ at \in SandboxStage => (ending = "none" <=>
          at \in {"connecting", "creating", "starting", "waiting", "killing"})
    /\ at = "reading" => ending \in {"result", "timedout"}
    /\ ending = "result" => met \subseteq {"remove"}
    /\ ending = "timedout" =>
          met \subseteq {"timeout", "wait", "remove"} /\ ~(met \subseteq {"remove"})
    /\ ending = "sandboxerror" =>
          Docker /\ "connect" \notin met /\ ~(met \subseteq {"remove"})
    /\ ending = "unexpected" =>
          \/ met \cap {"connect", "launch", "kill", "logs"} # {}
          \/ backend = "subprocess" /\ met = {}

\* A search comes back with nothing only when there is nothing to be found.
SearchOfStage ==
    /\ library \subseteq Chunk
    /\ at = "ranking" => (pool = {} <=> NothingKnown)

CallInv ==
    /\ SandboxInv
    /\ StageOfCall
    /\ MetOfStage
    /\ SearchOfStage

\* The chunks of the job's workspace.
Own == { c \in Chunk : Owner[c] = Workspace }

\* What a retrieval may hold at any time, and that no answer stands while a
\* call is in progress that could change what it was written from.
GroundInv ==
    /\ library \subseteq Chunk
    /\ pool \subseteq Own
    /\ outputs \in Seq([tool : ToolName, top_k : Nat, chunks : SUBSET Own])
    /\ call # NoCall => call \in Request /\ answer = "none"
    /\ at # "idle" => call # NoCall
    /\ AnswersAreGrounded

----------------------------------------------------------------------------
(* The sandbox *)

LEMMA SandboxInitially == ToolsInit => SandboxInv
<1> SUFFICES ASSUME ToolsInit PROVE SandboxInv
  OBVIOUS
<1> USE SandboxAssumption DEF ToolsInit, SandboxInit
<1>1. SandboxTypeOK /\ at \in ToolStage
  BY DEF SandboxTypeOK, BoxState, Ending, ToolStage
<1>2. StageOfBox
  BY DEF StageOfBox, SandboxStage
<1>3. NoProgramOutlivesItsCall /\ ContainersAreRemoved
  BY DEF NoProgramOutlivesItsCall, ContainersAreRemoved, Over
<1> QED
  BY <1>1, <1>2, <1>3 DEF SandboxInv

\* The two properties, of one container whose call is over.
Excused(c) ==
    /\ box[c] = "running"
          => Hit(c, {"launch"}) \/ Hit(c, {"crash"}) \/ Hit(c, {"kill", "remove"})
    /\ box[c] \notin {"none", "gone"}
          => \E k \in {"launch", "remove", "crash"} : Hit(c, {k})

LEMMA ExcusedIsSafe ==
    NoProgramOutlivesItsCall /\ ContainersAreRemoved
        <=> \A c \in Container : Over(c) => Excused(c)
BY DEF NoProgramOutlivesItsCall, ContainersAreRemoved, Excused

LEMMA ExcusedStays ==
    ASSUME NEW c, Excused(c), faults \subseteq faults', box'[c] = box[c]
    PROVE  Excused(c)'
BY DEF Excused, Hit

LEMMA FaultIsRemembered ==
    ASSUME SandboxTypeOK, NEW kind \in Fault, Fails(kind)
    PROVE  /\ faults' \subseteq Fault \X (Container \cup {NoContainer})
           /\ faults \subseteq faults'
           /\ <<kind, mine>> \in faults'
BY DEF Fails, SandboxTypeOK

\* What it takes to show of a step of the sandbox: the other containers are as
\* safe as before.
LEMMA OwnContainer ==
    ASSUME SandboxInv, mine \in Container, UNCHANGED <<mine, backend>>,
           faults \subseteq faults',
           faults' \subseteq Fault \X (Container \cup {NoContainer}),
           NEW s \in BoxState, box' = [box EXCEPT ![mine] = s],
           ending' \in Ending, at' \in SandboxStage,
           StageOfBox', at' = "returned" => Excused(mine)'
    PROVE  SandboxInv'
<1>1. SandboxTypeOK'
  BY DEF SandboxInv, SandboxTypeOK
<1>2. ASSUME NEW c \in Container, Over(c)' PROVE Excused(c)'
  <2>1. CASE c = mine
    BY <1>2, <2>1 DEF Over
  <2>2. CASE c # mine
    <3>1. box'[c] = box[c]
      BY <2>2 DEF SandboxInv, SandboxTypeOK
    <3>2. Excused(c)
      BY <2>2, ExcusedIsSafe DEF SandboxInv, Over
    <3> QED
      BY <3>1, <3>2, ExcusedStays
  <2> QED
    BY <2>1, <2>2
<1>3. (NoProgramOutlivesItsCall /\ ContainersAreRemoved)'
  BY <1>2 DEF NoProgramOutlivesItsCall, ContainersAreRemoved, Excused
<1> QED
  BY <1>1, <1>3 DEF SandboxInv

\* The steps of a run.
LEMMA SandboxKeepsItsStages ==
    ASSUME SandboxInv, SandboxStep \/ SandboxFault
    PROVE  SandboxInv'
<1> USE SandboxAssumption
<1> DEFINE Summary(s) ==
        /\ UNCHANGED <<mine, backend>>
        /\ faults \subseteq faults'
        /\ faults' \subseteq Fault \X (Container \cup {NoContainer})
        /\ s \in BoxState
        /\ box' = [box EXCEPT ![mine] = s]
        /\ ending' \in Ending /\ at' \in SandboxStage
        /\ StageOfBox'
        /\ at' = "returned" => Excused(mine)'
<1>m. mine \in Container /\ box \in [Container -> BoxState] /\ ending \in Ending
      /\ faults \subseteq Fault \X (Container \cup {NoContainer})
      /\ box[mine] \in BoxState
      /\ box = [box EXCEPT ![mine] = box[mine]]
  BY DEF SandboxInv, SandboxTypeOK, StageOfBox, SandboxStage, SandboxStep, SandboxFault,
         Connect, Create, Start, Wait, TimeOut, Kill, ReadLogs, Remove, ConnectFails,
         LaunchFails, WaitFails, KillFails, LogsFail, RemoveFails
<1>s. StageOfBox
  BY DEF SandboxInv
<1> SUFFICES \E s : Summary(s)
  BY <1>m, OwnContainer
<1> HIDE DEF Summary
<1>1. CASE Connect
  <2>1. Summary(box[mine])
    BY <1>1, <1>m, <1>s DEF Summary, Connect, Advance, StageOfBox, SandboxStage, ToolStage
  <2> QED
    BY <2>1
<1>2. CASE Create
  <2>1. Summary("created")
    BY <1>2, <1>m, <1>s
    DEF Summary, Create, Turn, Advance, StageOfBox, SandboxStage, ToolStage, BoxState, Docker
  <2> QED
    BY <2>1
<1>3. CASE Start
  <2>1. Summary("running")
    BY <1>3, <1>m, <1>s
    DEF Summary, Start, Turn, Advance, StageOfBox, SandboxStage, ToolStage, BoxState, Docker
  <2> QED
    BY <2>1
<1>4. CASE Wait
  <2>1. Docker => Summary(box[mine])
    BY <1>4, <1>m, <1>s
    DEF Summary, Wait, Advance, StageOfBox, SandboxStage, ToolStage, Ending, Docker
  <2>2. ~Docker => Summary("gone")
    BY <1>4, <1>m, <1>s
    DEF Summary, Wait, Turn, Return, Advance, StageOfBox, SandboxStage, ToolStage, Ending,
        BoxState, Docker, Excused
  <2> QED
    BY <2>1, <2>2
<1>5. CASE TimeOut
  <2>1. Docker => Summary(box[mine])
    BY <1>5, <1>m, <1>s
    DEF Summary, TimeOut, Advance, StageOfBox, SandboxStage, ToolStage, Docker
  <2>2. ~Docker => Summary("gone")
    BY <1>5, <1>m, <1>s
    DEF Summary, TimeOut, Turn, Return, Advance, StageOfBox, SandboxStage, ToolStage, Ending,
        BoxState, Docker, Excused
  <2> QED
    BY <2>1, <2>2
<1>6. CASE Kill
  <2>1. box[mine] = "running" => Summary("killed")
    BY <1>6, <1>m, <1>s
    DEF Summary, Kill, Turn, Advance, StageOfBox, SandboxStage, ToolStage, Ending, BoxState,
        Docker
  <2>2. box[mine] # "running" => Summary(box[mine])
    BY <1>6, <1>m, <1>s
    DEF Summary, Kill, Advance, StageOfBox, SandboxStage, ToolStage, Ending, Docker
  <2> QED
    BY <2>1, <2>2
<1>7. CASE ReadLogs
  <2>1. Summary(box[mine])
    BY <1>7, <1>m, <1>s
    DEF Summary, ReadLogs, Advance, StageOfBox, SandboxStage, ToolStage, Docker
  <2> QED
    BY <2>1
<1>8. CASE Remove
  <2>1. Summary("gone")
    BY <1>8, <1>m, <1>s
    DEF Summary, Remove, Turn, Advance, StageOfBox, SandboxStage, ToolStage, BoxState, Docker,
        Excused
  <2> QED
    BY <2>1
<1>t. SandboxTypeOK
  BY DEF SandboxInv
<1>9. CASE ConnectFails
  <2>1. Fails("connect")
    BY <1>9 DEF ConnectFails
  <2>2. Summary(box[mine])
    BY <1>9, <1>m, <1>s, <1>t, <2>1, FaultIsRemembered
    DEF Summary, ConnectFails, Return, Advance, StageOfBox, SandboxStage, ToolStage, Ending,
        Fault, Excused
  <2> QED
    BY <2>2
<1>10. CASE LaunchFails
  <2>1. Fails("launch")
    BY <1>10 DEF LaunchFails, DaemonFails
  <2>2. PICK s \in BoxState : box' = [box EXCEPT ![mine] = s]
    BY <1>10, <1>m DEF LaunchFails, DaemonFails, Turn, BoxState
  <2>3. <<"launch", mine>> \in faults' /\ faults \subseteq faults'
        /\ faults' \subseteq Fault \X (Container \cup {NoContainer})
    BY <1>t, <2>1, FaultIsRemembered DEF Fault
  <2>4. ending' \in {"sandboxerror", "unexpected"} /\ at' = "returned"
        /\ UNCHANGED <<mine, backend>>
    BY <1>10 DEF LaunchFails, DaemonFails, Advance
  <2>5. Excused(mine)'
    BY <2>3, <2>4 DEF Excused, Hit
  <2>6. Summary(s)
    BY <1>m, <2>2, <2>3, <2>4, <2>5 DEF Summary, StageOfBox, SandboxStage, ToolStage, Ending
  <2> QED
    BY <2>6
<1>11. CASE WaitFails
  <2>1. Fails("wait")
    BY <1>11 DEF WaitFails
  <2>2. Summary(box[mine])
    BY <1>11, <1>m, <1>s, <1>t, <2>1, FaultIsRemembered
    DEF Summary, WaitFails, Advance, StageOfBox, SandboxStage, ToolStage, Fault, Docker
  <2> QED
    BY <2>2
<1>12. CASE KillFails
  <2>1. Fails("kill")
    BY <1>12 DEF KillFails, DaemonFails
  <2>2. PICK s \in {"running", "exited", "killed"} : box' = [box EXCEPT ![mine] = s]
    BY <1>12, <1>m, <1>s DEF KillFails, DaemonFails, Turn, StageOfBox
  <2>3. <<"kill", mine>> \in faults' /\ faults \subseteq faults'
        /\ faults' \subseteq Fault \X (Container \cup {NoContainer})
    BY <1>t, <2>1, FaultIsRemembered DEF Fault
  <2>4. ending' \in {"sandboxerror", "unexpected"} /\ at' = "removing"
        /\ UNCHANGED <<mine, backend>> /\ Docker'
    BY <1>12, <1>s DEF KillFails, DaemonFails, Advance, StageOfBox, Docker
  <2>5. Summary(s)
    BY <1>m, <2>2, <2>3, <2>4
    DEF Summary, StageOfBox, SandboxStage, ToolStage, Ending, BoxState, Hit
  <2> QED
    BY <2>5
<1>13. CASE LogsFail
  <2>1. Fails("logs")
    BY <1>13 DEF LogsFail, DaemonFails
  <2>2. box' = [box EXCEPT ![mine] = box[mine]]
    BY <1>13, <1>m DEF LogsFail, DaemonFails, Turn
  <2>3. faults \subseteq faults' /\ faults' \subseteq Fault \X (Container \cup {NoContainer})
    BY <1>t, <2>1, FaultIsRemembered DEF Fault
  <2>4. ending' \in {"sandboxerror", "unexpected"} /\ at' = "removing"
        /\ UNCHANGED <<mine, backend>> /\ Docker' /\ box[mine] \in {"exited", "killed"}
    BY <1>13, <1>s DEF LogsFail, DaemonFails, Advance, StageOfBox, Docker
  <2>5. Summary(box[mine])
    BY <1>m, <2>2, <2>3, <2>4
    DEF Summary, StageOfBox, SandboxStage, ToolStage, Ending, BoxState
  <2> QED
    BY <2>5
<1>14. CASE RemoveFails
  <2>1. Fails("remove")
    BY <1>14 DEF RemoveFails
  <2>2. PICK s \in BoxState : /\ box' = [box EXCEPT ![mine] = s]
                              /\ s = "running" => box[mine] = "running"
    BY <1>14, <1>m DEF RemoveFails, Turn, BoxState
  <2>3. <<"remove", mine>> \in faults' /\ faults \subseteq faults'
        /\ faults' \subseteq Fault \X (Container \cup {NoContainer})
    BY <1>t, <2>1, FaultIsRemembered DEF Fault
  <2>4. at' = "returned" /\ UNCHANGED <<mine, backend, ending>> /\ ending # "none"
    BY <1>14, <1>s DEF RemoveFails, Advance, StageOfBox
  <2>5. box[mine] = "running" => <<"kill", mine>> \in faults
    BY <1>14, <1>s DEF RemoveFails, StageOfBox, Hit
  <2>6. box'[mine] = s
    BY <1>m, <2>2
  <2>7. Excused(mine)'
    BY <2>2, <2>3, <2>4, <2>5, <2>6 DEF Excused, Hit
  <2>8. Summary(s)
    BY <1>m, <2>2, <2>3, <2>4, <2>7 DEF Summary, StageOfBox, SandboxStage, ToolStage
  <2> QED
    BY <2>8
<1> QED
  BY <1>1, <1>2, <1>3, <1>4, <1>5, <1>6, <1>7, <1>8, <1>9, <1>10, <1>11, <1>12, <1>13, <1>14
  DEF SandboxStep, SandboxFault

\* A program that exits changes the state of its container alone.
LEMMA ProgramsExitSafely ==
    ASSUME SandboxInv, NEW c \in Container, ProgramExits(c)
    PROVE  SandboxInv'
<1> USE DEF SandboxInv
<1>1. box' = [box EXCEPT ![c] = "exited"] /\ box[c] = "running"
      /\ UNCHANGED <<backend, at, mine, ending, faults>>
  BY DEF ProgramExits
<1>2. SandboxTypeOK' /\ at' \in SandboxStage \cup ToolStage
  BY <1>1 DEF SandboxTypeOK, BoxState
<1>3. StageOfBox'
  <2>1. CASE c = mine
    BY <1>1, <2>1 DEF StageOfBox, SandboxTypeOK, Docker, SandboxStage, ToolStage
  <2>2. CASE c # mine
    <3>1. mine \in Container => box'[mine] = box[mine]
      BY <1>1, <2>2 DEF SandboxTypeOK
    <3> QED
      BY <1>1, <2>2, <3>1 DEF StageOfBox, Docker, Hit, SandboxStage
  <2> QED
    BY <2>1, <2>2
<1>4. (NoProgramOutlivesItsCall /\ ContainersAreRemoved)'
  BY <1>1 DEF NoProgramOutlivesItsCall, ContainersAreRemoved, Over, Hit, SandboxTypeOK
<1> QED
  BY <1>2, <1>3, <1>4

\* A step of a tool other than code_exec, the end of a call, and the death of
\* the process touch no container.
LEMMA ContainersUntouched ==
    ASSUME SandboxInv, UNCHANGED <<backend, box>>,
           faults \subseteq faults',
           faults' \subseteq Fault \X (Container \cup {NoContainer}),
           mine' = NoContainer, ending' = "none", at' \in ToolStage,
           mine \in Container => Over(mine) \/ <<"crash", mine>> \in faults'
    PROVE  SandboxInv'
<1> USE SandboxAssumption DEF SandboxInv
<1>1. SandboxTypeOK'
  BY DEF SandboxTypeOK, Ending
<1>2. StageOfBox'
  BY DEF StageOfBox, SandboxStage, ToolStage
<1>3. ASSUME NEW c \in Container PROVE Excused(c)'
  <2>1. Over(c) => Excused(c)'
    BY ExcusedIsSafe, ExcusedStays
  <2>2. <<"crash", c>> \in faults' => Excused(c)'
    BY DEF Excused, Hit
  <2> QED
    BY <2>1, <2>2 DEF Over
<1>4. (NoProgramOutlivesItsCall /\ ContainersAreRemoved)'
  BY <1>3 DEF NoProgramOutlivesItsCall, ContainersAreRemoved, Excused
<1> QED
  BY <1>1, <1>2, <1>4

----------------------------------------------------------------------------
(* The calls *)

\* How a step of a call in progress looks to execute_step: the call ends as the
\* contract allows, or it goes on.
Last == {{}} \cup { {m} : m \in Promise!Mishap }
Ends ==
    \E v \in {"ok", "toolerror", "transient"}, last \in Last :
        Done(v, last) /\ Promise!Contract(call, v, met \cup last)
Moves ==
    /\ UNCHANGED <<backend, box, mine, ending, faults, call, verdict, met, library>>
    /\ at \in ToolStage \ {"idle"} /\ at' \in ToolStage \ {"idle"}
    /\ StageOfCall' /\ SearchOfStage'

LEMMA LastMishap == {} \in Last /\ {"provider"} \in Last /\ {"store"} \in Last
BY DEF Last, Promise!Mishap

LEMMA BlankOrMalformed ==
    ASSUME NEW r \in Request, Refused(r)
    PROVE  r.tool # "synthesis"
BY DEF Refused, Misnamed

\* What the contract says of each tool.
LEMMA Contracts ==
    ASSUME NEW r \in Request
    PROVE  /\ Refused(r) => Promise!Contract(r,
                 IF Misnamed(r) \/ r.input = "blank" THEN "toolerror" ELSE "transient", {})
           /\ ~Refused(r) /\ r.tool = "web_search" =>
                 /\ Promise!Contract(r, "ok", {})
                 /\ Promise!Contract(r, "toolerror", {"provider"})
           /\ ~Refused(r) /\ r.tool = "retrieval" =>
                 /\ Promise!Contract(r, "transient", {"provider"})
                 /\ Promise!Contract(r, "transient", {"store"})
                 /\ Promise!Contract(r, IF NothingKnown THEN "transient" ELSE "ok", {})
           /\ ~Refused(r) /\ r.tool = "code_exec" =>
                 \A v, m : Promise!Contract(r, v, m) <=> Promise!CodeExec(v, m)
           /\ r.tool = "synthesis" => Promise!Contract(r, "ok", {})
BY ToolsAssumption DEF ToolName, Promise!Contract, Refused, Misnamed

\* A search finds something if there is something.
LEMMA SearchFinds ==
    ASSUME CallInv, Search
    PROVE  pool' = {} <=> NothingKnown
<1> USE ToolsAssumption
<1> DEFINE S == { c \in library : Owner[c] = Workspace }
           n == PoolSize(call.top_k)
<1>1. pool' \in Best(S, n, Vector)
  BY DEF Search, Scope
<1>2. IsFiniteSet(S)
  <2>1. S \in SUBSET Chunk
    BY DEF CallInv, SearchOfStage
  <2> QED
    BY <2>1, FS_Subset
<1>3. n \in Nat /\ n > 0
  <2>1. call.top_k \in Nat
    BY DEF CallInv, StageOfCall, Search
  <2> QED
    BY <2>1 DEF PoolSize, TopK
<1>4. S = {} <=> NothingKnown
  BY DEF NothingKnown
<1> HIDE DEF S, n
<1>5. pool' \in SUBSET S
      /\ Cardinality(pool') = (IF Cardinality(S) < n THEN Cardinality(S) ELSE n)
  BY <1>1 DEF Best, kSubset
<1>6. IsFiniteSet(pool') /\ Cardinality(S) \in Nat
  BY <1>2, <1>5, FS_Subset, FS_CardinalityType
<1>7. Cardinality(pool') = 0 <=> Cardinality(S) = 0
  BY <1>3, <1>5, <1>6
<1> QED
  BY <1>2, <1>4, <1>6, <1>7, FS_EmptySet

LEMMA ToolStepsKeepTheContract ==
    ASSUME CallInv,
           \/ Refuse \/ Tavily \/ DuckDuckGo \/ RateLimited \/ EndCode
           \/ Embed \/ EmbedFails \/ List \/ Make \/ StoreFails \/ Search \/ Rank
           \/ Recall \/ AskModel \/ Summarise
    PROVE  at \in ToolStage \cup {"returned"} /\ call # NoCall /\ (Ends \/ Moves)
<1> USE DEF CallInv
<1>c. at \in (ToolStage \ {"idle"}) \cup {"returned"}
  BY DEF Refuse, Tavily, DuckDuckGo, RateLimited, EndCode, Embed, EmbedFails, List, Make,
         StoreFails, Search, Rank, Recall, AskModel, Summarise, ToolStage
<1>r. call \in Request /\ call # NoCall
  BY <1>c, ToolsAssumption DEF StageOfCall, ToolStage
<1>m. at # "returned" => met = {}
  BY <1>c DEF MetOfStage
<1> DEFINE EndsBy(v, last) == Done(v, last) /\ Promise!Contract(call, v, last)
<1>e. ASSUME NEW v \in {"ok", "toolerror", "transient"}, NEW last \in Last,
             at # "returned", EndsBy(v, last)
      PROVE  Ends
  BY <1>e, <1>m DEF Ends
<1>s. at # "returned" /\ EndsBy("ok", {}) => Ends
  BY <1>e, LastMishap
<1>h. ASSUME UNCHANGED <<sandbox, call, verdict, met, library>>, at # "returned", at # "ranking"
      PROVE  Moves
  BY <1>h, <1>c DEF Moves, sandbox, StageOfCall, SearchOfStage, NothingKnown
<1>a. ASSUME UNCHANGED <<backend, box, mine, ending, faults, call, verdict, met, library>>,
             \/ /\ at = "tavily" /\ at' = "duckduckgo"
             \/ /\ at \in {"embedding", "listing", "making"}
                /\ at' \in {"listing", "making", "searching"}
             \/ /\ at = "recalling" /\ at' = "asking"
      PROVE  Moves
  BY <1>a DEF Moves, StageOfCall, SearchOfStage, ToolStage, SandboxStage
<1>1. CASE Refuse
  <2>1. at = "refusing" /\ Refused(call)
    BY <1>1 DEF Refuse, StageOfCall
  <2> DEFINE v == IF Misnamed(call) \/ call.input = "blank" THEN "toolerror" ELSE "transient"
  <2>2. EndsBy(v, {})
    BY <1>1, <1>r, <2>1, Contracts DEF Refuse, Raise
  <2>3. v \in {"ok", "toolerror", "transient"}
    OBVIOUS
  <2> HIDE DEF v
  <2>4. Ends
    BY <1>e, <2>1, <2>2, <2>3, LastMishap
  <2> QED
    BY <1>c, <1>r, <2>4
<1>2. CASE Tavily \/ DuckDuckGo \/ RateLimited
  <2>1. at \in {"tavily", "duckduckgo"} /\ call.tool = "web_search" /\ ~Refused(call)
    BY <1>2 DEF Tavily, DuckDuckGo, RateLimited, StageOfCall
  <2>2. Succeed({}) => EndsBy("ok", {})
    BY <1>r, <2>1, Contracts DEF Succeed
  <2>3. Raise("toolerror", {"provider"}) => EndsBy("toolerror", {"provider"})
    BY <1>r, <2>1, Contracts DEF Raise
  <2>4. Succeed({}) \/ Raise("toolerror", {"provider"}) => Ends
    BY <1>e, <1>s, <2>1, <2>2, <2>3, LastMishap
  <2>5. CASE Tavily
    BY <1>a, <2>1, <2>4, <2>5, <1>r, <1>c DEF Tavily, Advance, provider
  <2>6. CASE DuckDuckGo
    BY <2>4, <2>6, <1>r, <1>c DEF DuckDuckGo
  <2>7. CASE RateLimited
    BY <1>h, <2>1, <2>4, <2>7, <1>r, <1>c DEF RateLimited
  <2> QED
    BY <1>2, <2>5, <2>6, <2>7
<1>3. CASE EndCode
  <2>1. at = "returned" /\ call.tool = "code_exec" /\ ~Refused(call) /\ ending # "none"
        /\ ending \in Ending
    BY <1>3 DEF EndCode, StageOfCall, SandboxStage, SandboxInv, SandboxTypeOK, StageOfBox
  <2>2. Verdict \in {"ok", "toolerror", "transient"}
    BY <2>1 DEF Verdict, Ending
  <2>3. Promise!CodeExec(Verdict, met)
    BY <2>1 DEF Verdict, Ending, MetOfStage, Promise!CodeExec, Docker
  <2>4. Promise!Contract(call, Verdict, met)
    BY <1>r, <2>1, <2>3, Contracts
  <2>5. Done(Verdict, {})
    BY <1>3 DEF EndCode, Succeed, Raise
  <2>6. met \cup {} = met
    OBVIOUS
  <2>7. Ends
    BY <2>2, <2>4, <2>5, <2>6, LastMishap DEF Ends
  <2> QED
    BY <1>r, <2>1, <2>7
<1>4. CASE Embed \/ List \/ (Make /\ ~collection) \/ Recall
  BY <1>4, <1>a, <1>r, <1>c DEF Embed, List, Make, Recall, Advance, provider
<1>5. CASE EmbedFails \/ StoreFails \/ (Make /\ collection)
  <2>1. /\ at \in {"embedding", "listing", "making", "searching"}
        /\ call.tool = "retrieval" /\ ~Refused(call)
    BY <1>5 DEF EmbedFails, StoreFails, Make, StageOfCall
  <2>2. EndsBy("transient", {"provider"}) \/ EndsBy("transient", {"store"})
    BY <1>5, <1>r, <2>1, Contracts DEF EmbedFails, StoreFails, Make, Raise
  <2>3. Ends
    BY <1>e, <2>1, <2>2, LastMishap
  <2> QED
    BY <1>c, <1>r, <2>3
<1>6. CASE Search
  <2>1. at = "searching" /\ at' = "ranking" /\ call.tool = "retrieval" /\ ~Refused(call)
        /\ UNCHANGED <<backend, box, mine, ending, faults, call, verdict, met, library>>
    BY <1>6 DEF Search, Advance, StageOfCall
  <2>2. SearchOfStage'
    BY <1>6, <2>1, SearchFinds DEF SearchOfStage, NothingKnown
  <2>3. StageOfCall'
    BY <2>1 DEF StageOfCall, SandboxStage
  <2> QED
    BY <1>r, <2>1, <2>2, <2>3 DEF Moves, ToolStage
<1>7. CASE Rank
  <2>1. at = "ranking" /\ call.tool = "retrieval" /\ ~Refused(call)
        /\ (pool = {} <=> NothingKnown)
    BY <1>7 DEF Rank, StageOfCall, SearchOfStage
  <2>2. Done(IF NothingKnown THEN "transient" ELSE "ok", {})
    BY <1>7, <2>1 DEF Rank, Succeed, Raise
  <2>3. Ends
    BY <1>e, <1>r, <2>1, <2>2, Contracts, LastMishap
  <2> QED
    BY <1>c, <1>r, <2>3
<1>8. CASE AskModel \/ Summarise
  <2>1. at = "asking" /\ call.tool = "synthesis" /\ Done("ok", {})
    BY <1>8 DEF AskModel, Summarise, Answered, StageOfCall
  <2> QED
    BY <1>c, <1>r, <1>s, <2>1, Contracts
<1> QED
  BY <1>1, <1>2, <1>3, <1>4, <1>5, <1>6, <1>7, <1>8

LEMMA EndKeepsCallInv ==
    ASSUME CallInv, NEW v, NEW last, Done(v, last), at \in ToolStage \cup {"returned"}
    PROVE  CallInv'
<1>1. /\ UNCHANGED <<backend, box, faults, library>> /\ mine' = NoContainer
      /\ ending' = "none" /\ at' = "idle" /\ call' = NoCall
  BY DEF Done, Advance
<1>2. mine \in Container => Over(mine)
  BY SandboxAssumption DEF CallInv, SandboxInv, StageOfBox, Over
<1>3. SandboxInv'
  BY <1>1, <1>2, ContainersUntouched DEF CallInv, SandboxInv, SandboxTypeOK, ToolStage
<1>4. StageOfCall' /\ MetOfStage' /\ SearchOfStage'
  BY <1>1 DEF CallInv, StageOfCall, MetOfStage, SearchOfStage, SandboxStage
<1> QED
  BY <1>3, <1>4 DEF CallInv

LEMMA MoveKeepsCallInv ==
    ASSUME CallInv, Moves
    PROVE  CallInv'
<1>1. mine = NoContainer /\ ending = "none" /\ met = {}
  BY DEF CallInv, SandboxInv, StageOfBox, MetOfStage, Moves
<1>2. SandboxInv'
  BY <1>1, ContainersUntouched, SandboxAssumption DEF Moves, CallInv, SandboxInv, SandboxTypeOK
<1>3. MetOfStage'
  BY <1>1 DEF Moves, MetOfStage, ToolStage, SandboxStage
<1> QED
  BY <1>2, <1>3 DEF CallInv, Moves

LEMMA BeginKeepsCallInv ==
    ASSUME CallInv, NEW r \in Request, Begin(r)
    PROVE  CallInv'
<1> USE SandboxAssumption, ToolsAssumption
<1>1. at = "idle" /\ mine = NoContainer /\ ending = "none"
  BY DEF Begin, CallInv, SandboxInv, StageOfBox, ToolStage
<1>2. call' = r /\ met' = {} /\ UNCHANGED <<backend, box, ending, faults, library>>
  BY DEF Begin, provider
<1>3. StageOfCall' /\ MetOfStage' /\ SearchOfStage'
  <2>1. StageOfCall'
    BY <1>2 DEF ToolName, Begin, StageOfCall, Refused, Misnamed, Advance, SandboxStage
  <2>2. at' \in {"refusing", "tavily", "duckduckgo", "connecting", "embedding", "recalling"}
    BY DEF Begin, Advance
  <2> QED
    BY <1>1, <1>2, <2>1, <2>2 DEF CallInv, MetOfStage, SearchOfStage, SandboxStage
<1>4. CASE ~Refused(r) /\ r.tool = "code_exec"
  <2>1. Fresh # {} /\ mine' = CHOOSE c \in Fresh : TRUE
    BY <1>4 DEF Begin
  <2>2. mine' \in Fresh
    BY <2>1
  <2>3. at' = "connecting"
    BY <1>4 DEF Begin, Advance
  <2>4. mine' \in Container /\ box[mine'] = "none"
    BY <2>2 DEF Fresh
  <2>5. SandboxTypeOK' /\ StageOfBox'
    BY <1>2, <2>3, <2>4
    DEF CallInv, SandboxInv, SandboxTypeOK, StageOfBox, SandboxStage, ToolStage
  <2>6. \A c \in Container : Over(c) /\ Excused(c)
    BY <1>1, ExcusedIsSafe DEF CallInv, SandboxInv, Over
  <2>7. (NoProgramOutlivesItsCall /\ ContainersAreRemoved)'
    BY <1>2, <2>6 DEF NoProgramOutlivesItsCall, ContainersAreRemoved, Excused, Hit
  <2> QED
    BY <1>3, <2>3, <2>5, <2>7 DEF CallInv, SandboxInv, SandboxStage
<1>5. CASE ~(~Refused(r) /\ r.tool = "code_exec")
  <2>1. mine' = NoContainer
    BY <1>1, <1>5 DEF Begin
  <2>2. at' \in ToolStage
    BY <1>5 DEF Begin, Advance, ToolStage
  <2>3. SandboxInv'
    BY <1>1, <1>2, <2>1, <2>2, ContainersUntouched DEF CallInv, SandboxInv, SandboxTypeOK
  <2> QED
    BY <1>3, <2>3 DEF CallInv
<1> QED
  BY <1>4, <1>5

LEMMA CrashKeepsCallInv ==
    ASSUME CallInv, Crash
    PROVE  CallInv' /\ Promise!Leave
<1>1. Fails("crash") /\ SandboxTypeOK
  BY DEF Crash, CallInv, SandboxInv
<1>2. UNCHANGED <<backend, box, verdict, met, library>> /\ mine' = NoContainer
      /\ ending' = "none" /\ at' = "idle" /\ call' = NoCall
  BY DEF Crash, Advance
<1>3. SandboxInv'
  BY <1>1, <1>2, FaultIsRemembered, ContainersUntouched DEF CallInv, SandboxInv, ToolStage, Fault
<1>4. StageOfCall' /\ MetOfStage' /\ SearchOfStage'
  BY <1>2 DEF CallInv, StageOfCall, MetOfStage, SearchOfStage, SandboxStage
<1>5. call # NoCall
  BY DEF Crash, CallInv, StageOfCall
<1> QED
  BY <1>2, <1>3, <1>4, <1>5 DEF CallInv, Promise!Leave, NothingKnown

\* A fault is what has gone wrong in its step, and so is the time limit.
LEMMA FaultIsMet ==
    ASSUME NEW kind, Fails(kind), SandboxMeets
    PROVE  met' = met \cup {kind}
<1>1. faults' \ faults = {<<kind, mine>>}
  BY DEF Fails
<1>2. { f[1] : f \in {<<kind, mine>>} } = {kind}
  OBVIOUS
<1>3. ~TimeOut
  BY <1>1 DEF TimeOut
<1> QED
  BY <1>1, <1>2, <1>3 DEF SandboxMeets

LEMMA TimeOutIsMet ==
    ASSUME UNCHANGED faults, SandboxMeets
    PROVE  met' = IF TimeOut THEN met \cup {"timeout"} ELSE met
BY DEF SandboxMeets

LEMMA SandboxKeepsMet ==
    ASSUME CallInv, SandboxStep \/ SandboxFault, SandboxMeets
    PROVE  /\ MetOfStage'
           /\ \E mishap \in Promise!Mishap : met' \in {met, met \cup {mishap}}
<1> USE DEF CallInv, MetOfStage, Advance, Return, SandboxStage, ToolStage, Promise!Mishap
<1>s. at \in SandboxStage /\ UNCHANGED backend
  BY DEF SandboxStep, SandboxFault, Connect, Create, Start, Wait, TimeOut, Kill, ReadLogs,
         Remove, ConnectFails, LaunchFails, WaitFails, KillFails, LogsFail, RemoveFails
<1>d. at \in {"reading", "removing"} => Docker /\ ending # "none"
  BY DEF SandboxInv, StageOfBox
<1>1. CASE Connect \/ Create \/ Start \/ ReadLogs \/ Remove
  <2>1. ~TimeOut /\ UNCHANGED <<faults, ending>>
    BY <1>1 DEF Connect, Create, Start, ReadLogs, Remove, TimeOut
  <2>2. met' = met
    BY <2>1, TimeOutIsMet
  <2> QED
    BY <1>1, <1>s, <1>d, <2>1, <2>2 DEF Connect, Create, Start, ReadLogs, Remove, Docker
<1>2. CASE Wait
  <2>1. ~TimeOut /\ UNCHANGED faults
    BY <1>2 DEF Wait, TimeOut
  <2>2. met' = met /\ met = {}
    BY <1>2, <2>1, TimeOutIsMet DEF Wait
  <2>3. backend \in {"docker", "subprocess"}
    BY SandboxAssumption DEF SandboxInv, SandboxTypeOK
  <2> QED
    BY <1>2, <1>s, <2>2, <2>3 DEF Wait, Docker
<1>3. CASE TimeOut
  <2>1. met' = met \cup {"timeout"} /\ met = {}
    BY <1>3, TimeOutIsMet DEF TimeOut
  <2> QED
    BY <1>3, <1>s, <2>1 DEF TimeOut, Docker
<1>4. CASE Kill
  <2>1. ~TimeOut /\ UNCHANGED faults /\ Docker
    BY <1>4 DEF Kill, TimeOut, SandboxInv, StageOfBox
  <2>2. met' = met /\ met # {} /\ met \subseteq {"timeout", "wait"}
    BY <1>4, <2>1, TimeOutIsMet DEF Kill
  <2> QED
    BY <1>4, <1>s, <2>1, <2>2 DEF Kill, Docker
<1>5. CASE ConnectFails
  <2>1. met' = met \cup {"connect"}
    BY <1>5, FaultIsMet DEF ConnectFails
  <2> QED
    BY <1>5, <1>s, <2>1 DEF ConnectFails
<1>6. CASE LaunchFails
  <2>1. met' = met \cup {"launch"} /\ met = {}
    BY <1>6, FaultIsMet DEF LaunchFails, DaemonFails
  <2>2. at' = "returned" /\ (ending' = "unexpected" \/ (Docker /\ ending' = "sandboxerror"))
    BY <1>6 DEF LaunchFails, DaemonFails
  <2> QED
    BY <1>s, <2>1, <2>2 DEF Docker
<1>7. CASE WaitFails
  <2>1. met' = met \cup {"wait"} /\ met = {}
    BY <1>7, FaultIsMet DEF WaitFails
  <2> QED
    BY <1>7, <1>s, <2>1 DEF WaitFails, Docker
<1>8. CASE KillFails \/ LogsFail
  <2>1. PICK kind \in {"kill", "logs"} : met' = met \cup {kind}
    BY <1>8, FaultIsMet DEF KillFails, LogsFail, DaemonFails
  <2>2. at' = "removing" /\ ending' \in {"unexpected", "sandboxerror"} /\ Docker
    BY <1>8, <1>d DEF KillFails, LogsFail, DaemonFails, SandboxInv, StageOfBox
  <2>3. "connect" \notin met
    BY <1>8, <1>d DEF KillFails, LogsFail, SandboxInv, SandboxTypeOK, Ending, StageOfBox
  <2> QED
    BY <1>s, <2>1, <2>2, <2>3 DEF Docker
<1>9. CASE RemoveFails
  <2>1. met' = met \cup {"remove"}
    BY <1>9, FaultIsMet DEF RemoveFails
  <2>2. at = "removing" /\ at' = "returned" /\ UNCHANGED ending
    BY <1>9 DEF RemoveFails
  <2> QED
    BY <1>s, <1>d, <2>1, <2>2 DEF Docker
<1> QED
  BY <1>1, <1>2, <1>3, <1>4, <1>5, <1>6, <1>7, <1>8, <1>9 DEF SandboxStep, SandboxFault

\* A step of the sandbox, within a call of code_exec.
LEMMA SandboxKeepsCallInv ==
    ASSUME CallInv, Outside,
           \/ (SandboxStep \/ SandboxFault) /\ SandboxMeets
           \/ Program /\ UNCHANGED met
    PROVE  /\ CallInv'
           /\ \/ UNCHANGED Promise!callVars
              \/ \E mishap \in Promise!Mishap : Promise!Meet(mishap)
<1>1. SandboxInv'
  <2>1. CASE Program
    BY <2>1, ProgramsExitSafely DEF CallInv, Program
  <2>2. CASE SandboxStep \/ SandboxFault
    BY <2>2, SandboxKeepsItsStages DEF CallInv
  <2> QED
    BY <2>1, <2>2
<1>2. (at \in SandboxStage /\ at' \in SandboxStage) \/ (Program /\ UNCHANGED <<at, ending>>)
  BY DEF SandboxStep, SandboxFault, Program, Connect, Create, Start, Wait, TimeOut, Kill,
         ReadLogs, Remove, ConnectFails, LaunchFails, WaitFails, KillFails, LogsFail,
         RemoveFails, ProgramExits, DaemonFails, Return, Advance, SandboxStage
<1>3. UNCHANGED <<call, verdict, library, pool, backend>>
  BY DEF Outside, provider, SandboxStep, SandboxFault, Program, Connect, Create, Start, Wait,
         TimeOut, Kill, ReadLogs, Remove, ConnectFails, LaunchFails, WaitFails, KillFails,
         LogsFail, RemoveFails, ProgramExits
<1>4. StageOfCall' /\ SearchOfStage'
  BY <1>2, <1>3 DEF CallInv, StageOfCall, SearchOfStage, NothingKnown, SandboxStage
<1>5. CASE Program /\ UNCHANGED met
  <2>1. MetOfStage'
    BY <1>3, <1>5 DEF CallInv, MetOfStage, Program, ProgramExits, Docker
  <2> QED
    BY <1>1, <1>3, <1>4, <1>5, <2>1 DEF CallInv, Promise!callVars, NothingKnown
<1>6. CASE (SandboxStep \/ SandboxFault) /\ SandboxMeets
  <2>1. MetOfStage' /\ \E mishap \in Promise!Mishap : met' \in {met, met \cup {mishap}}
    BY <1>6, SandboxKeepsMet
  <2>2. call # NoCall
    <3>1. at # "idle"
      BY <1>6 DEF SandboxStep, SandboxFault, Connect, Create, Start, Wait, TimeOut, Kill,
           ReadLogs, Remove, ConnectFails, LaunchFails, WaitFails, KillFails, LogsFail,
           RemoveFails
    <3> QED
      BY <3>1 DEF CallInv, StageOfCall
  <2>3. NothingKnown' = NothingKnown
    BY <1>3 DEF NothingKnown
  <2>4. \/ UNCHANGED Promise!callVars
        \/ \E mishap \in Promise!Mishap : Promise!Meet(mishap)
    BY <1>3, <2>1, <2>2, <2>3 DEF Promise!callVars, Promise!Meet
  <2> QED
    BY <1>1, <1>4, <2>1, <2>4 DEF CallInv
<1> QED
  BY <1>5, <1>6

\* Every step keeps the invariant and is one of the contract, or none.
LEMMA CallInvKept ==
    ASSUME CallInv, [ToolsNext]_toolVars
    PROVE  CallInv' /\ [Promise!CallNext]_(Promise!callVars)
<1> USE DEF Promise!CallNext, Promise!callVars
<1>1. CASE \E r \in Request : Begin(r)
  <2>1. PICK r \in Request : Begin(r)
    BY <1>1
  <2>2. Promise!Begin(r)
    BY <2>1 DEF Begin, CallInv, StageOfCall, Promise!Begin, provider, NothingKnown
  <2> QED
    BY <2>1, <2>2, BeginKeepsCallInv
<1>2. CASE /\ Outside
           /\ \/ (SandboxStep \/ SandboxFault) /\ SandboxMeets
              \/ Program /\ UNCHANGED met
  BY <1>2, SandboxKeepsCallInv
<1>3. CASE \/ Refuse \/ Tavily \/ DuckDuckGo \/ RateLimited \/ EndCode
           \/ Embed \/ EmbedFails \/ List \/ Make \/ StoreFails \/ Search \/ Rank
           \/ Recall \/ AskModel \/ Summarise
  <2>1. at \in ToolStage \cup {"returned"} /\ call # NoCall /\ (Ends \/ Moves)
    BY <1>3, ToolStepsKeepTheContract
  <2>2. CASE Ends
    <3>1. PICK v \in {"ok", "toolerror", "transient"}, last \in Last :
              Done(v, last) /\ Promise!Contract(call, v, met \cup last)
      BY <2>2 DEF Ends
    <3>2. Promise!End(v, last)
      BY <2>1, <3>1 DEF Promise!End, Done, NothingKnown
    <3> QED
      BY <2>1, <3>1, <3>2, EndKeepsCallInv DEF Last
  <2>3. CASE Moves
    BY <2>3, MoveKeepsCallInv DEF Moves, NothingKnown
  <2> QED
    BY <2>1, <2>2, <2>3
<1>4. CASE OtherProcessMakes \/ UNCHANGED toolVars
  <2>1. UNCHANGED <<backend, at, box, mine, ending, faults, call, verdict, met, library, pool>>
    BY <1>4 DEF OtherProcessMakes, toolVars, sandbox, provider
  <2>2. SandboxInv'
    BY <2>1 DEF CallInv, SandboxInv, SandboxTypeOK, StageOfBox, Docker, Hit, Over,
                NoProgramOutlivesItsCall, ContainersAreRemoved
  <2>3. StageOfCall' /\ MetOfStage' /\ SearchOfStage'
    BY <2>1 DEF CallInv, StageOfCall, MetOfStage, SearchOfStage, NothingKnown, Docker
  <2> QED
    BY <2>1, <2>2, <2>3 DEF CallInv, NothingKnown
<1>5. CASE Crash
  BY <1>5, CrashKeepsCallInv
<1> QED
  BY <1>1, <1>2, <1>3, <1>4, <1>5 DEF ToolsNext, CallStep

LEMMA CallInvInitially == ToolsInit => CallInv /\ Promise!CallInit
BY SandboxInitially, ToolsAssumption
DEF ToolsInit, SandboxInit, CallInv, StageOfCall, MetOfStage, SearchOfStage, SandboxStage,
    Promise!CallInit

----------------------------------------------------------------------------

\* No program is left running by code_exec unless the daemon failed twice, or
\* failed to hand its container over, or the process died, for any number of
\* calls, containers and failures (docker_sandbox.py:96-136).
THEOREM ProgramsEndWithTheirCalls == ToolsSpec => []NoProgramOutlivesItsCall
<1>1. ToolsInit => CallInv
  BY CallInvInitially
<1>2. CallInv /\ [ToolsNext]_toolVars => CallInv'
  BY CallInvKept
<1>3. CallInv => NoProgramOutlivesItsCall
  BY DEF CallInv, SandboxInv
<1> QED
  BY <1>1, <1>2, <1>3, PTL DEF ToolsSpec

\* A container is removed, however its run ends, unless it was not handed over,
\* the removal fails or the process dies (docker_sandbox.py:131-136).
THEOREM ContainersGo == ToolsSpec => []ContainersAreRemoved
<1>1. ToolsInit => CallInv
  BY CallInvInitially
<1>2. CallInv /\ [ToolsNext]_toolVars => CallInv'
  BY CallInvKept
<1>3. CallInv => ContainersAreRemoved
  BY DEF CallInv, SandboxInv
<1> QED
  BY <1>1, <1>2, <1>3, PTL DEF ToolsSpec

\* For any requests, configurations, knowledge base and faults, the way a call
\* ends is settled by the request and by what went wrong during that call: no
\* failure of the sandbox or of the store passes for a result, a timeout is a
\* ToolError whatever the container does meanwhile, an empty knowledge base is an
\* error, and synthesis does not fail (executor.py:187-213, code_exec.py:52-64,
\* retrieval.py:105-106).
THEOREM ToolsKeepTheirContract == ToolsSpec => ImplementsToolCall
<1>1. ToolsInit => CallInv /\ Promise!CallInit
  BY CallInvInitially
<1>2. CallInv /\ [ToolsNext]_toolVars => CallInv' /\ [Promise!CallNext]_(Promise!callVars)
  BY CallInvKept
<1> QED
  BY <1>1, <1>2, PTL DEF ToolsSpec, ImplementsToolCall, Promise!CallSpec

----------------------------------------------------------------------------
(* What a synthesis is written from *)

LEMMA LeastIsAMember ==
    ASSUME NEW S, S \subseteq Nat, S # {}
    PROVE  Min(S) \in S
<1> DEFINE R == { xy \in Nat \X Nat : xy[1] < xy[2] }
<1>1. IsWellFoundedOn(R, Nat)
  <2>1. R = OpToRel(<, Nat)
    BY DEF OpToRel
  <2> QED
    BY <2>1, NatLessThanWellFounded
<1>2. \E x \in S : \A y \in S : <<y, x>> \notin R
  <2> HIDE DEF R
  <2> QED
    BY <1>1, WFMin
<1>3. \E x \in S : \A y \in S : x <= y
  <2>1. PICK x \in S : \A y \in S : <<y, x>> \notin R
    BY <1>2
  <2>2. ASSUME NEW y \in S PROVE x <= y
    <3>1. x \in Nat /\ y \in Nat /\ ~(y < x)
      BY <2>1
    <3> QED
      BY <3>1
  <2> QED
    BY <2>2
<1> QED
  BY <1>3 DEF Min

LEMMA BestIsASubset ==
    ASSUME NEW S, NEW n, NEW Score, NEW T \in Best(S, n, Score)
    PROVE  T \subseteq S
BY DEF Best, kSubset

\* The candidates are chunks of the workspace of the job, which is not up to
\* the plan.
LEMMA SearchStaysHome ==
    ASSUME GroundInv, Search
    PROVE  pool' \subseteq Own
BY BestIsASubset DEF Search, Scope, Own, GroundInv

\* What the second ranking drops from the pool scores no more than what it
\* keeps.
LEMMA RankKeepsTheBest ==
    ASSUME GroundInv, Rank
    PROVE  \/ Raise("transient", {})
           \/ \E chunks \in SUBSET Own :
                 /\ Succeed(chunks)
                 /\ \A c \in pool \ chunks, d \in chunks : ~(Combined[d] < Combined[c])
<1> USE ToolsAssumption
<1>1. CASE pool = {}
  BY <1>1 DEF Rank
<1>2. CASE pool # {}
  <2>1. PICK candidates \in Best(pool, TopK(call.top_k), Combined) :
            LET relevant == { c \in candidates : Combined[c] >= 10 } IN
            IF relevant # {} THEN Succeed(relevant)
            ELSE \E first \in Best(candidates, 1, Combined) : Succeed(first)
    BY <1>2 DEF Rank
  <2>2. pool \subseteq Own /\ candidates \subseteq pool
    BY BestIsASubset DEF GroundInv
  <2>3. \A c \in Own : Combined[c] \in Int
    BY DEF Combined, Own
  <2>4. \A c \in pool \ candidates, d \in candidates : ~(Combined[d] < Combined[c])
    BY <2>2, <2>3 DEF Best
  <2>5. CASE { c \in candidates : Combined[c] >= 10 } # {}
    <3> DEFINE relevant == { c \in candidates : Combined[c] >= 10 }
    <3>1. Succeed(relevant) /\ relevant \in SUBSET Own
      BY <2>1, <2>2, <2>5
    <3>2. \A c \in pool \ relevant, d \in relevant : ~(Combined[d] < Combined[c])
      BY <2>2, <2>3, <2>4
    <3> QED
      BY <3>1, <3>2
  <2>6. CASE { c \in candidates : Combined[c] >= 10 } = {}
    <3>1. PICK first \in Best(candidates, 1, Combined) : Succeed(first)
      BY <2>1, <2>6
    <3>2. first \subseteq candidates
      BY BestIsASubset
    <3>3. \A c \in candidates \ first, d \in first : ~(Combined[d] < Combined[c])
      BY <2>2, <2>3, <3>2 DEF Best
    <3>4. \A c \in pool \ first, d \in first : ~(Combined[d] < Combined[c])
      BY <2>4, <3>2, <3>3
    <3>5. first \in SUBSET Own
      BY <2>2, <3>2
    <3> QED
      BY <3>1, <3>4, <3>5
  <2> QED
    BY <2>5, <2>6
<1> QED
  BY <1>1, <1>2

\* An output more, from a call that leaves no answer.
LEMMA SuccessIsGrounded ==
    ASSUME GroundInv, call # NoCall, NEW chunks \in SUBSET Own, Succeed(chunks)
    PROVE  GroundInv'
<1> USE ToolsAssumption
<1>1. [tool |-> call.tool, top_k |-> call.top_k, chunks |-> chunks]
          \in [tool : ToolName, top_k : Nat, chunks : SUBSET Own]
  <2>1. call \in Request
    BY DEF GroundInv
  <2>2. call.tool \in ToolName /\ call.top_k \in Nat
    BY <2>1
  <2> QED
    BY <2>2
<1>2. outputs' \in Seq([tool : ToolName, top_k : Nat, chunks : SUBSET Own])
  BY <1>1 DEF GroundInv, Succeed
<1>3. UNCHANGED <<library, answer, prompt>> /\ pool' = {} /\ call' = NoCall /\ at' = "idle"
  BY DEF Succeed, Done, Advance
<1>4. answer = "none"
  BY DEF GroundInv
<1> QED
  BY <1>2, <1>3, <1>4 DEF GroundInv, AnswersAreGrounded, Own

\* A step that leaves the outputs and the answer alone.
LEMMA QuietStepIsGrounded ==
    ASSUME GroundInv, UNCHANGED <<library, outputs, answer, prompt>>,
           pool' \subseteq Own,
           call' \in {call, NoCall},
           at' # "idle" => call' # NoCall
    PROVE  GroundInv'
<1>1. Own' = Own /\ Retrievals' = Retrievals
  BY DEF Own, Retrievals
<1> QED
  BY <1>1 DEF GroundInv, AnswersAreGrounded

LEMMA AnswerIsGrounded ==
    ASSUME GroundInv, AskModel \/ Summarise
    PROVE  GroundInv'
<1>1. UNCHANGED <<library, outputs>> /\ pool' = {} /\ call' = NoCall /\ at' = "idle"
  BY DEF AskModel, Summarise, Answered, Done, Advance
<1>2. Own' = Own /\ Retrievals' = Retrievals
  BY <1>1 DEF Own, Retrievals
<1>3. AnswersAreGrounded'
  <2>1. CASE Summarise
    BY <2>1 DEF Summarise, Answered, AnswersAreGrounded
  <2>2. CASE AskModel
    <3>1. SUFFICES ASSUME Retrievals # {}
                   PROVE  \A x \in prompt' : x \in Own
      BY <1>2 DEF AnswersAreGrounded, Own
    <3>2. prompt' = outputs[Min(Retrievals)].chunks
      BY <2>2, <3>1 DEF AskModel, Answered, Prompt
    <3>3. Retrievals \subseteq Nat /\ Retrievals \subseteq DOMAIN outputs
      BY DEF Retrievals, GroundInv
    <3>4. Min(Retrievals) \in DOMAIN outputs
      BY <3>1, <3>3, LeastIsAMember
    <3>5. outputs[Min(Retrievals)] \in [tool : ToolName, top_k : Nat, chunks : SUBSET Own]
      <4> DEFINE Output == [tool : ToolName, top_k : Nat, chunks : SUBSET Own]
      <4>1. outputs \in Seq(Output)
        BY DEF GroundInv
      <4> HIDE DEF Output
      <4>2. outputs[Min(Retrievals)] \in Output
        BY <3>4, <4>1
      <4> QED
        BY <4>2 DEF Output
    <3> QED
      BY <3>2, <3>5
  <2> QED
    BY <2>1, <2>2
<1> QED
  BY <1>1, <1>2, <1>3 DEF GroundInv

LEMMA GroundInvKept ==
    ASSUME GroundInv, [ToolsNext]_toolVars
    PROVE  GroundInv'
<1> USE ToolsAssumption
<1>1. CASE \E r \in Request : Begin(r)
  <2>1. PICK r \in Request : Begin(r)
    BY <1>1
  <2>2. call' = r /\ answer' = "none" /\ UNCHANGED <<library, pool, outputs>>
    BY <2>1 DEF Begin, provider
  <2>3. Own' = Own
    BY DEF Own
  <2> QED
    BY <2>2, <2>3 DEF GroundInv, AnswersAreGrounded
<1>2. CASE Refuse \/ EmbedFails \/ StoreFails
  <2>1. \E v, last : Raise(v, last)
    BY <1>2 DEF Refuse, EmbedFails, StoreFails
  <2> QED
    BY <2>1, QuietStepIsGrounded DEF Raise, Done, Advance, GroundInv
<1>3. CASE Tavily \/ DuckDuckGo \/ RateLimited \/ EndCode \/ Make \/ Rank
  <2>1. call # NoCall
    BY <1>3 DEF GroundInv, Tavily, DuckDuckGo, RateLimited, EndCode, Make, Rank
  <2>2. CASE \E chunks \in SUBSET Own : Succeed(chunks)
    BY <2>1, <2>2, SuccessIsGrounded
  <2>3. CASE \E v, last : Raise(v, last)
    BY <2>3, QuietStepIsGrounded DEF Raise, Done, Advance, GroundInv
  <2>4. CASE UNCHANGED <<library, outputs, answer, prompt, pool, call>>
    BY <2>1, <2>4, QuietStepIsGrounded DEF GroundInv
  <2>5. Succeed({}) => \E chunks \in SUBSET Own : Succeed(chunks)
    OBVIOUS
  <2>6. CASE Rank
    BY <2>2, <2>3, <2>6, RankKeepsTheBest
  <2>7. CASE Tavily \/ DuckDuckGo \/ RateLimited \/ EndCode \/ Make
    BY <2>2, <2>3, <2>4, <2>5, <2>7
    DEF Tavily, DuckDuckGo, RateLimited, EndCode, Make, provider, synthesis
  <2> QED
    BY <1>3, <2>6, <2>7
<1>4. CASE Embed \/ List \/ Recall \/ ((SandboxStep \/ SandboxFault \/ Program) /\ Outside)
  <2>1. UNCHANGED <<library, outputs, answer, prompt, pool, call>>
    BY <1>4 DEF Embed, List, Recall, Outside, provider, synthesis
  <2>2. at = "idle" => at' = "idle"
    BY <1>4 DEF Embed, List, Recall, SandboxStep, SandboxFault, Program, Connect, Create,
         Start, Wait, TimeOut, Kill, ReadLogs, Remove, ConnectFails, LaunchFails, WaitFails,
         KillFails, LogsFail, RemoveFails, ProgramExits, DaemonFails, Return, Advance
  <2> QED
    BY <2>1, <2>2, QuietStepIsGrounded DEF GroundInv
<1>5. CASE Search
  <2>1. UNCHANGED <<library, outputs, answer, prompt, call>> /\ at # "idle"
    BY <1>5 DEF Search, synthesis
  <2> QED
    BY <1>5, <2>1, SearchStaysHome, QuietStepIsGrounded DEF GroundInv
<1>6. CASE AskModel \/ Summarise
  BY <1>6, AnswerIsGrounded
<1>7. CASE OtherProcessMakes \/ Crash \/ UNCHANGED toolVars
  <2>1. /\ UNCHANGED <<library, outputs, answer, prompt>> /\ pool' \in {pool, {}}
        /\ call' \in {call, NoCall} /\ (at' # "idle" => call' = call /\ at' = at)
    BY <1>7 DEF OtherProcessMakes, Crash, Advance, toolVars, sandbox, provider, synthesis
  <2> QED
    BY <2>1, QuietStepIsGrounded DEF GroundInv
<1> QED
  BY <1>1, <1>2, <1>3, <1>4, <1>5, <1>6, <1>7 DEF ToolsNext, CallStep

\* A job that has searched the knowledge base is answered from its own
\* documents, whatever the plan claims, other tenants have stored, or the web
\* and the memory returned (executor.py:387, 677-751).
THEOREM AnswersStayGrounded == ToolsSpec => []AnswersAreGrounded
<1>1. ToolsInit => GroundInv
  BY ToolsAssumption DEF ToolsInit, GroundInv, AnswersAreGrounded, Own
<1>2. GroundInv /\ [ToolsNext]_toolVars => GroundInv'
  BY GroundInvKept
<1>3. GroundInv => AnswersAreGrounded
  BY DEF GroundInv
<1> QED
  BY <1>1, <1>2, <1>3, PTL DEF ToolsSpec

----------------------------------------------------------------------------
(* What a retrieval leaves out *)

\* When the candidates are ranked, each chunk that is not among them is out of
\* reach.
PoolReaches ==
    at = "ranking" =>
        \A c \in library \ pool : Owner[c] = Workspace => OutOfReach(c, call.top_k)

ReachInv == PoolReaches /\ BetterChunksWereOutOfReach

LEMMA WhatBestLeavesOut ==
    ASSUME NEW S, IsFiniteSet(S), NEW n \in Nat, NEW Score, NEW T \in Best(S, n, Score),
           NEW c \in S \ T
    PROVE  Cardinality(T) = n /\ \A x \in T : Score[x] >= Score[c]
<1>1. T \in SUBSET S
      /\ Cardinality(T) = (IF Cardinality(S) < n THEN Cardinality(S) ELSE n)
      /\ \A x \in T : Score[x] >= Score[c]
  BY DEF Best, kSubset
<1>2. Cardinality(T) # Cardinality(S)
  BY <1>1, FS_Subset
<1> QED
  BY <1>1, <1>2

LEMMA SearchReaches ==
    ASSUME GroundInv, CallInv, Search
    PROVE  PoolReaches'
<1> USE ToolsAssumption
<1> DEFINE S == { c \in library : Owner[c] = Workspace }
           n == PoolSize(call.top_k)
<1>1. pool' \in Best(S, n, Vector) /\ UNCHANGED <<library, call>>
  BY DEF Search, Scope
<1>2. IsFiniteSet(library) /\ IsFiniteSet(S)
  <2>1. library \in SUBSET Chunk /\ S \in SUBSET Chunk
    BY DEF GroundInv
  <2> QED
    BY <2>1, FS_Subset
<1>3. call.top_k \in Nat
  BY DEF CallInv, StageOfCall, Search
<1>4. n \in Nat /\ n = Reach(call.top_k)
  BY <1>3 DEF PoolSize, Reach, TopK
<1>5. ASSUME NEW c \in library \ pool', Owner[c] = Workspace
      PROVE  Cardinality({ d \in library \ {c} :
                 Owner[d] = Workspace /\ Vector[d] >= Vector[c] }) >= n
  <2> DEFINE D == { d \in library \ {c} : Owner[d] = Workspace /\ Vector[d] >= Vector[c] }
  <2>1. c \in S \ pool'
    BY <1>5
  <2> HIDE DEF n
  <2>2. pool' \subseteq S /\ Cardinality(pool') = n /\ \A x \in pool' : Vector[x] >= Vector[c]
    <3> HIDE DEF S
    <3> QED
      BY <1>1, <1>2, <1>4, <2>1, WhatBestLeavesOut, BestIsASubset
  <2>3. pool' \in SUBSET D
    BY <1>5, <2>2
  <2>4. D \in SUBSET library
    OBVIOUS
  <2>5. IsFiniteSet(D)
    BY <1>2, <2>4, FS_Subset
  <2> HIDE DEF D
  <2>6. Cardinality(pool') <= Cardinality(D)
    BY <2>3, <2>5, FS_Subset
  <2>7. Cardinality(D) \in Nat
    BY <2>5, FS_CardinalityType
  <2> QED
    BY <1>4, <2>2, <2>6, <2>7 DEF D
<1> HIDE DEF n
<1> QED
  BY <1>1, <1>4, <1>5 DEF PoolReaches, OutOfReach

\* The outputs so far stay as they are, and one more leaves out only what
\* scores no more or is out of reach.
LEMMA SuccessReaches ==
    ASSUME GroundInv, ReachInv, NEW chunks \in SUBSET Own, Succeed(chunks),
           call.tool = "retrieval" =>
               \A c \in library \ chunks : Owner[c] = Workspace =>
                   \/ OutOfReach(c, call.top_k)
                   \/ \A d \in chunks : ~(Combined[d] < Combined[c])
    PROVE  ReachInv'
<1> DEFINE new == [tool |-> call.tool, top_k |-> call.top_k, chunks |-> chunks]
<1>1. outputs' = Append(outputs, new) /\ library' = library /\ at' = "idle"
  BY DEF Succeed, Done, Advance
<1>2. \E T : outputs \in Seq(T)
  BY DEF GroundInv
<1>3. ASSUME NEW i \in Retrievals', NEW c \in library \ outputs'[i].chunks,
             Owner[c] = Workspace,
             \E d \in outputs'[i].chunks : Combined[d] < Combined[c]
      PROVE  OutOfReach(c, outputs'[i].top_k)
  <2>1. i \in DOMAIN outputs' /\ outputs'[i].tool = "retrieval"
    BY DEF Retrievals
  <2>2. CASE i \in DOMAIN outputs
    <3>1. outputs'[i] = outputs[i]
      BY <1>1, <1>2, <2>2
    <3>2. i \in Retrievals
      BY <2>1, <2>2, <3>1 DEF Retrievals
    <3> QED
      BY <1>3, <3>1, <3>2 DEF ReachInv, BetterChunksWereOutOfReach
  <2>3. CASE i \notin DOMAIN outputs
    <3>1. outputs'[i] = new
      BY <1>1, <1>2, <2>1, <2>3
    <3>2. call.tool = "retrieval" /\ outputs'[i].chunks = chunks
          /\ outputs'[i].top_k = call.top_k
      BY <2>1, <3>1
    <3> QED
      BY <1>3, <3>2
  <2> QED
    BY <2>2, <2>3
<1> QED
  BY <1>1, <1>3 DEF ReachInv, PoolReaches, BetterChunksWereOutOfReach, OutOfReach

\* A step that neither returns chunks nor completes a search.
LEMMA QuietStepReaches ==
    ASSUME ReachInv, UNCHANGED <<library, outputs>>,
           at' = "ranking" => UNCHANGED <<at, pool, call>>
    PROVE  ReachInv'
BY DEF ReachInv, PoolReaches, BetterChunksWereOutOfReach, OutOfReach, Retrievals

LEMMA ReachInvKept ==
    ASSUME GroundInv, CallInv, ReachInv, [ToolsNext]_toolVars
    PROVE  ReachInv'
<1> USE ToolsAssumption
<1>1. CASE Search
  BY <1>1, SearchReaches DEF Search, ReachInv, BetterChunksWereOutOfReach, OutOfReach,
       Retrievals
<1>2. CASE Rank
  <2>1. at = "ranking" /\ library \subseteq Chunk
    BY <1>2 DEF Rank, GroundInv
  <2>2. CASE Raise("transient", {})
    BY <2>2, QuietStepReaches DEF Raise, Done, Advance
  <2>3. ASSUME NEW chunks \in SUBSET Own, Succeed(chunks),
               \A c \in pool \ chunks, d \in chunks : ~(Combined[d] < Combined[c])
        PROVE  ReachInv'
    <3>1. \A c \in library \ chunks : Owner[c] = Workspace =>
              OutOfReach(c, call.top_k) \/ \A d \in chunks : ~(Combined[d] < Combined[c])
      BY <2>1, <2>3 DEF ReachInv, PoolReaches
    <3> QED
      BY <2>3, <3>1, SuccessReaches
  <2> QED
    BY <1>2, <2>2, <2>3, RankKeepsTheBest
<1>3. CASE Tavily \/ DuckDuckGo \/ RateLimited \/ EndCode \/ Make
  <2>1. call.tool # "retrieval" \/ Make
    BY <1>3 DEF Tavily, DuckDuckGo, RateLimited, EndCode, CallInv, StageOfCall, SandboxStage
  <2>2. CASE Succeed({}) /\ ~Make
    BY <2>1, <2>2, SuccessReaches
  <2>3. CASE Make \/ ~Succeed({})
    <3>1. UNCHANGED <<library, outputs>> /\ at' # "ranking"
      BY <1>3, <2>3 DEF Tavily, DuckDuckGo, RateLimited, EndCode, Make, Raise, Done, Advance,
           provider, synthesis, sandbox
    <3> QED
      BY <3>1, QuietStepReaches
  <2> QED
    BY <2>2, <2>3
<1>4. CASE \/ \E r \in Request : Begin(r)
           \/ Refuse \/ Embed \/ EmbedFails \/ List \/ StoreFails \/ Recall \/ AskModel
           \/ Summarise \/ Crash
  <2>1. UNCHANGED <<library, outputs>> /\ at' # "ranking"
    BY <1>4 DEF Begin, Refuse, Embed, EmbedFails, List, StoreFails, Recall, AskModel,
         Summarise, Crash, Answered, Raise, Done, Advance, provider, synthesis
  <2> QED
    BY <2>1, QuietStepReaches
<1>5. CASE \/ (SandboxStep \/ SandboxFault \/ Program) /\ Outside
           \/ OtherProcessMakes \/ UNCHANGED toolVars
  <2>1. UNCHANGED <<library, outputs, pool, call>>
    BY <1>5 DEF Outside, OtherProcessMakes, toolVars, provider
  <2>2. at' = at \/ at' # "ranking"
    BY <1>5 DEF OtherProcessMakes, toolVars, sandbox, SandboxStep, SandboxFault, Program,
         Connect, Create, Start, Wait, TimeOut, Kill, ReadLogs, Remove, ConnectFails,
         LaunchFails, WaitFails, KillFails, LogsFail, RemoveFails, ProgramExits, DaemonFails,
         Return, Advance
  <2> QED
    BY <2>1, <2>2, QuietStepReaches
<1> QED
  BY <1>1, <1>2, <1>3, <1>4, <1>5 DEF ToolsNext, CallStep

\* For any knowledge base, scores and top_k, a retrieval leaves out a better
\* chunk of its workspace only when as many others as its pool holds are as
\* similar to the query (retrieval.py:46-106, 165-173).
THEOREM RetrievalsReachFar == ToolsSpec => []BetterChunksWereOutOfReach
<1>1. ToolsInit => GroundInv /\ CallInv /\ ReachInv
  <2>1. ToolsInit => GroundInv
    BY ToolsAssumption DEF ToolsInit, GroundInv, AnswersAreGrounded, Own
  <2>2. ToolsInit => ReachInv
    BY DEF ToolsInit, ReachInv, PoolReaches, BetterChunksWereOutOfReach, Retrievals
  <2> QED
    BY <2>1, <2>2, CallInvInitially
<1>2. GroundInv /\ CallInv /\ ReachInv /\ [ToolsNext]_toolVars
          => (GroundInv /\ CallInv /\ ReachInv)'
  BY GroundInvKept, CallInvKept, ReachInvKept
<1>3. ReachInv => BetterChunksWereOutOfReach
  BY DEF ReachInv
<1> QED
  BY <1>1, <1>2, <1>3, PTL DEF ToolsSpec

----------------------------------------------------------------------------

\* What the other invariants leave to say of the types.
RestTypeOK ==
    /\ config \in Configs
    /\ verdict \in {"none", "ok", "toolerror", "transient"}
    /\ met \subseteq Promise!Mishap
    /\ asked \in 0..2
    /\ collection \in BOOLEAN /\ client \in BOOLEAN /\ memory \in BOOLEAN
    /\ answer \in {"none", "model", "summary"}
    /\ prompt \subseteq Chunk \cup {"outputs", "memory"}

LEMMA TypesTogether ==
    ASSUME GroundInv, CallInv
    PROVE  ToolsTypeOK <=> RestTypeOK
<1>1. SandboxTypeOK /\ at \in SandboxStage \cup ToolStage /\ call \in Request \cup {NoCall}
  BY DEF CallInv, SandboxInv, StageOfCall
<1>2. library \subseteq Chunk /\ pool \subseteq Chunk
      /\ outputs \in Seq([tool : ToolName, top_k : Nat, chunks : SUBSET Chunk])
  <2> DEFINE A == [tool : ToolName, top_k : Nat, chunks : SUBSET Own]
             B == [tool : ToolName, top_k : Nat, chunks : SUBSET Chunk]
  <2>1. A \subseteq B
    BY DEF Own
  <2>2. outputs \in Seq(A)
    BY DEF GroundInv
  <2> HIDE DEF A, B
  <2>3. outputs \in Seq(B)
    BY <2>1, <2>2
  <2>4. library \subseteq Chunk /\ pool \subseteq Chunk
    BY DEF GroundInv, Own
  <2> QED
    BY <2>3, <2>4 DEF B
<1> QED
  BY <1>1, <1>2 DEF ToolsTypeOK, RestTypeOK

LEMMA PromptIsTyped ==
    ASSUME GroundInv, RestTypeOK
    PROVE  Prompt \subseteq Chunk \cup {"outputs", "memory"}
<1>1. CASE Retrievals = {}
  BY <1>1 DEF Prompt
<1>2. CASE Retrievals # {}
  <2>1. Retrievals \subseteq Nat /\ Retrievals \subseteq DOMAIN outputs
    BY DEF Retrievals, GroundInv
  <2>2. Min(Retrievals) \in DOMAIN outputs
    BY <1>2, <2>1, LeastIsAMember
  <2> DEFINE Output == [tool : ToolName, top_k : Nat, chunks : SUBSET Own]
  <2>3. outputs \in Seq(Output)
    BY DEF GroundInv
  <2> HIDE DEF Output
  <2>4. outputs[Min(Retrievals)] \in Output
    BY <2>2, <2>3
  <2>5. outputs[Min(Retrievals)].chunks \subseteq Chunk
    BY <2>4 DEF Output, Own
  <2> QED
    BY <1>2, <2>5 DEF Prompt
<1> QED
  BY <1>1, <1>2

\* A call ends with a verdict, and with the answer unchanged or typed.
LEMMA EndIsTyped ==
    ASSUME RestTypeOK, NEW v \in {"ok", "toolerror", "transient"}, NEW last \in Last, Done(v, last),
           answer' \in {"none", "model", "summary"},
           prompt' \subseteq Chunk \cup {"outputs", "memory"}
    PROVE  RestTypeOK'
<1>1. config' \in Configs /\ verdict' = v /\ asked' \in 0..2
  BY DEF RestTypeOK, Done
<1>m. met' \subseteq Promise!Mishap
  BY DEF RestTypeOK, Done, Last
<1>2. collection' \in BOOLEAN /\ client' \in BOOLEAN /\ memory' \in BOOLEAN
  BY DEF RestTypeOK, Done
<1> QED
  BY <1>1, <1>m, <1>2 DEF RestTypeOK

LEMMA RestTypeKept ==
    ASSUME RestTypeOK, GroundInv, CallInv, [ToolsNext]_toolVars
    PROVE  RestTypeOK'
<1>1. CASE \E r \in Request : Begin(r)
  BY <1>1 DEF RestTypeOK, Begin, provider
<1>2. CASE /\ Outside
           /\ \/ (SandboxStep \/ SandboxFault) /\ SandboxMeets
              \/ Program /\ UNCHANGED met
  <2>1. met' \subseteq Promise!Mishap
    BY <1>2, SandboxKeepsMet DEF RestTypeOK
  <2> QED
    BY <1>2, <2>1 DEF RestTypeOK, Outside, provider, synthesis
<1>3. CASE Embed \/ List \/ Search \/ Recall \/ OtherProcessMakes \/ UNCHANGED toolVars
  <2>1. UNCHANGED <<config, verdict, met, asked, answer, prompt>>
    BY <1>3 DEF Embed, List, Search, Recall, OtherProcessMakes, toolVars, provider, synthesis
  <2>2. collection' \in BOOLEAN /\ client' \in BOOLEAN /\ memory' \in BOOLEAN
    BY <1>3
    DEF RestTypeOK, Embed, List, Search, Recall, OtherProcessMakes, toolVars, provider,
        synthesis
  <2> QED
    BY <2>1, <2>2 DEF RestTypeOK
<1>4. CASE Crash
  <2>1. UNCHANGED <<config, verdict, met, answer, prompt>> /\ asked' \in 0..2
    BY <1>4 DEF Crash
  <2>2. collection' \in BOOLEAN /\ client' \in BOOLEAN /\ memory' \in BOOLEAN
    BY <1>4 DEF RestTypeOK, Crash
  <2> QED
    BY <2>1, <2>2 DEF RestTypeOK
<1>5. ASSUME NEW v \in {"ok", "toolerror", "transient"}, NEW last \in Last, Done(v, last),
             UNCHANGED <<answer, prompt>>
      PROVE  RestTypeOK'
  BY <1>5, EndIsTyped DEF RestTypeOK
<1>l. {} \in Last /\ {"provider"} \in Last /\ {"store"} \in Last
  BY LastMishap
<1>6. CASE Refuse \/ DuckDuckGo \/ EmbedFails \/ StoreFails \/ EndCode \/ Rank
  <2>1. \E v \in {"ok", "toolerror", "transient"}, last \in Last :
            Done(v, last) /\ UNCHANGED <<answer, prompt>>
    <3>1. CASE EndCode
      <4>1. Verdict \in {"ok", "toolerror", "transient"}
        BY <3>1 DEF EndCode, Verdict, CallInv, SandboxInv, SandboxTypeOK, StageOfBox, Ending
      <4> QED
        BY <1>l, <3>1, <4>1 DEF EndCode, Succeed, Raise
    <3>2. CASE Rank
      BY <1>l, <3>2 DEF Rank, Succeed, Raise
    <3>3. CASE Refuse \/ DuckDuckGo \/ EmbedFails \/ StoreFails
      BY <1>l, <3>3 DEF Refuse, DuckDuckGo, EmbedFails, StoreFails, Succeed, Raise
    <3> QED
      BY <1>6, <3>1, <3>2, <3>3
  <2> QED
    BY <1>5, <2>1
<1>7. CASE Tavily
  BY <1>5, <1>l, <1>7 DEF Tavily, Succeed, provider, synthesis, RestTypeOK
<1>8. CASE RateLimited
  <2>1. CASE asked < 2
    BY <1>8, <2>1 DEF RateLimited, synthesis, RestTypeOK
  <2>2. CASE ~(asked < 2)
    BY <1>5, <1>l, <1>8, <2>2 DEF RateLimited, Succeed
  <2> QED
    BY <2>1, <2>2
<1>9. CASE Make
  <2>1. CASE collection
    BY <1>5, <1>l, <1>9, <2>1 DEF Make, Raise
  <2>2. CASE ~collection
    BY <1>9, <2>2 DEF Make, synthesis, RestTypeOK
  <2> QED
    BY <2>1, <2>2
<1>10. CASE AskModel \/ Summarise
  <2>1. Done("ok", {}) /\ answer' \in {"model", "summary"}
        /\ prompt' \in {Prompt, {"outputs"}}
    BY <1>10 DEF AskModel, Summarise, Answered
  <2> QED
    BY <2>1, <1>l, PromptIsTyped, EndIsTyped
<1> QED
  BY <1>1, <1>2, <1>3, <1>4, <1>6, <1>7, <1>8, <1>9, <1>10 DEF ToolsNext, CallStep

\* The state of the tools stays typed: no more than three requests are sent for
\* one search (web_search.py:78-101), and nothing but chunks of the store
\* becomes a candidate or an output of a retrieval.
THEOREM ToolsTypeCorrect == ToolsSpec => []ToolsTypeOK
<1>1. ToolsInit => GroundInv /\ CallInv /\ RestTypeOK
  <2>1. ToolsInit => GroundInv
    BY ToolsAssumption DEF ToolsInit, GroundInv, AnswersAreGrounded, Own
  <2>2. ASSUME ToolsInit PROVE RestTypeOK
    <3>1. asked \in 0..2 /\ config \in Configs /\ answer = "none" /\ prompt = {}
          /\ verdict = "none" /\ met = {}
      BY <2>2 DEF ToolsInit
    <3>2. collection \in BOOLEAN /\ client \in BOOLEAN /\ memory \in BOOLEAN
      BY <2>2 DEF ToolsInit
    <3> QED
      BY <3>1, <3>2 DEF RestTypeOK
  <2> QED
    BY <2>1, <2>2, CallInvInitially
<1>2. GroundInv /\ CallInv /\ RestTypeOK /\ [ToolsNext]_toolVars
          => (GroundInv /\ CallInv /\ RestTypeOK)'
  BY GroundInvKept, CallInvKept, RestTypeKept
<1>3. GroundInv /\ CallInv /\ RestTypeOK => ToolsTypeOK
  BY TypesTogether
<1> QED
  BY <1>1, <1>2, <1>3, PTL DEF ToolsSpec
=============================================================================
