----------------------------- MODULE MCPlatform -----------------------------
(* Instances of Platform for TLC. *)
EXTENDS Platform, TLC

CONSTANTS a, b, s, a2, s2, w1, w2

Reply(kind, rows) == [kind |-> kind, rows |-> rows]

Failures == { Reply(kind, {}) : kind \in Unreadable \cup {"steps", "odd"} }

\* Every plan of at most three rows over three steps: a row is a step and the
\* steps it depends on.  Steps are interchangeable, so it is enough to have the
\* plans that use them in order.
AnySteps  == {1, 2, 3}
AnyRows   == AnySteps \X SUBSET AnySteps
AnyStepOf == [t \in AnyRows |-> t[1]]
AnyDeps   == [t \in AnyRows |-> t[2]]
AnySynthesis == { t \in AnyRows : t[1] = 3 }
SmallSets == { {t, u, v} : t, u, v \in AnyRows }
InOrder(rows) == \A t \in rows : \A n \in 1..(t[1] - 1) : \E u \in rows : u[1] = n
AnyReplies ==
    Failures \cup { Reply("steps", rows) : rows \in { x \in SmallSets : InOrder(x) } }

\* MockPlanner's web search plan.
MockSteps  == {"web_search", "analyse_results", "synthesise"}
MockRows   == {a, b, s}
MockStepOf == (a :> "web_search") @@ (b :> "analyse_results") @@ (s :> "synthesise")
MockDeps   == (a :> {}) @@ (b :> {"web_search"}) @@ (s :> {"web_search", "analyse_results"})
MockSynthesis == {s}

\* A retrieval and a synthesis, persisted twice: a2 and s2 repeat a and s.
TwiceSteps  == {"retrieve_docs", "synthesise"}
TwiceRows   == {a, s, a2, s2}
TwiceStepOf == [t \in TwiceRows |-> IF t \in {a, a2} THEN "retrieve_docs" ELSE "synthesise"]
TwiceDeps   == [t \in TwiceRows |-> IF t \in {a, a2} THEN {} ELSE {"retrieve_docs"}]
TwiceSynthesis == {s, s2}
TwiceReplies == Failures \cup { Reply("steps", {a, s}), Reply("steps", {a2, s2}) }

\* Processes are interchangeable, and so are the two copies of the plan.
Swap == (a :> a2) @@ (a2 :> a) @@ (s :> s2) @@ (s2 :> s)
Interchangeable ==
    { p @@ q : p \in Permutations({w1, w2}), q \in {Swap, [t \in TwiceRows |-> t]} }
=============================================================================
