----------------------------- MODULE MCExecutor -----------------------------
(* Instances of Executor for TLC: the plans, whose rows are named like their *)
(* steps.                                                                    *)
EXTENDS Executor, TLC

CONSTANTS a, b, c, s, w1, w2

Identity(S) == [x \in S |-> x]

\* MockPlanner: web_search, then analyse_results, then a synthesis of both.
ChainRows   == {a, b, s}
ChainStepOf == Identity(ChainRows)
ChainDeps   == (a :> {}) @@ (b :> {a}) @@ (s :> {a, b})

\* Two searches side by side, an analysis of both, then a synthesis.
FanInRows   == {a, b, c, s}
FanInStepOf == Identity(FanInRows)
FanInDeps   == (a :> {}) @@ (b :> {}) @@ (c :> {a, b}) @@ (s :> {c})

\* One search, two analyses of it, then a synthesis of all.
DiamondRows   == {a, b, c, s}
DiamondStepOf == Identity(DiamondRows)
DiamondDeps   == (a :> {}) @@ (b :> {a}) @@ (c :> {a}) @@ (s :> {a, b, c})

ChainSynthesis == {s}
FanInSynthesis == {s}
DiamondSynthesis == {s}

Processes == Permutations({w1, w2})
=============================================================================
