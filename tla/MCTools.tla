------------------------------ MODULE MCTools ------------------------------
(* An instance of Tools for TLC. *)
EXTENDS Tools, TLC

CONSTANTS b1, c1, c2, c3, c4, c5, w1, w2

Ask(tool, input) == [tool |-> tool, input |-> input, top_k |-> 1]

SomeRequests ==
    { Ask(tool, "given") : tool \in {"web_search", "code_exec", "synthesis"} }
    \cup { Ask("unknown", "given"), Ask("unnamed", "given"),
           Ask("code_exec", "blank"), Ask("retrieval", "malformed") }
    \cup { [tool |-> "retrieval", input |-> "given", top_k |-> 0],
           [tool |-> "retrieval", input |-> "given", top_k |-> 1, claims |-> w2] }

\* A bare installation, and one with everything.
SomeConfigs ==
    { [tavily |-> all, zhipu |-> all, openai |-> all, memory |-> all] : all \in BOOLEAN }

Chunks == {c1, c2, c3, c4, c5}
SomeLibraries == { {}, {c1, c5}, Chunks }

\* c5 belongs to another workspace; c4 has the words but is not among the three
\* most similar; c1 has none.
SomeOwner   == [c \in Chunks |-> IF c = c5 THEN w2 ELSE w1]
SomeVector  == (c1 :> 0) @@ (c2 :> 7) @@ (c3 :> 6) @@ (c4 :> 5) @@ (c5 :> 9)
SomeKeyword == (c1 :> 0) @@ (c2 :> 0) @@ (c3 :> 5) @@ (c4 :> 10) @@ (c5 :> 10)
=============================================================================
